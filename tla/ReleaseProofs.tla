----------------------------- MODULE ReleaseProofs -----------------------------
(***************************************************************************)
(* The pipeline's safety for any number of runs, commits and failures.     *)
(***************************************************************************)
EXTENDS Release, FiniteSetTheorems, WellFoundedInduction, TLAPS

\* Every set of naturals that is not empty has a least element.
LEMMA LeastNatural ==
    ASSUME NEW S \in SUBSET Nat, S # {}
    PROVE  \E m \in S : \A k \in S : m <= k
<1>1. IsWellFoundedOn(OpToRel(<, Nat), Nat)
  BY NatLessThanWellFounded
<1>2. \E m \in S : \A k \in S : ~(<<k, m>> \in OpToRel(<, Nat))
  BY <1>1, WFMin, Zenon
<1>3. OpToRel(<, Nat) = {ss \in Nat \X Nat : ss[1] < ss[2]}
  BY Zenon DEF OpToRel
<1> DEFINE R == {ss \in Nat \X Nat : ss[1] < ss[2]}
<1>4. \E m \in S : \A k \in S : <<k, m>> \notin R
  BY <1>2, <1>3, Zenon
<1>5. \A k, m \in S : <<k, m>> \notin R => m <= k
  OBVIOUS
<1> HIDE DEF R
<1> QED BY <1>4, <1>5

\* A set of naturals with a bound has a greatest element, which is its Max.
LEMMA BoundedMax ==
    ASSUME NEW S \in SUBSET Nat, S # {}, NEW b \in Nat, \A s \in S : s <= b
    PROVE  Max(S) \in S /\ \A s \in S : s <= Max(S)
<1> DEFINE B == {n \in Nat : \A s \in S : s <= n}
<1>1. PICK m \in B : \A k \in B : m <= k
  BY LeastNatural
<1>2. m \in S
  <2> SUFFICES ASSUME m \notin S PROVE FALSE
    OBVIOUS
  <2>1. m \in Nat /\ \A s \in S : s \in Nat /\ s <= m /\ s # m
    OBVIOUS
  <2>2. \A s \in S : s <= m - 1
    BY <2>1
  <2>3. PICK t \in S : t <= m - 1
    BY <2>2
  <2>4. m - 1 \in Nat
    BY <2>1, <2>3
  <2>5. m - 1 \in B
    BY <2>2, <2>4
  <2> QED BY <1>1, <2>1, <2>5
<1>3. m \in S /\ \A y \in S : m >= y
  BY <1>1, <1>2
<1> HIDE DEF B
<1> QED BY <1>3 DEF Max
-----------------------------------------------------------------------------
(***************************************************************************)
(* The inductive invariant.                                                *)
(***************************************************************************)
\* From the creation of the tag on a run owns it.
Owning == {"drafting", "reconciling", "uploading", "checking", "publishing", "storing"}
Unshipped == Owning \ {"storing"}
\* The run's draft may exist, and is not public yet.
Drafted == Unshipped \ {"drafting"}
Consumed == {"tagging"} \cup Owning
Authorized == {"beginning", "consuming"} \cup Consumed
Planned == {"building", "verifying"} \cup Authorized

In(r, phases) == r \in Started /\ run[r].phase \in phases

\* The plans and numbers a run may be issued.  That a sequence number is never
\* above the plan's own number bounds the search for the next one.
Proper(r, p) ==
    /\ p \in Plan /\ p.tag.channel # "stable" /\ Len(p.tag.seq) >= 1
    /\ p.tag.channel = "nightly" => p.tag.seq[1] = r
    /\ p.tag.channel # "nightly" => p.tag.seq[1] <= p.number

\* The ledger is the history of what was issued.
LedgerInv ==
    /\ ~branch => ledger = None /\ issued = {}
    /\ ledger # None =>
         /\ issued # {}
         /\ \A z \in issued : ledger.plans[z.run] = z.plan /\ z.plan.number <= ledger.counter
         /\ \A q \in Runs : ledger.plans[q] # None =>
                [run |-> q, plan |-> ledger.plans[q]] \in issued
    /\ \A z \in issued : Proper(z.run, z.plan)
    /\ Unique

Read(r) == IF run[r].seen[1] = None THEN NoLedger ELSE run[r].seen[1]

\* A plan about to be written is new for the ledger it was made from.  Several
\* runs may have found none, but only until the first has written one.
ReservingInv ==
    \A r \in Runs : At(r, "reserving") =>
        /\ run[r].seen \in Seq(Ledger \cup {None}) /\ Len(run[r].seen) = 1
        /\ ~Stable(r) /\ Proper(r, run[r].plan)
        /\ Read(r).plans[r] = None /\ run[r].plan.number > Read(r).counter
        /\ \A q \in Runs : Read(r).plans[q] # None => Read(r).plans[q].tag # run[r].plan.tag
        /\ run[r].seen[1] = None => IF ledger = None THEN issued = {} ELSE ~Serialized

ConsumingInv ==
    \A r \in Runs : At(r, "consuming") =>
        /\ run[r].seen \in Seq(Ledger) /\ Len(run[r].seen) = 1
        /\ run[r].seen[1].floor <= run[r].plan.number
        /\ ~Stable(r) => run[r].seen[1].floor < run[r].plan.number

\* The attempt was the last of a run that somebody asked for and that succeeded.
Done(bytes) ==
    /\ bytes[1] \in Started /\ run[bytes[1]].event = "dispatch"
    /\ bytes[2] <= run[bytes[1]].attempt
    /\ run[bytes[1]].attempt = bytes[2] => run[bytes[1]].phase = "succeeded"

\* A candidate works on its own plan, and publishes what it built itself.
CandidateInv ==
    \A r \in Runs : In(r, Planned) =>
        IF Stable(r) THEN run[r].phase # "building"
        ELSE /\ [run |-> r, plan |-> run[r].plan] \in issued
             /\ run[r].phase # "building" => run[r].bytes = <<r, run[r].attempt>>

\* A promotion works on the plan and bytes of a candidate that was published.
PromotionInv ==
    \A r \in Runs : In(r, Authorized) /\ Stable(r) =>
        /\ run[r].bytes \in Attempt /\ run[r].plan.tag.channel = "rc"
        /\ [run |-> run[r].bytes[1], plan |-> run[r].plan] \in issued
        /\ \E i \in DOMAIN shipped :
             shipped[i] = [tag |-> run[r].plan.tag, number |-> run[r].plan.number,
                           sha |-> run[r].plan.sha, bytes |-> run[r].bytes]
        /\ Done(run[r].bytes)

\* A tag is made once, by the run that owns it.
TagsInv ==
    /\ \A t \in Taken : t.channel = "stable" \/ \E z \in issued : z.plan.tag = t
    /\ \A r \in Runs : In(r, Owning) => [tag |-> Target(r), sha |-> run[r].plan.sha] \in tags
    /\ \A r, q \in Runs : In(r, Owning) /\ In(q, Owning) /\ Target(r) = Target(q) => r = q

\* What a run's own draft may be while it is being published.
DraftsInv ==
    \A r \in Runs :
        /\ In(r, Drafted \ {"reconciling"}) => run[r].rel = <<r, run[r].attempt>>
        /\ In(r, Drafted) => \A x \in releases : x.id = <<r, run[r].attempt>> =>
             /\ x.draft /\ x.tag = Target(r) /\ x.sha = run[r].plan.sha /\ x.bytes = run[r].bytes
             /\ run[r].phase = "publishing" => x.assets = "whole"

\* A release with a positive second part of its id was made by that attempt.
Made(x) ==
    /\ x.id[1] \in Started /\ x.id[2] <= run[x.id[1]].attempt
    /\ x.id[2] = run[x.id[1]].attempt =>
         run[x.id[1]].phase \in (Owning \ {"drafting"}) \cup Ended
    /\ [tag |-> x.tag, sha |-> x.sha] \in tags
    /\ \E z \in issued : /\ z.run = x.bytes[1] /\ z.plan.sha = x.sha
                         /\ x.tag.channel # "stable" => z.plan.tag = x.tag
    /\ \A r \in Runs : In(r, Owning) /\ Target(r) = x.tag => x.id = <<r, run[r].attempt>>

ReleasesInv ==
    \A x \in releases :
        /\ x.id[2] = 0 => x.draft
        /\ x.id[2] > 0 => Made(x)
        /\ \A y \in releases : x.id[2] > 0 /\ y.id = x.id => y = x
        /\ \A y \in releases : x.id[2] > 0 /\ y.id[2] > 0 /\ y.tag = x.tag => y.id = x.id

\* What is public was shipped, complete, under the number of its plan.
PublicInv ==
    \A x \in Public :
        /\ x.assets = "whole"
        /\ x.tag.channel # "stable" =>
             \E z \in issued : \E i \in DOMAIN shipped :
                 /\ z.run = x.bytes[1] /\ z.plan.tag = x.tag /\ z.plan.sha = x.sha
                 /\ shipped[i] = [tag |-> x.tag, number |-> z.plan.number,
                                  sha |-> x.sha, bytes |-> x.bytes]

ShippedInv ==
    \A j \in DOMAIN shipped :
        /\ [tag |-> shipped[j].tag, sha |-> shipped[j].sha] \in tags
        /\ \A r \in Runs : In(r, Unshipped) => Target(r) # shipped[j].tag
        /\ \A i \in 1..(j - 1) : shipped[i].tag # shipped[j].tag
        /\ shipped[j].tag.channel = "stable" =>
             /\ Done(shipped[j].bytes)
             /\ \E i \in 1..(j - 1) :
                  /\ shipped[i].tag.channel = "rc" /\ shipped[i].tag.base = shipped[j].tag.base
                  /\ shipped[i].bytes = shipped[j].bytes /\ shipped[i].sha = shipped[j].sha
                  /\ shipped[i].number = shipped[j].number

\* The floor in the ledger is above all that was ever shipped or is about to be.
FloorInv ==
    /\ issued = {} => shipped = <<>>
    /\ ledger # None =>
         /\ \A i \in DOMAIN shipped : shipped[i].number <= ledger.floor
         /\ \A r \in Runs : In(r, Consumed) => run[r].plan.number <= ledger.floor

\* One run at a time: nothing newer ships between its number and its release.
OrderInv ==
    Serialized =>
        /\ \A r, q \in Active : r = q
        /\ \A r \in Runs, i \in DOMAIN shipped : In(r, {"tagging"} \cup Unshipped) =>
             /\ shipped[i].number <= run[r].plan.number
             /\ ~Stable(r) => shipped[i].number < run[r].plan.number
        /\ PublicationOrder


\* All of it.
IInv ==
    /\ TypeOK /\ LedgerInv /\ ReservingInv /\ ConsumingInv /\ CandidateInv /\ PromotionInv
    /\ TagsInv /\ DraftsInv /\ ReleasesInv /\ PublicInv /\ ShippedInv /\ FloorInv /\ OrderInv

-----------------------------------------------------------------------------
(***************************************************************************)
(* What each action does to the runs.                                      *)
(***************************************************************************)

\* A step of run r alone, which had not ended and stays in the same attempt.
Only(r) ==
    /\ r \in Started /\ Started' = Started /\ run[r].phase \notin Ended
    /\ run' \in [Runs -> RunRecord \cup {None}]
    /\ run[r] \in RunRecord /\ run'[r] \in RunRecord
    /\ \A q \in Runs : q # r => run'[q] = run[q]
    /\ run'[r].event = run[r].event /\ run'[r].channel = run[r].channel
    /\ run'[r].sha = run[r].sha /\ run'[r].attempt = run[r].attempt

Others(r) == \A q \in Runs : q # r => run'[q] = run[q] /\ (q \in Started' <=> q \in Started)

\* It keeps what it is working on.
Same(r) ==
    /\ run'[r].channel = run[r].channel /\ run'[r].attempt = run[r].attempt
    /\ run'[r].plan = run[r].plan /\ run'[r].bytes = run[r].bytes

\* A run has its record.
LEMMA StartedFacts ==
    ASSUME TypeOK, NEW r \in Started
    PROVE  /\ r \in Runs /\ run[r] \in RunRecord /\ run[r].phase \in Phase
           /\ run[r].attempt \in Nat \ {0} /\ run[r].channel \in Channel
           /\ run[r].sha \in 1..MaxHead
<1>1. r \in Runs /\ run[r] \in RunRecord
  BY DEF TypeOK, Started
<1> QED BY <1>1 DEF RunRecord

\* What was shipped has its record.
LEMMA ShippedFacts ==
    ASSUME TypeOK
    PROVE  /\ DOMAIN shipped = 1..Len(shipped) /\ Len(shipped) \in Nat
           /\ \A j \in DOMAIN shipped : shipped[j].bytes \in Attempt /\ shipped[j].number \in Nat
<1> DEFINE S == [tag : Tag, number : Nat, sha : 1..MaxHead, bytes : Attempt]
<1>1. shipped \in Seq(S)
  BY DEF TypeOK
<1>2. \A s \in S : s.bytes \in Attempt /\ s.number \in Nat
  OBVIOUS
<1> HIDE DEF S
<1>3. /\ DOMAIN shipped = 1..Len(shipped) /\ Len(shipped) \in Nat
      /\ \A j \in 1..Len(shipped) : shipped[j] \in S
  BY <1>1
<1> QED BY <1>2, <1>3

\* The record of one run is replaced.
LEMMA RecordReplaced ==
    ASSUME TypeOK, NEW r \in Runs, NEW u \in RunRecord, run' = [run EXCEPT ![r] = u]
    PROVE  /\ run' \in [Runs -> RunRecord \cup {None}] /\ run'[r] = u
           /\ \A q \in Runs : q # r => run'[q] = run[q]
           /\ Started' = Started \cup {r}
<1>1. u # None
  BY ReleaseAssumption
<1>2. /\ run' \in [Runs -> RunRecord \cup {None}] /\ run'[r] = u
      /\ \A q \in Runs : q # r => run'[q] = run[q]
  BY DEF TypeOK
<1> QED BY <1>1, <1>2 DEF Started

\* A run moves to another phase.
LEMMA GotoFacts ==
    ASSUME TypeOK, NEW r \in Started, run[r].phase \notin Ended,
           NEW p \in Phase, Goto(r, p)
    PROVE  /\ Only(r) /\ Same(r) /\ run'[r].phase = p
           /\ run'[r].seen = run[r].seen /\ run'[r].rel = run[r].rel /\ run'[r].ref = run[r].ref
<1> DEFINE u == [run[r] EXCEPT !.phase = p]
<1>1. r \in Runs /\ run[r] \in RunRecord
  BY StartedFacts
<1>2. u \in RunRecord
  BY <1>1 DEF RunRecord
<1>3. /\ u.phase = p /\ u.event = run[r].event /\ u.channel = run[r].channel /\ u.sha = run[r].sha
      /\ u.attempt = run[r].attempt /\ u.plan = run[r].plan /\ u.bytes = run[r].bytes
      /\ u.seen = run[r].seen /\ u.rel = run[r].rel /\ u.ref = run[r].ref
  BY <1>1 DEF RunRecord
<1>4. run' = [run EXCEPT ![r] = u]
  BY DEF Goto
<1> HIDE DEF u
<1>5. /\ run' \in [Runs -> RunRecord \cup {None}] /\ run'[r] = u
      /\ \A q \in Runs : q # r => run'[q] = run[q]
      /\ Started' = Started \cup {r}
  BY <1>1, <1>2, <1>4, RecordReplaced
<1> QED BY <1>1, <1>2, <1>3, <1>5 DEF Only, Same

\* A run ends and forgets.
LEMMA ConcludeFacts ==
    ASSUME TypeOK, NEW r \in Started, run[r].phase \notin Ended,
           NEW p \in Phase, Conclude(r, p)
    PROVE  Only(r) /\ run'[r].phase = p
<1> DEFINE u == [run[r] EXCEPT !.phase = p, !.rc = None, !.plan = None, !.seen = None,
                               !.ref = 0, !.rel = None, !.bytes = None]
<1>1. r \in Runs /\ run[r] \in RunRecord
  BY StartedFacts
<1>2. u \in RunRecord
  <2>1. 0 \in 0..MaxHead
    BY ReleaseAssumption
  <2> QED BY <1>1, <2>1 DEF RunRecord
<1>3. /\ u.phase = p /\ u.event = run[r].event /\ u.channel = run[r].channel /\ u.sha = run[r].sha
      /\ u.attempt = run[r].attempt
  BY <1>1 DEF RunRecord
<1>4. run' = [run EXCEPT ![r] = u]
  BY DEF Conclude
<1> HIDE DEF u
<1>5. /\ run' \in [Runs -> RunRecord \cup {None}] /\ run'[r] = u
      /\ \A q \in Runs : q # r => run'[q] = run[q]
      /\ Started' = Started \cup {r}
  BY <1>1, <1>2, <1>4, RecordReplaced
<1> QED BY <1>1, <1>2, <1>3, <1>5 DEF Only

-----------------------------------------------------------------------------
(***************************************************************************)
(* Each part of the invariant, where a step leaves what it is about alone. *)
(***************************************************************************)

\* No run enters the phases, and those inside go on with the same work.
Kept(phases) == \A q \in Runs : In(q, phases)' => In(q, phases) /\ Same(q)

\* What was shipped stays on record.
ShippedGrows == \A i \in DOMAIN shipped : i \in DOMAIN shipped' /\ shipped'[i] = shipped[i]

\* Runs only go forward.
Forward ==
    \A q \in Started :
        /\ q \in Started' /\ run'[q].event = run[q].event
        /\ run[q].attempt \in Nat /\ run'[q].attempt \in Nat /\ run[q].attempt <= run'[q].attempt
        /\ run'[q].attempt = run[q].attempt =>
             /\ run[q].phase = "succeeded" => run'[q].phase = "succeeded"
             /\ run[q].phase \in (Owning \ {"drafting"}) \cup Ended =>
                    run'[q].phase \in (Owning \ {"drafting"}) \cup Ended

LEMMA LedgerKept ==
    ASSUME LedgerInv, UNCHANGED <<branch, ledger, issued>>
    PROVE  LedgerInv'
BY DEF LedgerInv, Unique, Proper

LEMMA ReservingKept ==
    ASSUME ReservingInv, UNCHANGED <<setting, issued>>, ledger' = None <=> ledger = None,
           \A q \in Runs : At(q, "reserving")' => At(q, "reserving") /\ run'[q] = run[q]
    PROVE  ReservingInv'
BY DEF ReservingInv, Read, Proper, Stable, Serialized

LEMMA ConsumingKept ==
    ASSUME ConsumingInv,
           \A q \in Runs : At(q, "consuming")' => At(q, "consuming") /\ run'[q] = run[q]
    PROVE  ConsumingInv'
BY DEF ConsumingInv, Stable

LEMMA CandidateKept ==
    ASSUME CandidateInv, issued \subseteq issued',
           \A q \in Runs : In(q, Planned)' =>
               IF Stable(q)' THEN run'[q].phase # "building"
               ELSE /\ In(q, Planned) /\ Same(q)
                    /\ run[q].phase = "building" => run'[q].phase = "building"
    PROVE  CandidateInv'
BY DEF CandidateInv, Same, Stable

\* That an attempt was the last and good one can only cease with another attempt.
LEMMA DoneForward ==
    ASSUME Forward, NEW b \in Attempt, Done(b)
    PROVE  Done(b)'
<1>1. b[1] \in Started /\ b[2] \in Nat
  BY DEF Done, Attempt
<1> QED BY <1>1 DEF Done, Forward

LEMMA PromotionKept ==
    ASSUME PromotionInv, issued \subseteq issued', ShippedGrows, Forward,
           \A q \in Runs : In(q, Authorized)' /\ Stable(q)' => In(q, Authorized) /\ Same(q)
    PROVE  PromotionInv'
<1> SUFFICES ASSUME NEW r \in Runs, In(r, Authorized)', Stable(r)'
             PROVE  /\ run'[r].bytes \in Attempt /\ run'[r].plan.tag.channel = "rc"
                    /\ [run |-> run'[r].bytes[1], plan |-> run'[r].plan] \in issued'
                    /\ \E i \in DOMAIN shipped' :
                         shipped'[i] = [tag |-> run'[r].plan.tag, number |-> run'[r].plan.number,
                                       sha |-> run'[r].plan.sha, bytes |-> run'[r].bytes]
                    /\ Done(run[r].bytes)'
  BY DEF PromotionInv
<1>1. In(r, Authorized) /\ Stable(r) /\ run'[r].bytes = run[r].bytes /\ run'[r].plan = run[r].plan
  BY DEF Same, Stable
<1>2. /\ run[r].bytes \in Attempt /\ run[r].plan.tag.channel = "rc"
      /\ [run |-> run[r].bytes[1], plan |-> run[r].plan] \in issued
      /\ Done(run[r].bytes)
  BY <1>1 DEF PromotionInv
<1>3. PICK i \in DOMAIN shipped :
        shipped[i] = [tag |-> run[r].plan.tag, number |-> run[r].plan.number,
                      sha |-> run[r].plan.sha, bytes |-> run[r].bytes]
  BY <1>1 DEF PromotionInv
<1>4. i \in DOMAIN shipped' /\ shipped'[i] = shipped[i]
  BY DEF ShippedGrows
<1>5. \A b \in Attempt : Done(b) => Done(b)'
  BY DoneForward
<1>6. Done(run[r].bytes)'
  BY <1>1, <1>2, <1>5 DEF Done
<1> QED BY <1>1, <1>2, <1>3, <1>4, <1>6

LEMMA TagsKept ==
    ASSUME TagsInv, Taken' \subseteq Taken, tags \subseteq tags', issued \subseteq issued',
           Kept(Owning)
    PROVE  TagsInv'
<1>1. \A t \in Taken' : t.channel = "stable" \/ \E z \in issued' : z.plan.tag = t
  BY DEF TagsInv
<1>2. \A q \in Runs : In(q, Owning)' =>
        /\ In(q, Owning) /\ Target(q)' = Target(q) /\ run'[q].plan = run[q].plan
  BY DEF Kept, Same, Target, Stable
<1>3. \A q \in Runs : In(q, Owning)' => [tag |-> Target(q)', sha |-> run'[q].plan.sha] \in tags'
  BY <1>2 DEF TagsInv
<1>4. \A r, q \in Runs : In(r, Owning)' /\ In(q, Owning)' /\ Target(r)' = Target(q)' => r = q
  BY <1>2 DEF TagsInv
<1> QED BY <1>1, <1>3, <1>4 DEF TagsInv

LEMMA DraftsKept ==
    ASSUME DraftsInv, releases' \subseteq releases, Kept(Drafted),
           \A q \in Runs : In(q, Drafted)' =>
               /\ run'[q].phase = "publishing" => run[q].phase = "publishing"
               /\ run'[q].phase # "reconciling" => run[q].phase # "reconciling"
               /\ run'[q].rel = run[q].rel
    PROVE  DraftsInv'
<1>1. \A q \in Runs : In(q, Drafted)' =>
        /\ In(q, Drafted) /\ Target(q)' = Target(q) /\ Same(q)
  BY DEF Kept, Same, Target, Stable
<1>2. \A q \in Runs : In(q, Drafted \ {"reconciling"})' => In(q, Drafted)' /\ In(q, Drafted \ {"reconciling"})
  BY <1>1 DEF In
<1>3. \A q \in Runs : In(q, Drafted \ {"reconciling"})' => run'[q].rel = <<q, run'[q].attempt>>
  BY <1>1, <1>2 DEF DraftsInv, Same
<1>4. \A q \in Runs : In(q, Drafted)' => \A x \in releases' : x.id = <<q, run'[q].attempt>> =>
        /\ x.draft /\ x.tag = Target(q)' /\ x.sha = run'[q].plan.sha /\ x.bytes = run'[q].bytes
        /\ run'[q].phase = "publishing" => x.assets = "whole"
  BY <1>1 DEF DraftsInv, Same
<1> QED BY <1>3, <1>4 DEF DraftsInv

\* A release stays the work of its attempt.
LEMMA MadeKept ==
    ASSUME TypeOK, tags \subseteq tags', issued \subseteq issued', Forward, Kept(Owning),
           NEW x \in releases, Made(x)
    PROVE  Made(x)'
<1>1. x.id[1] \in Started /\ x.id[2] \in Nat
  BY DEF Made, TypeOK, ReleaseRecord, Attempt
<1>2. /\ x.id[1] \in Started' /\ x.id[2] <= run'[x.id[1]].attempt
      /\ x.id[2] = run'[x.id[1]].attempt =>
           run'[x.id[1]].phase \in (Owning \ {"drafting"}) \cup Ended
  BY <1>1 DEF Made, Forward
<1>3. [tag |-> x.tag, sha |-> x.sha] \in tags'
  BY DEF Made
<1>4. \E z \in issued' : /\ z.run = x.bytes[1] /\ z.plan.sha = x.sha
                         /\ x.tag.channel # "stable" => z.plan.tag = x.tag
  BY DEF Made
<1>5. \A r \in Runs : In(r, Owning)' /\ Target(r)' = x.tag => x.id = <<r, run'[r].attempt>>
  <2>1. \A q \in Runs : In(q, Owning)' => In(q, Owning) /\ Target(q)' = Target(q) /\ run'[q].attempt = run[q].attempt
    BY DEF Kept, Same, Target, Stable
  <2> QED BY <2>1 DEF Made
<1> QED BY <1>2, <1>3, <1>4, <1>5 DEF Made

LEMMA ReleasesKept ==
    ASSUME TypeOK, ReleasesInv, releases' \subseteq releases, tags \subseteq tags',
           issued \subseteq issued', Forward, Kept(Owning)
    PROVE  ReleasesInv'
<1>1. \A x \in releases : Made(x) => Made(x)'
  BY MadeKept
<1>2. \A x \in releases' : x \in releases
  OBVIOUS
<1> QED BY <1>1, <1>2 DEF ReleasesInv

LEMMA PublicKept ==
    ASSUME PublicInv, releases' \subseteq releases, issued \subseteq issued', ShippedGrows
    PROVE  PublicInv'
<1>1. Public' \subseteq Public
  BY DEF Public
<1>2. \A x \in Public : x.tag.channel # "stable" =>
        \E z \in issued' : \E i \in DOMAIN shipped' :
            /\ z.run = x.bytes[1] /\ z.plan.tag = x.tag /\ z.plan.sha = x.sha
            /\ shipped'[i] = [tag |-> x.tag, number |-> z.plan.number,
                              sha |-> x.sha, bytes |-> x.bytes]
  <2> SUFFICES ASSUME NEW x \in Public, x.tag.channel # "stable"
               PROVE  \E z \in issued' : \E i \in DOMAIN shipped' :
                        /\ z.run = x.bytes[1] /\ z.plan.tag = x.tag /\ z.plan.sha = x.sha
                        /\ shipped'[i] = [tag |-> x.tag, number |-> z.plan.number,
                                          sha |-> x.sha, bytes |-> x.bytes]
    OBVIOUS
  <2>1. PICK z \in issued, i \in DOMAIN shipped :
            /\ z.run = x.bytes[1] /\ z.plan.tag = x.tag /\ z.plan.sha = x.sha
            /\ shipped[i] = [tag |-> x.tag, number |-> z.plan.number,
                             sha |-> x.sha, bytes |-> x.bytes]
    BY DEF PublicInv
  <2>2. z \in issued' /\ i \in DOMAIN shipped' /\ shipped'[i] = shipped[i]
    BY DEF ShippedGrows
  <2> QED BY <2>1, <2>2
<1> QED BY <1>1, <1>2 DEF PublicInv

LEMMA ShippedKept ==
    ASSUME TypeOK, ShippedInv, shipped' = shipped, tags \subseteq tags', Forward, Kept(Unshipped)
    PROVE  ShippedInv'
<1>1. \A q \in Runs : In(q, Unshipped)' => In(q, Unshipped) /\ Target(q)' = Target(q)
  BY DEF Kept, Same, Target, Stable
<1>2. \A j \in DOMAIN shipped : shipped[j].bytes \in Attempt
  BY ShippedFacts
<1>3. \A b \in Attempt : Done(b) => Done(b)'
  BY DoneForward
<1>4. \A j \in DOMAIN shipped : Done(shipped[j].bytes) => Done(shipped[j].bytes)'
  BY <1>2, <1>3 DEF Done
<1> QED BY <1>1, <1>4 DEF ShippedInv

LEMMA FloorKept ==
    ASSUME FloorInv, UNCHANGED <<ledger, shipped, issued>>, Kept(Consumed)
    PROVE  FloorInv'
BY DEF FloorInv, Kept, Same

LEMMA OrderKept ==
    ASSUME OrderInv, UNCHANGED <<setting, shipped>>, Serialized => \A r, q \in Active' : r = q,
           Kept({"tagging"} \cup Unshipped)
    PROVE  OrderInv'
BY DEF OrderInv, Kept, Same, Serialized, Stable, PublicationOrder

\* The step of a run that does not enter the phases with new work.
LEMMA KeptOthers ==
    ASSUME NEW r, Others(r), NEW S, run'[r].phase \in S => In(r, S) /\ Same(r)
    PROVE  Kept(S)
BY DEF Kept, In, Same, Others

LEMMA OthersOnly ==
    ASSUME TypeOK, NEW r, Only(r)
    PROVE  Others(r)
BY DEF Only, Others

LEMMA KeptOnly ==
    ASSUME TypeOK, NEW r, Only(r), NEW S, run'[r].phase \in S => run[r].phase \in S /\ Same(r)
    PROVE  Kept(S)
<1>1. run'[r].phase \in S => In(r, S) /\ Same(r)
  BY DEF Only, In
<1> QED BY <1>1, OthersOnly, KeptOthers

LEMMA ForwardOnly ==
    ASSUME TypeOK, NEW r, Only(r),
           run[r].phase \in Owning \ {"drafting"} =>
               run'[r].phase \in (Owning \ {"drafting"}) \cup Ended
    PROVE  Forward
<1>1. \A q \in Started : q # r => run'[q] = run[q]
  BY StartedFacts DEF Only
<1>2. \A q \in Started : run[q].attempt \in Nat
  BY StartedFacts
<1>3. Started' = Started /\ r \in Started /\ run[r].phase \notin Ended
  BY DEF Only
<1>4. run'[r].event = run[r].event /\ run'[r].attempt = run[r].attempt
  BY DEF Only
<1> QED BY <1>1, <1>2, <1>3, <1>4 DEF Forward, Ended

\* One active run stays one.
LEMMA ActiveOnly ==
    ASSUME TypeOK, OrderInv, NEW r, Only(r), setting' = setting,
           run[r].phase # "queued" \/ Active = {}
    PROVE  Serialized => \A p, q \in Active' : p = q
<1>1. Active' \subseteq Active \cup {r}
  BY StartedFacts DEF Only, Active
<1>2. run[r].phase # "queued" => r \in Active
  BY DEF Only, Active
<1> QED BY <1>1, <1>2 DEF OrderInv

\* A run ends, or begins, and nothing else happens.
LEMMA QuietSafe ==
    ASSUME IInv, NEW r, Others(r), TypeOK', Forward,
           UNCHANGED <<setting, branch, ledger, tags, releases, issued, shipped>>,
           run'[r].phase \in Ended \cup {"queued", "preparing", "verifying"},
           run'[r].phase = "verifying" => Stable(r)',
           Serialized => \A p, q \in Active' : p = q
    PROVE  IInv'
<1>1. run'[r].phase \notin Authorized \cup {"reserving", "building"}
  BY DEF Authorized, Consumed, Owning, Ended
<1>2. /\ Kept(Authorized) /\ Kept(Owning) /\ Kept(Drafted) /\ Kept(Unshipped) /\ Kept(Consumed)
      /\ Kept({"tagging"} \cup Unshipped)
  <2>1. /\ Owning \subseteq Authorized /\ Drafted \subseteq Authorized /\ Unshipped \subseteq Authorized
        /\ Consumed \subseteq Authorized /\ {"tagging"} \cup Unshipped \subseteq Authorized
    BY DEF Authorized, Consumed, Owning, Drafted, Unshipped
  <2> QED BY <1>1, <2>1, KeptOthers
<1>4. LedgerInv'
  BY LedgerKept DEF IInv
<1>5. \A q \in Runs, p \in {"reserving", "consuming"} : At(q, p)' => At(q, p) /\ run'[q] = run[q]
  BY <1>1 DEF Others, At, Authorized
<1>6. ReservingInv' /\ ConsumingInv'
  BY <1>5, ReservingKept, ConsumingKept DEF IInv
<1>7. CandidateInv'
  <2>1. \A q \in Runs : In(q, Planned)' =>
               IF Stable(q)' THEN run'[q].phase # "building"
               ELSE /\ In(q, Planned) /\ Same(q)
                    /\ run[q].phase = "building" => run'[q].phase = "building"
    <3> SUFFICES ASSUME NEW q \in Runs, In(q, Planned)'
                 PROVE  IF Stable(q)' THEN run'[q].phase # "building"
                        ELSE /\ In(q, Planned) /\ Same(q)
                             /\ run[q].phase = "building" => run'[q].phase = "building"
      OBVIOUS
    <3>1. CASE q = r
      <4>1. run'[r].phase = "verifying"
        BY <1>1, <3>1 DEF In, Planned, Ended, Authorized, Consumed, Owning
      <4> QED BY <3>1, <4>1
    <3>2. CASE q # r
      <4>1. run'[q] = run[q] /\ (q \in Started' <=> q \in Started)
        BY <3>2 DEF Others
      <4>2. In(q, Planned) /\ Same(q)
        BY <4>1 DEF In, Same
      <4> QED BY <4>1, <4>2 DEF CandidateInv, IInv, Stable
    <3> QED BY <3>1, <3>2
  <2> QED BY <2>1, CandidateKept DEF IInv
<1>8. ShippedGrows
  BY DEF ShippedGrows
<1>9. PromotionInv' /\ PublicInv'
  BY <1>2, <1>8, PromotionKept, PublicKept DEF IInv, Kept
<1>10. Taken' \subseteq Taken
  BY DEF Taken
<1>11. TagsInv' /\ ReleasesInv'
  BY <1>2, <1>10, TagsKept, ReleasesKept DEF IInv
<1>12. DraftsInv'
  <2>1. \A q \in Runs : In(q, Drafted)' => run'[q] = run[q]
    BY <1>1 DEF Others, In, Drafted, Unshipped, Authorized, Consumed
  <2> QED BY <1>2, <2>1, DraftsKept DEF IInv
<1>13. ShippedInv' /\ FloorInv'
  BY <1>2, ShippedKept, FloorKept DEF IInv
<1>14. OrderInv'
  BY <1>2, OrderKept DEF IInv
<1> QED BY <1>4, <1>6, <1>7, <1>9, <1>11, <1>12, <1>13, <1>14 DEF IInv

\* The same for a run that goes on with its attempt.
LEMMA RestSafe ==
    ASSUME IInv, NEW r, Only(r), TypeOK',
           UNCHANGED <<setting, branch, ledger, tags, releases, issued, shipped>>,
           run[r].phase # "queued" \/ Active = {},
           \/ run'[r].phase \in Ended
           \/ /\ run[r].phase \in {"queued", "preparing"}
              /\ run'[r].phase = "preparing" \/ (run'[r].phase = "verifying" /\ Stable(r))
    PROVE  IInv'
<1>1. TypeOK /\ OrderInv
  BY DEF IInv
<1>2. Others(r)
  BY <1>1, OthersOnly
<1>3. run[r].phase \in Owning \ {"drafting"} => run'[r].phase \in (Owning \ {"drafting"}) \cup Ended
  BY DEF Owning
<1>4. Forward
  BY <1>1, <1>3, ForwardOnly
<1>5. Serialized => \A p, q \in Active' : p = q
  BY <1>1, ActiveOnly
<1>6. run'[r].phase = "verifying" => Stable(r)'
  BY DEF Stable, Only, Ended
<1>7. run'[r].phase \in Ended \cup {"queued", "preparing", "verifying"}
  OBVIOUS
<1> QED BY <1>2, <1>4, <1>5, <1>6, <1>7, QuietSafe

\* The type of a state in which only the runs differ.
LEMMA RunsTyped ==
    ASSUME TypeOK, run' \in [Runs -> RunRecord \cup {None}], head' \in 1..MaxHead, trouble' \in Nat,
           UNCHANGED <<setting, exposed, branch, ledger, tags, releases, issued, shipped>>
    PROVE  TypeOK'
BY DEF TypeOK

\* With a limit of one run there is none when another begins.
LEMMA NoneActive ==
    ASSUME TypeOK, Serialized, Cardinality(Active) < setting.parallel
    PROVE  Active = {}
<1>1. Active \subseteq Runs
  BY DEF Active, Started
<1>2. IsFiniteSet(Runs)
  BY FS_Interval, ReleaseAssumption DEF Runs
<1>3. IsFiniteSet(Active)
  BY <1>1, <1>2, FS_Subset
<1>4. Cardinality(Active) \in Nat /\ Cardinality(Active) < 1
  BY <1>3, FS_CardinalityType DEF Serialized
<1> QED BY <1>3, <1>4, FS_EmptySet

\* The group admits a run.
LEMMA BeginSafe ==
    ASSUME IInv, NEW r \in Runs, Begin(r)
    PROVE  IInv'
<1>1. /\ r \in Started /\ run[r].phase = "queued" /\ Goto(r, "preparing")
      /\ UNCHANGED <<setting, exposed, head, branch, ledger, tags, releases, issued, shipped, trouble>>
      /\ Cardinality(Active) < setting.parallel
  BY DEF Begin, At, github
<1>2. TypeOK /\ OrderInv
  BY DEF IInv
<1>3. Only(r) /\ run'[r].phase = "preparing"
  BY <1>1, <1>2, GotoFacts DEF Phase, Ended
<1>4. TypeOK'
  BY <1>1, <1>2, <1>3, RunsTyped DEF TypeOK, Only
<1>5. Others(r)
  BY <1>2, <1>3, OthersOnly
<1>6. Forward
  BY <1>1, <1>2, <1>3, ForwardOnly DEF Owning
<1>7. Serialized => \A p, q \in Active' : p = q
  BY <1>1, <1>2, <1>3, NoneActive, ActiveOnly
<1> QED BY <1>1, <1>3, <1>4, <1>5, <1>6, <1>7, QuietSafe DEF Ended

\* A run fails.
LEMMA FailSafe ==
    ASSUME IInv, NEW r \in Runs, Fail(r)
    PROVE  IInv'
<1>1. /\ r \in Started /\ run[r].phase \notin Ended \cup {"queued"} /\ Conclude(r, "failed")
      /\ trouble' = trouble + 1
      /\ UNCHANGED <<setting, exposed, head, branch, ledger, tags, releases, issued, shipped>>
  BY DEF Fail, Active, Counted, github
<1>2. TypeOK
  BY DEF IInv
<1>3. Only(r) /\ run'[r].phase = "failed"
  BY <1>1, <1>2, ConcludeFacts DEF Phase, Ended
<1>4. TypeOK'
  BY <1>1, <1>2, <1>3, RunsTyped DEF TypeOK, Only
<1> QED BY <1>1, <1>3, <1>4, RestSafe DEF Ended

\* A run ends with nothing to publish, or succeeds.
LEMMA EndSafe ==
    ASSUME IInv, NEW r \in Runs, r \in Started, run[r].phase \notin Ended \cup {"queued"},
           NEW p \in Ended, Conclude(r, p),
           UNCHANGED <<setting, exposed, head, branch, ledger, tags, releases, issued, shipped, trouble>>
    PROVE  IInv'
<1>1. TypeOK
  BY DEF IInv
<1>2. p \in Phase
  BY DEF Phase
<1>3. Only(r) /\ run'[r].phase = p
  BY <1>1, <1>2, ConcludeFacts
<1>4. TypeOK'
  BY <1>1, <1>3, RunsTyped DEF TypeOK, Only
<1> QED BY <1>3, <1>4, RestSafe

LEMMA EndingsSafe ==
    ASSUME IInv, NEW r \in Runs, VersionRequired(r) \/ Superseded(r) \/ Reuse(r) \/ Succeed(r)
    PROVE  IInv'
<1>1. /\ r \in Started /\ run[r].phase \in {"preparing", "verifying", "storing"}
      /\ Conclude(r, "ended") \/ Conclude(r, "succeeded")
      /\ UNCHANGED <<setting, exposed, head, branch, ledger, tags, releases, issued, shipped, trouble>>
  BY DEF VersionRequired, Superseded, Reuse, Succeed, End, At, github
<1>2. run[r].phase \notin Ended \cup {"queued"} /\ "ended" \in Ended /\ "succeeded" \in Ended
  BY <1>1 DEF Ended
<1> QED BY <1>1, <1>2, EndSafe

\* A stable run has chosen its candidate; it holds nothing yet.
LEMMA PrepareStableSafe ==
    ASSUME IInv, NEW r \in Runs, PrepareStable(r)
    PROVE  IInv'
<1>1. /\ r \in Started /\ run[r].phase = "preparing" /\ Stable(r)
      /\ UNCHANGED <<setting, exposed, head, branch, ledger, tags, releases, issued, shipped, trouble>>
  BY DEF PrepareStable, At, github
<1>2. PICK x \in releases : run' = [run EXCEPT ![r].phase = "verifying", ![r].rc = x.tag]
  BY DEF PrepareStable
<1> DEFINE u == [run[r] EXCEPT !.phase = "verifying", !.rc = x.tag]
<1>3. TypeOK /\ run[r] \in RunRecord
  BY <1>1, StartedFacts DEF IInv
<1>4. x.tag \in Tag
  BY <1>3 DEF TypeOK, ReleaseRecord
<1>5. u \in RunRecord
  BY <1>3, <1>4 DEF RunRecord, Phase
<1>6. /\ u.phase = "verifying" /\ u.event = run[r].event /\ u.channel = run[r].channel
      /\ u.sha = run[r].sha /\ u.attempt = run[r].attempt
  BY <1>3 DEF RunRecord
<1>7. run' = [run EXCEPT ![r] = u]
  BY <1>2
<1> HIDE DEF u
<1>8. /\ run' \in [Runs -> RunRecord \cup {None}] /\ run'[r] = u
      /\ \A q \in Runs : q # r => run'[q] = run[q]
      /\ Started' = Started \cup {r}
  BY <1>3, <1>5, <1>7, RecordReplaced
<1>9. Only(r)
  BY <1>1, <1>3, <1>5, <1>6, <1>8 DEF Only, Ended
<1>10. TypeOK'
  BY <1>1, <1>3, <1>8, RunsTyped DEF TypeOK
<1> QED BY <1>1, <1>6, <1>8, <1>9, <1>10, RestSafe

\* GitHub creates a run, or repeats one that has ended.
LEMMA QueuedSafe ==
    ASSUME IInv, NEW r \in Runs, NEW u \in RunRecord, run' = [run EXCEPT ![r] = u],
           u.phase = "queued", head' \in 1..MaxHead, trouble' \in Nat,
           UNCHANGED <<setting, exposed, branch, ledger, tags, releases, issued, shipped>>,
           r \in Started => /\ run[r].phase \in Ended /\ u.event = run[r].event
                            /\ u.attempt = run[r].attempt + 1
    PROVE  IInv'
<1>1. TypeOK /\ OrderInv
  BY DEF IInv
<1>2. /\ run' \in [Runs -> RunRecord \cup {None}] /\ run'[r] = u
      /\ \A q \in Runs : q # r => run'[q] = run[q]
      /\ Started' = Started \cup {r}
  BY <1>1, RecordReplaced
<1>3. Others(r)
  BY <1>2 DEF Others
<1>4. TypeOK'
  BY <1>1, <1>2, RunsTyped
<1>5. Forward
  <2>1. \A q \in Started : q \in Runs /\ run[q].attempt \in Nat
    BY <1>1, StartedFacts
  <2>2. \A q \in Started : q # r => run'[q] = run[q]
    BY <1>2, <2>1
  <2>3. r \in Started => run'[r].event = run[r].event /\ run'[r].attempt = run[r].attempt + 1
    BY <1>2
  <2> QED BY <1>2, <2>1, <2>2, <2>3 DEF Forward
<1>6. Active' \subseteq Active
  BY <1>2 DEF Active, Started
<1>7. Serialized => \A p, q \in Active' : p = q
  BY <1>1, <1>6 DEF OrderInv
<1> QED BY <1>2, <1>3, <1>4, <1>5, <1>7, QuietSafe

LEMMA NewRunSafe ==
    ASSUME IInv, NEW event \in {"push", "schedule", "dispatch"}, NEW channel \in Channel,
           NEW sha \in 1..MaxHead, NewRun(event, channel, sha), head' \in 1..MaxHead,
           UNCHANGED <<setting, exposed, branch, ledger, tags, releases, issued, shipped, trouble>>
    PROVE  IInv'
<1> DEFINE u == [phase |-> "queued", event |-> event, channel |-> channel, sha |-> sha,
                 attempt |-> 1, rc |-> None, plan |-> None, seen |-> None, ref |-> 0,
                 rel |-> None, bytes |-> None]
<1>1. PICK r \in 1..setting.runs : r \notin Started /\ run' = [run EXCEPT ![r] = u]
  BY DEF NewRun, Enqueue
<1>2. setting.runs \in 1..MaxRuns /\ MaxRuns \in Nat /\ 0 \in 0..MaxHead
  BY ReleaseAssumption DEF IInv, TypeOK
<1>3. r \in Runs
  BY <1>2 DEF Runs
<1>4. u \in RunRecord /\ u.phase = "queued"
  BY <1>2 DEF RunRecord, Phase
<1>5. trouble' \in Nat
  BY DEF IInv, TypeOK
<1> HIDE DEF u
<1> QED BY <1>1, <1>3, <1>4, <1>5, QueuedSafe

\* Push, schedule and workflow_dispatch.
LEMMA EventsSafe ==
    ASSUME IInv, Push \/ Schedule \/ Dispatch
    PROVE  IInv'
<1>1. /\ UNCHANGED <<setting, exposed, branch, ledger, tags, releases, issued, shipped, trouble>>
      /\ head \in 1..MaxHead /\ MaxHead \in Nat
  BY ReleaseAssumption DEF Push, Schedule, Dispatch, github, IInv, TypeOK
<1>2. CASE Push
  <2>1. NewRun("push", "beta", head') /\ head' \in 1..MaxHead
    BY <1>1, <1>2 DEF Push
  <2>2. "beta" \in Channel /\ "push" \in {"push", "schedule", "dispatch"}
    BY DEF Channel
  <2> DEFINE h == head'
  <2>3. NewRun("push", "beta", h) /\ h \in 1..MaxHead
    BY <2>1
  <2> HIDE DEF h
  <2> QED BY <1>1, <2>1, <2>2, <2>3, NewRunSafe
<1>3. CASE Schedule
  <2>1. NewRun("schedule", "nightly", head) /\ head' = head
    BY <1>3 DEF Schedule
  <2>2. "nightly" \in Channel
    BY DEF Channel
  <2> QED BY <1>1, <2>1, <2>2, NewRunSafe
<1>4. CASE Dispatch
  <2>1. PICK channel \in Requests : NewRun("dispatch", channel, head)
    BY <1>4 DEF Dispatch
  <2>2. channel \in Channel /\ head' = head
    BY <1>4, ReleaseAssumption DEF Dispatch
  <2> QED BY <1>1, <2>1, <2>2, NewRunSafe
<1> QED BY <1>2, <1>3, <1>4

\* Re-run all jobs.
LEMMA RerunSafe ==
    ASSUME IInv, NEW r \in Runs, Rerun(r)
    PROVE  IInv'
<1> DEFINE u == [run[r] EXCEPT !.phase = "queued", !.attempt = @ + 1]
<1>1. /\ r \in Started /\ run[r].phase \in Ended /\ run' = [run EXCEPT ![r] = u]
      /\ trouble' = trouble + 1
      /\ UNCHANGED <<setting, exposed, head, branch, ledger, tags, releases, issued, shipped>>
  BY DEF Rerun, Enqueue, Counted, github
<1>2. TypeOK /\ run[r] \in RunRecord /\ run[r].attempt \in Nat
  BY <1>1, StartedFacts DEF IInv
<1>3. /\ u \in RunRecord /\ u.phase = "queued" /\ u.event = run[r].event
      /\ u.attempt = run[r].attempt + 1
  <2> DEFINE a == run[r].attempt + 1
  <2>1. a \in Nat \ {0}
    BY <1>2
  <2> HIDE DEF a
  <2>2. u = [run[r] EXCEPT !.phase = "queued", !.attempt = a]
    BY DEF a
  <2>3. [run[r] EXCEPT !.phase = "queued", !.attempt = a] \in RunRecord
    BY <1>2, <2>1 DEF RunRecord, Phase
  <2>4. u.phase = "queued" /\ u.event = run[r].event /\ u.attempt = a
    BY <1>2, <2>2 DEF RunRecord
  <2> QED BY <2>2, <2>3, <2>4 DEF a
<1>4. head' \in 1..MaxHead /\ trouble' \in Nat
  BY <1>1, <1>2 DEF TypeOK
<1> HIDE DEF u
<1> QED BY <1>1, <1>3, <1>4, QueuedSafe

\* What an authorized run works on was issued to the run that built it.
LEMMA AuthorizedFacts ==
    ASSUME IInv, NEW r \in Runs, In(r, Authorized)
    PROVE  /\ run[r].plan \in Plan /\ run[r].bytes \in Attempt /\ run[r].attempt \in Nat \ {0}
           /\ [run |-> run[r].bytes[1], plan |-> run[r].plan] \in issued
           /\ Proper(run[r].bytes[1], run[r].plan)
           /\ ~Stable(r) => run[r].bytes[1] = r
<1>1. r \in Started /\ run[r].attempt \in Nat \ {0}
  BY StartedFacts DEF In, IInv
<1>2. In(r, Planned) /\ run[r].phase # "building"
  BY DEF In, Planned, Authorized, Consumed, Owning
<1>3. /\ [run |-> run[r].bytes[1], plan |-> run[r].plan] \in issued /\ run[r].bytes \in Attempt
      /\ ~Stable(r) => run[r].bytes[1] = r
  <2>1. CASE Stable(r)
    BY <2>1 DEF IInv, PromotionInv
  <2>2. CASE ~Stable(r)
    <3>1. run[r].bytes = <<r, run[r].attempt>> /\ [run |-> r, plan |-> run[r].plan] \in issued
      BY <1>2, <2>2 DEF IInv, CandidateInv
    <3> QED BY <1>1, <3>1 DEF Attempt
  <2> QED BY <2>1, <2>2
<1>4. Proper(run[r].bytes[1], run[r].plan)
  BY <1>3 DEF IInv, LedgerInv
<1> QED BY <1>1, <1>3, <1>4 DEF Proper

\* The draft such a run may make.
LEMMA DraftFacts ==
    ASSUME IInv, NEW r \in Runs, In(r, Consumed)
    PROVE  /\ Draft(r) \in ReleaseRecord /\ Target(r) \in Tag
           /\ Stable(r) => Target(r).channel = "stable"
           /\ ~Stable(r) => Target(r) = run[r].plan.tag
           /\ Target(r).channel = "stable" \/ \E z \in issued : z.plan.tag = Target(r)
           /\ Target(r).channel = "stable" => Stable(r)
           /\ Draft(r).id = <<r, run[r].attempt>> /\ Draft(r).tag = Target(r)
           /\ Draft(r).sha = run[r].plan.sha /\ Draft(r).bytes = run[r].bytes
           /\ Draft(r).draft = TRUE /\ Draft(r).assets = "none"
<1>1. /\ run[r].plan \in Plan /\ run[r].bytes \in Attempt /\ run[r].attempt \in Nat \ {0}
      /\ [run |-> run[r].bytes[1], plan |-> run[r].plan] \in issued
      /\ run[r].plan.tag.channel # "stable"
  BY AuthorizedFacts DEF In, Authorized, Proper
<1>2. /\ run[r].plan.tag \in Tag /\ run[r].plan.tag.base \in Nat /\ run[r].plan.sha \in 1..MaxHead
      /\ run[r].plan.number \in Nat
  BY <1>1 DEF Plan, Tag
<1>3. Stable(r) => Target(r) \in Tag /\ Target(r).channel = "stable"
  BY <1>2 DEF Target, StableTag, Tag, Channel
<1>4. ~Stable(r) => Target(r) = run[r].plan.tag
  BY DEF Target
<1>5. Target(r) \in Tag
  BY <1>2, <1>3, <1>4
<1>6. Draft(r) \in ReleaseRecord
  BY <1>1, <1>2, <1>5 DEF Draft, ReleaseRecord, Attempt
<1>7. /\ Draft(r).id = <<r, run[r].attempt>> /\ Draft(r).tag = Target(r)
      /\ Draft(r).sha = run[r].plan.sha /\ Draft(r).bytes = run[r].bytes
      /\ Draft(r).draft = TRUE /\ Draft(r).assets = "none"
  BY DEF Draft
<1>8. ~Stable(r) => \E z \in issued : z.plan.tag = Target(r)
  BY <1>1, <1>4
<1> QED BY <1>1, <1>3, <1>4, <1>5, <1>6, <1>7, <1>8

-----------------------------------------------------------------------------
(***************************************************************************)
(* Accidents.                                                              *)
(***************************************************************************)

\* Without a step of any run, everything is as it was with the runs.
LEMMA StillKept ==
    ASSUME TypeOK, run' = run
    PROVE  Forward /\ \A S : Kept(S)
<1>1. Started' = Started
  BY DEF Started
<1>2. \A q \in Started : run[q].attempt \in Nat
  BY StartedFacts
<1> QED BY <1>1, <1>2 DEF Forward, Kept, In, Same

\* The parts that no accident touches.
LEMMA AccidentKept ==
    ASSUME IInv, UNCHANGED <<setting, run, branch, tags, issued, shipped>>
    PROVE  /\ ConsumingInv' /\ CandidateInv' /\ PromotionInv'
           /\ ShippedInv' /\ OrderInv'
<1>1. TypeOK /\ Forward /\ \A S : Kept(S)
  BY StillKept DEF IInv
<1>2. ConsumingInv'
  BY ConsumingKept DEF IInv, At, Started
<1>3. CandidateInv'
  BY <1>1, CandidateKept DEF IInv, Kept, CandidateInv, Stable
<1>4. ShippedGrows
  BY DEF ShippedGrows
<1>5. PromotionInv'
  BY <1>1, <1>4, PromotionKept DEF IInv, Kept
<1>6. ShippedInv'
  BY <1>1, ShippedKept DEF IInv
<1>7. Active' = Active
  BY DEF Active, Started
<1>8. OrderInv'
  BY <1>1, <1>7, OrderKept DEF IInv, OrderInv
<1> QED BY <1>2, <1>3, <1>5, <1>6, <1>8

LEMMA DeleteReleaseSafe ==
    ASSUME IInv, DeleteRelease, trouble' \in Nat,
           UNCHANGED <<setting, head, run, issued, shipped>>
    PROVE  IInv'
<1>1. releases' \subseteq releases /\ UNCHANGED <<exposed, branch, ledger, tags>>
  BY DEF DeleteRelease
<1>2. TypeOK /\ Forward /\ \A S : Kept(S)
  BY StillKept DEF IInv
<1>3. TypeOK'
  BY <1>1, <1>2 DEF TypeOK
<1>4. Taken' \subseteq Taken
  BY <1>1 DEF Taken
<1>5. ShippedGrows
  BY DEF ShippedGrows
<1>6. LedgerInv' /\ TagsInv' /\ ReleasesInv' /\ PublicInv' /\ FloorInv'
  BY <1>1, <1>2, <1>4, <1>5, LedgerKept, TagsKept, ReleasesKept, PublicKept, FloorKept DEF IInv
<1>7. DraftsInv'
  BY <1>1, <1>2, DraftsKept DEF IInv
<1>8. ReservingInv'
  BY <1>1, ReservingKept DEF IInv, At, Started
<1> QED BY <1>1, <1>3, <1>6, <1>7, <1>8, AccidentKept DEF IInv

LEMMA RemoveLedgerSafe ==
    ASSUME IInv, RemoveLedger, ~exposed', trouble' \in Nat,
           UNCHANGED <<setting, head, run, issued, shipped>>
    PROVE  IInv'
<1>1. /\ ledger # None /\ ledger' = None /\ UNCHANGED <<branch, tags, releases>>
      /\ exposed' = FALSE
      /\ \A r \in Runs : At(r, "reserving") => run[r].seen # <<None>>
  BY DEF RemoveLedger
<1>2. TypeOK /\ Forward /\ \A S : Kept(S)
  BY StillKept DEF IInv
<1>3. TypeOK'
  BY <1>1, <1>2 DEF TypeOK
<1>4. Taken' \subseteq Taken
  BY <1>1 DEF Taken
<1>5. ShippedGrows
  BY DEF ShippedGrows
<1>6. TagsInv' /\ ReleasesInv' /\ PublicInv'
  BY <1>1, <1>2, <1>4, <1>5, TagsKept, ReleasesKept, PublicKept DEF IInv
<1>7. DraftsInv'
  BY <1>1, <1>2, DraftsKept DEF IInv
<1>8. LedgerInv'
  BY <1>1 DEF IInv, LedgerInv, Proper, Unique
<1>9. FloorInv'
  BY <1>1 DEF IInv, FloorInv
<1>10. ReservingInv'
  <2>1. \A r \in Runs : At(r, "reserving") => run[r].seen[1] # None
    <3> SUFFICES ASSUME NEW r \in Runs, At(r, "reserving"), run[r].seen[1] = None
                 PROVE  FALSE
      OBVIOUS
    <3>1. run[r].seen \in Seq(Ledger \cup {None}) /\ Len(run[r].seen) = 1
      BY DEF IInv, ReservingInv
    <3>2. run[r].seen = <<None>>
      BY <3>1
    <3> QED BY <1>1, <3>2
  <2> QED BY <2>1 DEF IInv, ReservingInv, At, Started, Read, Proper, Stable
<1> QED BY <1>1, <1>3, <1>6, <1>7, <1>8, <1>9, <1>10, AccidentKept DEF IInv

LEMMA ForeignDraftSafe ==
    ASSUME IInv, ForeignDraft, trouble' \in Nat,
           UNCHANGED <<setting, head, run, issued, shipped>>
    PROVE  IInv'
<1>1. PICK r \in Active :
        /\ run[r].phase \in {"tagging", "drafting", "reconciling"}
        /\ releases' = releases \cup {[Draft(r) EXCEPT !.id = <<r, 0>>, !.maker = 0]}
  BY DEF ForeignDraft
<1>2. UNCHANGED <<exposed, branch, ledger, tags>>
  BY DEF ForeignDraft
<1> DEFINE d == [Draft(r) EXCEPT !.id = <<r, 0>>, !.maker = 0]
<1>3. r \in Runs /\ In(r, Consumed)
  BY <1>1 DEF Active, Started, In, Consumed, Owning
<1>4. /\ Draft(r) \in ReleaseRecord /\ Draft(r).tag = Target(r) /\ Draft(r).draft = TRUE
      /\ Target(r).channel = "stable" \/ \E z \in issued : z.plan.tag = Target(r)
  BY <1>3, DraftFacts
<1>5. <<r, 0>> \in Attempt /\ 0 \in Runs \cup {0}
  BY <1>3 DEF Attempt
<1>6. d \in ReleaseRecord
  BY <1>4, <1>5 DEF ReleaseRecord
<1>7. d.id = <<r, 0>> /\ d.tag = Target(r) /\ d.draft = TRUE
  BY <1>4 DEF ReleaseRecord
<1>8. releases' = releases \cup {d}
  BY <1>1
<1> HIDE DEF d
<1>9. TypeOK /\ Forward /\ \A S : Kept(S)
  BY StillKept DEF IInv
<1>10. TypeOK'
  BY <1>2, <1>6, <1>8, <1>9 DEF TypeOK
<1>11. d.id[2] = 0 /\ \A q \in Started : d.id # <<q, run[q].attempt>>
  BY <1>7, <1>9, StartedFacts
<1>12. Public' = Public
  BY <1>7, <1>8 DEF Public
<1>13. PublicInv'
  BY <1>12 DEF IInv, PublicInv
<1>14. \A x \in releases : Made(x) => Made(x)'
  BY <1>2, <1>9, MadeKept
<1>15. ReleasesInv'
  <2>1. \A x \in releases : x.id[2] > 0 => d.id # x.id
    BY <1>11
  <2> QED BY <1>7, <1>8, <1>11, <1>14, <2>1 DEF IInv, ReleasesInv
<1>16. Started' = Started
  BY DEF Started
<1>17. TagsInv'
  <2>1. Taken' = Taken \cup {Target(r)}
    BY <1>2, <1>7, <1>8 DEF Taken
  <2>2. \A t \in Taken' : t.channel = "stable" \/ \E z \in issued' : z.plan.tag = t
    BY <1>4, <2>1 DEF IInv, TagsInv
  <2> QED BY <1>2, <1>16, <2>2 DEF IInv, TagsInv, In, Target, Stable
<1>18. DraftsInv'
  BY <1>8, <1>11, <1>16 DEF IInv, DraftsInv, In, Target, Stable
<1>19. LedgerInv' /\ FloorInv'
  BY <1>2, <1>9, LedgerKept, FloorKept DEF IInv
<1>20. ReservingInv'
  BY <1>2, ReservingKept DEF IInv, At, Started
<1> QED BY <1>2, <1>10, <1>13, <1>15, <1>17, <1>18, <1>19, <1>20, AccidentKept DEF IInv

LEMMA AccidentSafe ==
    ASSUME IInv, Accident, ~exposed'
    PROVE  IInv'
<1>1. trouble' \in Nat /\ UNCHANGED <<setting, head, run, issued, shipped>>
  BY DEF Accident, Counted, IInv, TypeOK
<1> QED BY <1>1, DeleteReleaseSafe, RemoveLedgerSafe, ForeignDraftSafe DEF Accident

-----------------------------------------------------------------------------
(***************************************************************************)
(* prepare() and the authorization of a publication.                       *)
(***************************************************************************)

\* A step of a run that has no tag yet, or keeps its tag.
LEMMA WorkKept ==
    ASSUME IInv, NEW r, Only(r), TypeOK', run[r].phase # "queued",
           UNCHANGED <<setting, tags, releases, shipped>>, issued \subseteq issued',
           \A S \in {Owning, Unshipped, {"tagging"} \cup Unshipped} :
               run'[r].phase \in S => run[r].phase \in S /\ Same(r),
           run[r].phase \in Owning \ {"drafting"} => run'[r].phase \in Owning \ {"drafting"}
    PROVE  /\ TagsInv' /\ ReleasesInv' /\ PublicInv' /\ ShippedInv' /\ OrderInv'
           /\ Forward /\ Others(r) /\ ShippedGrows
<1>1. TypeOK /\ OrderInv
  BY DEF IInv
<1>2. Others(r) /\ Forward
  BY <1>1, OthersOnly, ForwardOnly
<1>3. Kept(Owning) /\ Kept(Unshipped) /\ Kept({"tagging"} \cup Unshipped)
  BY <1>1, KeptOnly
<1>4. ShippedGrows
  BY DEF ShippedGrows
<1>5. Taken' \subseteq Taken
  BY DEF Taken
<1>6. TagsInv' /\ ReleasesInv' /\ PublicInv' /\ ShippedInv'
  BY <1>2, <1>3, <1>4, <1>5, TagsKept, ReleasesKept, PublicKept, ShippedKept DEF IInv
<1>7. OrderInv'
  BY <1>1, <1>3, ActiveOnly, OrderKept
<1> QED BY <1>2, <1>4, <1>6, <1>7

\* A run that has consumed nothing goes on: what has to hold of its new record.
LEMMA WorkSafe ==
    ASSUME IInv, NEW r \in Runs, Only(r), TypeOK', run[r].phase # "queued",
           UNCHANGED <<setting, branch, ledger, tags, releases, issued, shipped>>,
           run[r].phase \notin Consumed,
           run'[r].phase \in {"building", "verifying", "beginning", "consuming"},
           run'[r].phase = "consuming" =>
               /\ run'[r].seen \in Seq(Ledger) /\ Len(run'[r].seen) = 1
               /\ run'[r].seen[1].floor <= run'[r].plan.number
               /\ ~Stable(r) => run'[r].seen[1].floor < run'[r].plan.number,
           Stable(r) => run'[r].phase # "building",
           ~Stable(r) =>
               /\ [run |-> r, plan |-> run'[r].plan] \in issued
               /\ run'[r].phase # "building" => run'[r].bytes = <<r, run[r].attempt>>,
           Stable(r) /\ run'[r].phase # "verifying" =>
               /\ run'[r].bytes \in Attempt /\ run'[r].plan.tag.channel = "rc"
               /\ [run |-> run'[r].bytes[1], plan |-> run'[r].plan] \in issued
               /\ \E i \in DOMAIN shipped :
                    shipped[i] = [tag |-> run'[r].plan.tag, number |-> run'[r].plan.number,
                                  sha |-> run'[r].plan.sha, bytes |-> run'[r].bytes]
               /\ Done(run[r].bytes)'
    PROVE  IInv'
<1>1. run'[r].phase \notin Consumed \cup {"reserving"}
  BY DEF Consumed, Owning
<1>2. /\ TagsInv' /\ ReleasesInv' /\ PublicInv' /\ ShippedInv' /\ OrderInv'
      /\ Forward /\ Others(r) /\ ShippedGrows
  <2>1. \A S \in {Owning, Unshipped, {"tagging"} \cup Unshipped} : S \subseteq Consumed
    BY DEF Owning, Unshipped, Consumed
  <2>2. \A S \in {Owning, Unshipped, {"tagging"} \cup Unshipped} :
               run'[r].phase \in S => run[r].phase \in S /\ Same(r)
    BY <1>1, <2>1
  <2>3. run[r].phase \notin Owning \ {"drafting"}
    BY <2>1
  <2> QED BY <2>2, <2>3, WorkKept
<1>3. /\ run'[r].attempt = run[r].attempt /\ (Stable(r)' <=> Stable(r))
      /\ \A q \in Runs : q # r => /\ run'[q] = run[q] /\ (q \in Started' <=> q \in Started)
                                  /\ (Stable(q)' <=> Stable(q))
  BY <1>2 DEF Only, Others, Stable
<1>4. LedgerInv'
  BY LedgerKept DEF IInv
<1>5. ReservingInv'
  <2>1. \A q \in Runs : At(q, "reserving")' => At(q, "reserving") /\ run'[q] = run[q]
    BY <1>1, <1>3 DEF At
  <2> QED BY <2>1, ReservingKept DEF IInv
<1>6. ConsumingInv'
  <2> SUFFICES ASSUME NEW q \in Runs, At(q, "consuming")'
               PROVE  /\ run'[q].seen \in Seq(Ledger) /\ Len(run'[q].seen) = 1
                      /\ run'[q].seen[1].floor <= run'[q].plan.number
                      /\ ~Stable(q)' => run'[q].seen[1].floor < run'[q].plan.number
    BY DEF ConsumingInv
  <2>1. CASE q = r
    BY <1>3, <2>1 DEF At
  <2>2. CASE q # r
    BY <1>3, <2>2 DEF At, IInv, ConsumingInv
  <2> QED BY <2>1, <2>2
<1>7. CandidateInv'
  <2> SUFFICES ASSUME NEW q \in Runs, In(q, Planned)'
               PROVE  IF Stable(q)' THEN run'[q].phase # "building"
                      ELSE /\ [run |-> q, plan |-> run'[q].plan] \in issued'
                           /\ run'[q].phase # "building" => run'[q].bytes = <<q, run'[q].attempt>>
    BY DEF CandidateInv
  <2>1. CASE q = r
    BY <1>3, <2>1
  <2>2. CASE q # r
    BY <1>3, <2>2 DEF In, IInv, CandidateInv
  <2> QED BY <2>1, <2>2
<1>8. PromotionInv'
  <2> SUFFICES ASSUME NEW q \in Runs, In(q, Authorized)', Stable(q)'
               PROVE  /\ run'[q].bytes \in Attempt /\ run'[q].plan.tag.channel = "rc"
                      /\ [run |-> run'[q].bytes[1], plan |-> run'[q].plan] \in issued'
                      /\ \E i \in DOMAIN shipped' :
                           shipped'[i] = [tag |-> run'[q].plan.tag, number |-> run'[q].plan.number,
                                         sha |-> run'[q].plan.sha, bytes |-> run'[q].bytes]
                      /\ Done(run[q].bytes)'
    BY DEF PromotionInv
  <2>1. CASE q = r
    <3>1. Stable(r) /\ run'[r].phase # "verifying"
      BY <1>3, <2>1 DEF In, Authorized, Consumed, Owning
    <3> QED BY <2>1, <3>1
  <2>2. CASE q # r
    <3>1. In(q, Authorized) /\ Stable(q) /\ run'[q] = run[q]
      BY <1>3, <2>2 DEF In
    <3>2. \A b \in Attempt : Done(b) => Done(b)'
      BY <1>2, DoneForward
    <3>3. /\ run[q].bytes \in Attempt /\ run[q].plan.tag.channel = "rc"
          /\ [run |-> run[q].bytes[1], plan |-> run[q].plan] \in issued
          /\ \E i \in DOMAIN shipped :
               shipped[i] = [tag |-> run[q].plan.tag, number |-> run[q].plan.number,
                             sha |-> run[q].plan.sha, bytes |-> run[q].bytes]
          /\ Done(run[q].bytes)
      BY <3>1 DEF IInv, PromotionInv
    <3>4. Done(run[q].bytes)'
      BY <3>1, <3>2, <3>3 DEF Done
    <3> QED BY <3>1, <3>3, <3>4
  <2> QED BY <2>1, <2>2
<1>9. DraftsInv' /\ FloorInv'
  <2>1. Drafted \subseteq Consumed
    BY DEF Drafted, Unshipped, Owning, Consumed
  <2>2. TypeOK
    BY DEF IInv
  <2>3. Kept(Drafted) /\ Kept(Consumed)
    BY <1>1, <2>1, <2>2, KeptOnly
  <2>4. \A q \in Runs : In(q, Drafted)' => run'[q] = run[q]
    BY <1>1, <1>3, <2>1 DEF In
  <2> QED BY <2>3, <2>4, DraftsKept, FloorKept DEF IInv
<1> QED BY <1>2, <1>4, <1>5, <1>6, <1>7, <1>8, <1>9 DEF IInv

\* A run that goes on gets another record of the same attempt.
LEMMA RecordStep ==
    ASSUME TypeOK, NEW r \in Started, run[r].phase \notin Ended, NEW u \in RunRecord,
           u.event = run[r].event, u.channel = run[r].channel, u.sha = run[r].sha,
           u.attempt = run[r].attempt, run' = [run EXCEPT ![r] = u]
    PROVE  Only(r) /\ run'[r] = u
<1>1. r \in Runs /\ run[r] \in RunRecord
  BY StartedFacts
<1>2. /\ run' \in [Runs -> RunRecord \cup {None}] /\ run'[r] = u
      /\ \A q \in Runs : q # r => run'[q] = run[q]
      /\ Started' = Started \cup {r}
  BY <1>1, RecordReplaced
<1> QED BY <1>1, <1>2 DEF Only

\* What the ledger holds was issued.
LEMMA ReservedIssued ==
    ASSUME IInv, NEW q \in Runs, State.plans[q] # None
    PROVE  /\ ledger # None /\ State = ledger /\ ledger \in Ledger /\ State.plans[q] \in Plan
           /\ [run |-> q, plan |-> State.plans[q]] \in issued
<1>1. ledger # None
  BY DEF State, NoLedger
<1>2. State = ledger /\ ledger \in Ledger
  BY <1>1 DEF State, IInv, TypeOK
<1>3. ledger.plans[q] \in Plan \cup {None}
  BY <1>2 DEF Ledger
<1> QED BY <1>1, <1>2, <1>3 DEF IInv, LedgerInv

\* A repeated run takes its plan from the ledger.
LEMMA ReusePlanSafe ==
    ASSUME IInv, NEW r \in Runs, ReusePlan(r)
    PROVE  IInv'
<1>1. /\ r \in Started /\ run[r].phase = "preparing" /\ ~Stable(r) /\ State.plans[r] # None
      /\ UNCHANGED <<setting, exposed, head, branch, ledger, tags, releases, issued, shipped, trouble>>
      /\ run' = [run EXCEPT ![r].plan = State.plans[r], ![r].phase = "building"]
  BY DEF ReusePlan, MayPrepare, At, github
<1> DEFINE u == [run[r] EXCEPT !.plan = State.plans[r], !.phase = "building"]
<1>2. TypeOK /\ run[r] \in RunRecord
  BY <1>1, StartedFacts DEF IInv
<1>3. State.plans[r] \in Plan /\ [run |-> r, plan |-> State.plans[r]] \in issued
  BY <1>1, ReservedIssued
<1>4. /\ u \in RunRecord /\ u.phase = "building" /\ u.event = run[r].event
      /\ u.channel = run[r].channel /\ u.sha = run[r].sha /\ u.attempt = run[r].attempt
      /\ u.plan = State.plans[r]
  BY <1>2, <1>3 DEF RunRecord, Phase
<1>5. run' = [run EXCEPT ![r] = u]
  BY <1>1
<1> HIDE DEF u
<1>6. Only(r) /\ run'[r] = u
  BY <1>1, <1>2, <1>4, <1>5, RecordStep DEF Ended
<1>7. TypeOK'
  BY <1>1, <1>2, <1>6, RunsTyped DEF TypeOK, Only
<1>8. run[r].phase \notin Consumed
  BY <1>1 DEF Consumed, Owning
<1> QED BY <1>1, <1>3, <1>4, <1>6, <1>7, <1>8, WorkSafe

\* What a candidate that is not yet authorized has.
LEMMA CandidateFacts ==
    ASSUME IInv, NEW r \in Started, run[r].phase \in {"building", "verifying"},
           run[r].phase = "building" \/ ~Stable(r)
    PROVE  /\ ~Stable(r) /\ [run |-> r, plan |-> run[r].plan] \in issued
           /\ run[r].phase # "building" => run[r].bytes = <<r, run[r].attempt>>
<1>1. r \in Runs /\ In(r, Planned)
  BY DEF Started, In, Planned
<1> QED BY <1>1 DEF IInv, CandidateInv

LEMMA BuildSafe ==
    ASSUME IInv, NEW r \in Runs, Build(r)
    PROVE  IInv'
<1>1. /\ r \in Started /\ run[r].phase = "building"
      /\ UNCHANGED <<setting, exposed, head, branch, ledger, tags, releases, issued, shipped, trouble>>
      /\ run' = [run EXCEPT ![r].phase = "verifying", ![r].bytes = <<r, run[r].attempt>>]
  BY DEF Build, At, github
<1> DEFINE u == [run[r] EXCEPT !.phase = "verifying", !.bytes = <<r, run[r].attempt>>]
<1>2. TypeOK /\ run[r] \in RunRecord /\ run[r].attempt \in Nat
  BY <1>1, StartedFacts DEF IInv
<1>3. <<r, run[r].attempt>> \in Attempt
  BY <1>2 DEF Attempt
<1>4. /\ u \in RunRecord /\ u.phase = "verifying" /\ u.event = run[r].event
      /\ u.channel = run[r].channel /\ u.sha = run[r].sha /\ u.attempt = run[r].attempt
      /\ u.plan = run[r].plan /\ u.bytes = <<r, run[r].attempt>>
  BY <1>2, <1>3 DEF RunRecord, Phase
<1>5. run' = [run EXCEPT ![r] = u]
  BY <1>1
<1> HIDE DEF u
<1>6. Only(r) /\ run'[r] = u
  BY <1>1, <1>2, <1>4, <1>5, RecordStep DEF Ended
<1>7. TypeOK'
  BY <1>1, <1>2, <1>6, RunsTyped DEF TypeOK, Only
<1>8. run[r].phase \notin Consumed
  BY <1>1 DEF Consumed, Owning
<1>9. ~Stable(r) /\ [run |-> r, plan |-> run[r].plan] \in issued
  BY <1>1, CandidateFacts
<1> QED BY <1>1, <1>4, <1>6, <1>7, <1>8, <1>9, WorkSafe

LEMMA VerifySafe ==
    ASSUME IInv, NEW r \in Runs, Verify(r)
    PROVE  IInv'
<1>1. /\ r \in Started /\ run[r].phase = "verifying" /\ ~Stable(r)
      /\ UNCHANGED <<setting, exposed, head, branch, ledger, tags, releases, issued, shipped, trouble>>
      /\ run' = [run EXCEPT ![r].phase = "beginning", ![r].ref = head]
  BY DEF Verify, At, github
<1> DEFINE u == [run[r] EXCEPT !.phase = "beginning", !.ref = head]
<1>2. TypeOK /\ run[r] \in RunRecord
  BY <1>1, StartedFacts DEF IInv
<1>3. head \in 0..MaxHead
  BY <1>2, ReleaseAssumption DEF TypeOK
<1>4. /\ u \in RunRecord /\ u.phase = "beginning" /\ u.event = run[r].event
      /\ u.channel = run[r].channel /\ u.sha = run[r].sha /\ u.attempt = run[r].attempt
      /\ u.plan = run[r].plan /\ u.bytes = run[r].bytes
  BY <1>2, <1>3 DEF RunRecord, Phase
<1>5. run' = [run EXCEPT ![r] = u]
  BY <1>1
<1> HIDE DEF u
<1>6. Only(r) /\ run'[r] = u
  BY <1>1, <1>2, <1>4, <1>5, RecordStep DEF Ended
<1>7. TypeOK'
  BY <1>1, <1>2, <1>6, RunsTyped DEF TypeOK, Only
<1>8. run[r].phase \notin Consumed
  BY <1>1 DEF Consumed, Owning
<1>9. [run |-> r, plan |-> run[r].plan] \in issued /\ run[r].bytes = <<r, run[r].attempt>>
  BY <1>1, CandidateFacts
<1> QED BY <1>1, <1>4, <1>6, <1>7, <1>8, <1>9, WorkSafe

\* The candidate that a stable run found is the one its plan was issued to.
LEMMA VerifyPromotionSafe ==
    ASSUME IInv, NEW r \in Runs, VerifyPromotion(r)
    PROVE  IInv'
<1>1. /\ r \in Started /\ run[r].phase = "verifying" /\ Stable(r)
      /\ UNCHANGED <<setting, exposed, head, branch, ledger, tags, releases, issued, shipped, trouble>>
  BY DEF VerifyPromotion, At, github
<1>2. PICK x \in releases, p \in Reserved :
        /\ Accepted(r, x) /\ p = [number |-> x.number, sha |-> x.sha, tag |-> x.tag]
        /\ run' = [run EXCEPT ![r].phase = "beginning", ![r].plan = p, ![r].bytes = x.bytes]
  BY DEF VerifyPromotion
<1> DEFINE u == [run[r] EXCEPT !.phase = "beginning", !.plan = p, !.bytes = x.bytes]
<1>3. TypeOK /\ run[r] \in RunRecord
  BY <1>1, StartedFacts DEF IInv
<1>4. PICK q \in Runs : p = State.plans[q] /\ p # None
  BY DEF Reserved
<1>5. p \in Plan /\ [run |-> q, plan |-> p] \in issued
  BY <1>4, ReservedIssued
<1>6. x.bytes \in Attempt
  BY <1>3 DEF TypeOK, ReleaseRecord
<1>7. /\ u \in RunRecord /\ u.phase = "beginning" /\ u.event = run[r].event
      /\ u.channel = run[r].channel /\ u.sha = run[r].sha /\ u.attempt = run[r].attempt
      /\ u.plan = p /\ u.bytes = x.bytes
  BY <1>3, <1>5, <1>6 DEF RunRecord, Phase
<1>8. run' = [run EXCEPT ![r] = u]
  BY <1>2
<1> HIDE DEF u
<1>9. Only(r) /\ run'[r] = u
  BY <1>1, <1>3, <1>7, <1>8, RecordStep DEF Ended
<1>10. TypeOK'
  BY <1>1, <1>3, <1>9, RunsTyped DEF TypeOK, Only
<1>11. run[r].phase \notin Consumed
  BY <1>1 DEF Consumed, Owning
<1>12. x \in Public /\ x.tag.channel = "rc" /\ x.bytes[1] \in Started /\ x.bytes[1] # r
       /\ run[x.bytes[1]].event = "dispatch" /\ run[x.bytes[1]].phase = "succeeded"
       /\ run[x.bytes[1]].attempt = x.bytes[2]
  BY <1>2 DEF Accepted, Snapshot, Recorded, Completed, Public
<1>13. PICK z \in issued, i \in DOMAIN shipped :
         /\ z.run = x.bytes[1] /\ z.plan.tag = x.tag /\ z.plan.sha = x.sha
         /\ shipped[i] = [tag |-> x.tag, number |-> z.plan.number, sha |-> x.sha, bytes |-> x.bytes]
  <2>1. PublicInv /\ x.tag.channel # "stable"
    BY <1>12 DEF IInv
  <2> QED BY <1>12, <2>1 DEF PublicInv
<1>14. z = [run |-> q, plan |-> p]
  <2>1. Unique
    BY DEF IInv, LedgerInv
  <2> QED BY <1>2, <1>5, <1>13, <2>1 DEF Unique
<1>15. /\ [run |-> x.bytes[1], plan |-> p] \in issued
       /\ \E k \in DOMAIN shipped :
            shipped[k] = [tag |-> p.tag, number |-> p.number, sha |-> p.sha, bytes |-> x.bytes]
  BY <1>2, <1>5, <1>13, <1>14
<1>16. run'[x.bytes[1]] = run[x.bytes[1]] /\ x.bytes[1] \in Started'
  BY <1>3, <1>9, <1>12, StartedFacts DEF Only
<1>17. Done(run[r].bytes)'
  <2>1. x.bytes[2] \in Nat
    BY <1>6 DEF Attempt
  <2> QED BY <1>7, <1>9, <1>12, <1>16, <2>1 DEF Done
<1>18. p.tag.channel = "rc"
  BY <1>2, <1>12
<1> QED BY <1>1, <1>6, <1>7, <1>9, <1>10, <1>11, <1>15, <1>17, <1>18, WorkSafe

\* The number is compared with the floor in the ledger that was read.
LEMMA ReadFloorSafe ==
    ASSUME IInv, NEW r \in Runs, ReadFloor(r)
    PROVE  IInv'
<1>1. /\ r \in Started /\ run[r].phase = "beginning"
      /\ UNCHANGED <<setting, exposed, head, branch, ledger, tags, releases, issued, shipped, trouble>>
      /\ run' = [run EXCEPT ![r].phase = "consuming", ![r].seen = <<ledger>>]
      /\ IF Stable(r) THEN VerifyPromotionOrder(run[r].plan) ELSE VerifyReservation(r)
  BY DEF ReadFloor, At, github
<1> DEFINE u == [run[r] EXCEPT !.phase = "consuming", !.seen = <<ledger>>]
<1>2. TypeOK /\ run[r] \in RunRecord
  BY <1>1, StartedFacts DEF IInv
<1>3. In(r, Authorized) /\ run[r].plan \in Plan /\ run[r].plan # None
  <2>1. In(r, Authorized)
    BY <1>1 DEF In, Authorized
  <2> QED BY <2>1, AuthorizedFacts, ReleaseAssumption
<1>4. /\ ledger \in Ledger /\ ledger.floor <= run[r].plan.number
      /\ ~Stable(r) => ledger.floor < run[r].plan.number
  <2>1. \E q \in Runs : State.plans[q] # None
    BY <1>1, <1>3 DEF VerifyPromotionOrder, VerifyReservation, Reserved
  <2>2. State = ledger /\ ledger \in Ledger
    BY <2>1, ReservedIssued
  <2>3. ledger.floor \in Nat /\ run[r].plan.number \in Nat
    BY <1>3, <2>2 DEF Ledger, Plan
  <2> QED BY <1>1, <2>2, <2>3 DEF VerifyPromotionOrder, VerifyReservation
<1>5. /\ <<ledger>> \in Seq(Ledger) /\ <<ledger>> \in Seq(Ledger \cup {None})
      /\ Len(<<ledger>>) = 1 /\ <<ledger>>[1] = ledger
  BY <1>4
<1>6. /\ u \in RunRecord /\ u.phase = "consuming" /\ u.event = run[r].event
      /\ u.channel = run[r].channel /\ u.sha = run[r].sha /\ u.attempt = run[r].attempt
      /\ u.plan = run[r].plan /\ u.bytes = run[r].bytes /\ u.seen = <<ledger>>
  <2> DEFINE s == <<ledger>>
  <2>1. s \in Seq(Ledger \cup {None})
    BY <1>5
  <2> HIDE DEF s
  <2>2. u = [run[r] EXCEPT !.phase = "consuming", !.seen = s]
    BY DEF s
  <2>3. u \in RunRecord
    BY <1>2, <2>1, <2>2 DEF RunRecord, Phase
  <2> QED BY <1>2, <2>3 DEF RunRecord
<1>7. run' = [run EXCEPT ![r] = u]
  BY <1>1
<1> HIDE DEF u
<1>8. Only(r) /\ run'[r] = u
  BY <1>1, <1>2, <1>6, <1>7, RecordStep DEF Ended
<1>9. TypeOK'
  BY <1>1, <1>2, <1>8, RunsTyped DEF TypeOK, Only
<1>10. run[r].phase \notin Consumed
  BY <1>1 DEF Consumed, Owning
<1>11. ~Stable(r) => /\ [run |-> r, plan |-> run[r].plan] \in issued
                     /\ run[r].bytes = <<r, run[r].attempt>>
  <2>1. In(r, Planned)
    BY <1>1 DEF In, Planned, Authorized
  <2> QED BY <1>1, <2>1 DEF IInv, CandidateInv
<1>12. Stable(r) =>
         /\ run[r].bytes \in Attempt /\ run[r].plan.tag.channel = "rc"
         /\ [run |-> run[r].bytes[1], plan |-> run[r].plan] \in issued
         /\ \E i \in DOMAIN shipped :
              shipped[i] = [tag |-> run[r].plan.tag, number |-> run[r].plan.number,
                            sha |-> run[r].plan.sha, bytes |-> run[r].bytes]
         /\ Done(run[r].bytes)
  BY <1>3 DEF IInv, PromotionInv
<1>13. \A b \in Attempt : Done(b) => Done(b)'
  BY <1>1, <1>2, <1>8, ForwardOnly, DoneForward DEF Owning
<1>14. Stable(r) => Done(run[r].bytes)'
  BY <1>6, <1>8, <1>12, <1>13 DEF Done
<1> QED BY <1>1, <1>4, <1>5, <1>6, <1>8, <1>9, <1>10, <1>11, <1>12, <1>14, WorkSafe

-----------------------------------------------------------------------------
(***************************************************************************)
(* reserve_plan.                                                           *)
(***************************************************************************)

\* A ledger that can be read knows everything that was ever issued.
LEMMA ReadableFacts ==
    ASSUME IInv, Readable
    PROVE  /\ State \in Ledger /\ State.counter \in Nat
           /\ \A z \in issued : z.plan.number <= State.counter
           /\ ledger = None => ~branch /\ issued = {} /\ State = NoLedger
<1>1. CASE ledger = None
  <2>1. State = NoLedger /\ issued = {} /\ ~branch
    BY <1>1 DEF State, Readable, IInv, LedgerInv
  <2>2. NoLedger \in Ledger /\ NoLedger.counter = 0
    BY DEF NoLedger, Ledger
  <2> QED BY <2>1, <2>2
<1>2. CASE ledger # None
  <2>1. State = ledger /\ ledger \in Ledger
    BY <1>2 DEF State, IInv, TypeOK
  <2>2. \A z \in issued : z.plan.number <= ledger.counter
    BY <1>2 DEF IInv, LedgerInv
  <2> QED BY <1>2, <2>1, <2>2 DEF Ledger
<1> QED BY <1>1, <1>2

LEMMA MaxPair ==
    ASSUME NEW a \in Nat, NEW b \in Nat
    PROVE  Max({a, b}) \in Nat /\ a <= Max({a, b}) /\ b <= Max({a, b})
<1> DEFINE S == {a, b}
<1>1. S \in SUBSET Nat /\ S # {} /\ a + b \in Nat /\ \A s \in S : s <= a + b
  OBVIOUS
<1>2. a \in S /\ b \in S
  OBVIOUS
<1> HIDE DEF S
<1>3. Max(S) \in S /\ \A s \in S : s <= Max(S)
  BY <1>1, BoundedMax
<1>4. Max(S) \in Nat /\ a <= Max(S) /\ b <= Max(S)
  BY <1>1, <1>2, <1>3
<1> QED BY <1>4 DEF S

\* next_sequence exceeds every sequence in use or reserved, and no sequence is
\* ahead of the counter.
LEMMA NextSequenceFacts ==
    ASSUME IInv, Readable, NEW base \in Nat, NEW channel \in {"beta", "rc"}
    PROVE  /\ NextSequence(base, channel) \in Nat
           /\ NextSequence(base, channel) <= State.counter + 1
           /\ \A p \in Reserved : p.tag.base = base /\ p.tag.channel = channel =>
                  p.tag.seq[1] < NextSequence(base, channel)
<1> DEFINE used == Taken \cup {p.tag : p \in Reserved}
           match == {u \in used : u.base = base /\ u.channel = channel}
           S == {0} \cup {t.seq[1] : t \in match}
<1>1. State.counter \in Nat /\ \A z \in issued : z.plan.number <= State.counter
  BY ReadableFacts
<1>2. \A t \in match : \E z \in issued : z.plan.tag = t
  <2>1. \A p \in Reserved : \E z \in issued : z.plan = p
    <3> SUFFICES ASSUME NEW p \in Reserved PROVE \E z \in issued : z.plan = p
      OBVIOUS
    <3>1. PICK q \in Runs : p = State.plans[q] /\ p # None
      BY DEF Reserved
    <3>2. [run |-> q, plan |-> p] \in issued
      BY <3>1, ReservedIssued
    <3> QED BY <3>2
  <2>2. \A t \in Taken : t.channel = "stable" \/ \E z \in issued : z.plan.tag = t
    BY DEF IInv, TagsInv
  <2> QED BY <2>1, <2>2
<1>3. \A t \in match : t.seq[1] \in Nat /\ t.seq[1] <= State.counter
  <2> SUFFICES ASSUME NEW t \in match PROVE t.seq[1] \in Nat /\ t.seq[1] <= State.counter
    OBVIOUS
  <2>1. PICK z \in issued : z.plan.tag = t
    BY <1>2
  <2>2. Proper(z.run, z.plan) /\ z.plan.number <= State.counter
    BY <1>1 DEF IInv, LedgerInv
  <2>3. z.plan.number \in Nat /\ t.seq \in Seq(Nat) /\ Len(t.seq) >= 1
    BY <2>1, <2>2 DEF Proper, Plan, Tag
  <2>4. t.channel # "nightly"
    OBVIOUS
  <2>5. t.seq[1] <= z.plan.number
    BY <2>1, <2>2, <2>4 DEF Proper
  <2>6. t.seq[1] \in Nat
    BY <2>3
  <2> QED BY <1>1, <2>2, <2>3, <2>5, <2>6
<1>4. \A p \in Reserved : p.tag.base = base /\ p.tag.channel = channel => p.tag \in match
  OBVIOUS
<1> HIDE DEF used, match
<1>5. S \in SUBSET Nat /\ S # {} /\ \A s \in S : s <= State.counter
  BY <1>1, <1>3
<1>6. \A t \in match : t.seq[1] \in S
  OBVIOUS
<1> HIDE DEF S
<1>7. Max(S) \in S /\ \A s \in S : s <= Max(S)
  BY <1>1, <1>5, BoundedMax
<1> DEFINE m == Max(S)
<1>8. NextSequence(base, channel) = 1 + m
  BY Zenon DEF NextSequence, S, match, used
<1>9. m \in S /\ m \in Nat /\ m <= State.counter /\ \A s \in S : s <= m
  BY <1>5, <1>7
<1> HIDE DEF m
<1>10. \A t \in match : t.seq[1] \in Nat /\ t.seq[1] < 1 + m
  BY <1>3, <1>6, <1>9
<1>11. 1 + m \in Nat /\ 1 + m <= State.counter + 1
  BY <1>1, <1>9
<1> QED BY <1>4, <1>8, <1>10, <1>11

\* The plan that reserve_plan makes is new to the ledger it was made from.
LEMMA NewPlanFacts ==
    ASSUME IInv, NEW r \in Started, ~Stable(r), Readable, State.plans[r] = None
    PROVE  /\ NewPlan(r) \in Plan /\ Proper(r, NewPlan(r))
           /\ NewPlan(r).number > State.counter
           /\ \A q \in Runs : State.plans[q] # None => State.plans[q].tag # NewPlan(r).tag
<1> DEFINE base == BaseOf[run[r].sha]
           channel == run[r].channel
           number == Max({State.counter, NumberFloor}) + 1
           seq == IF channel = "nightly" THEN <<r, run[r].attempt>>
                  ELSE <<NextSequence(base, channel)>>
<1>1. /\ r \in Runs /\ run[r].sha \in 1..MaxHead /\ channel \in Channel \ {"stable"}
      /\ run[r].attempt \in Nat /\ r \in Nat
  BY StartedFacts DEF IInv, Stable, Runs
<1>2. State.counter \in Nat /\ NumberFloor \in Nat /\ base \in Nat
  BY <1>1, ReadableFacts, ReleaseAssumption
<1>3. number \in Nat /\ State.counter < number
  <2> DEFINE c == State.counter
             m == Max({c, NumberFloor})
  <2>1. c \in Nat /\ NumberFloor \in Nat
    BY <1>2
  <2> HIDE DEF c
  <2>2. m \in Nat /\ c <= m
    BY <2>1, MaxPair
  <2> HIDE DEF m
  <2>3. m + 1 \in Nat /\ c < m + 1
    BY <2>1, <2>2
  <2> QED BY <2>3 DEF c, m
<1>4. channel # "nightly" =>
        /\ NextSequence(base, channel) \in Nat
        /\ NextSequence(base, channel) <= State.counter + 1
        /\ \A p \in Reserved : p.tag.base = base /\ p.tag.channel = channel =>
               p.tag.seq[1] < NextSequence(base, channel)
  BY <1>1, <1>2, NextSequenceFacts DEF Channel
<1>5. seq \in Seq(Nat) /\ Len(seq) = 1 + (IF channel = "nightly" THEN 1 ELSE 0)
  BY <1>1, <1>4
<1>6. /\ channel = "nightly" => seq[1] = r
      /\ channel # "nightly" => seq[1] = NextSequence(base, channel)
  OBVIOUS
<1>7. /\ NewPlan(r).number = number /\ NewPlan(r).sha = run[r].sha
      /\ NewPlan(r).tag = [base |-> base, channel |-> channel, seq |-> seq]
      /\ NewPlan(r) = [number |-> number, sha |-> run[r].sha,
                       tag |-> [base |-> base, channel |-> channel, seq |-> seq]]
  BY Zenon DEF NewPlan
<1> HIDE DEF base, channel, number, seq
<1>8. [base |-> base, channel |-> channel, seq |-> seq] \in Tag
  BY <1>1, <1>2, <1>5 DEF Tag
<1>9. NewPlan(r) \in Plan
  BY <1>1, <1>3, <1>7, <1>8 DEF Plan
<1>10. Proper(r, NewPlan(r))
  <2>1. Len(seq) >= 1
    BY <1>5
  <2>2. channel # "nightly" => seq[1] <= number
    BY <1>2, <1>3, <1>4, <1>6
  <2> QED BY <1>1, <1>6, <1>7, <1>9, <2>1, <2>2 DEF Proper
<1>11. \A q \in Runs : State.plans[q] # None => State.plans[q].tag # NewPlan(r).tag
  <2> SUFFICES ASSUME NEW q \in Runs, State.plans[q] # None,
                      State.plans[q].tag = NewPlan(r).tag
               PROVE  FALSE
    OBVIOUS
  <2>1. State.plans[q] \in Reserved
    BY DEF Reserved
  <2>2. q # r /\ q \in Nat /\ Proper(q, State.plans[q])
    <3>1. [run |-> q, plan |-> State.plans[q]] \in issued
      BY ReservedIssued
    <3>2. \A z \in issued : Proper(z.run, z.plan)
      BY DEF IInv, LedgerInv
    <3>3. q \in Nat
      BY DEF Runs
    <3> QED BY <3>1, <3>2, <3>3
  <2>3. /\ State.plans[q].tag.base = base /\ State.plans[q].tag.channel = channel
        /\ State.plans[q].tag.seq = seq
    BY <1>7
  <2>4. CASE channel = "nightly"
    <3>1. State.plans[q].tag.seq[1] = q
      BY <2>2, <2>3, <2>4 DEF Proper
    <3> QED BY <1>6, <2>2, <2>3, <2>4, <3>1
  <2>5. CASE channel # "nightly"
    BY <1>4, <1>6, <2>1, <2>3, <2>5
  <2> QED BY <2>4, <2>5
<1> QED BY <1>3, <1>7, <1>9, <1>10, <1>11

\* What reserving a plan cannot disturb.
LEMMA ReserveKept ==
    ASSUME IInv, NEW r \in Runs, Only(r), TypeOK', run[r].phase \in {"preparing", "reserving"},
           ~Stable(r), run'[r].phase \in {"reserving", "building"},
           UNCHANGED <<setting, tags, releases, shipped>>, issued \subseteq issued',
           run'[r].phase = "building" => [run |-> r, plan |-> run'[r].plan] \in issued'
    PROVE  /\ ConsumingInv' /\ CandidateInv' /\ PromotionInv' /\ TagsInv' /\ DraftsInv'
           /\ ReleasesInv' /\ PublicInv' /\ ShippedInv' /\ OrderInv'
           /\ Others(r) /\ Kept(Consumed)
<1>1. run[r].phase \notin Planned /\ run'[r].phase \notin Authorized
  BY DEF Planned, Authorized, Consumed, Owning
<1>2. /\ Consumed \subseteq Authorized /\ Owning \subseteq Authorized /\ Drafted \subseteq Authorized
      /\ \A S \in {Owning, Unshipped, {"tagging"} \cup Unshipped} : S \subseteq Authorized
      /\ "consuming" \in Authorized
  BY DEF Authorized, Consumed, Owning, Unshipped, Drafted
<1>3. /\ TagsInv' /\ ReleasesInv' /\ PublicInv' /\ ShippedInv' /\ OrderInv'
      /\ Forward /\ Others(r) /\ ShippedGrows
  <2>1. \A S \in {Owning, Unshipped, {"tagging"} \cup Unshipped} :
               run'[r].phase \in S => run[r].phase \in S /\ Same(r)
    BY <1>1, <1>2
  <2>2. run[r].phase \notin Owning \ {"drafting"}
    BY DEF Owning
  <2> QED BY <2>1, <2>2, WorkKept
<1>4. TypeOK
  BY DEF IInv
<1>5. Kept(Authorized) /\ Kept(Consumed) /\ Kept(Drafted)
  BY <1>1, <1>2, <1>4, KeptOnly
<1>6. /\ run'[r].attempt = run[r].attempt /\ (Stable(r)' <=> Stable(r))
      /\ \A q \in Runs : q # r => /\ run'[q] = run[q] /\ (q \in Started' <=> q \in Started)
                                  /\ (Stable(q)' <=> Stable(q))
  BY <1>3 DEF Only, Others, Stable
<1>7. ConsumingInv'
  <2>1. \A q \in Runs : At(q, "consuming")' => At(q, "consuming") /\ run'[q] = run[q]
    BY <1>1, <1>2, <1>6 DEF At
  <2> QED BY <2>1, ConsumingKept DEF IInv
<1>8. CandidateInv'
  <2> SUFFICES ASSUME NEW q \in Runs, In(q, Planned)'
               PROVE  IF Stable(q)' THEN run'[q].phase # "building"
                      ELSE /\ [run |-> q, plan |-> run'[q].plan] \in issued'
                           /\ run'[q].phase # "building" => run'[q].bytes = <<q, run'[q].attempt>>
    BY DEF CandidateInv
  <2>1. CASE q = r
    <3>1. run'[r].phase = "building"
      BY <2>1 DEF In, Planned, Authorized, Consumed, Owning
    <3> QED BY <1>6, <2>1, <3>1
  <2>2. CASE q # r
    BY <1>6, <2>2 DEF In, IInv, CandidateInv
  <2> QED BY <2>1, <2>2
<1>9. PromotionInv'
  BY <1>3, <1>5, PromotionKept DEF IInv, Kept, Stable, Same
<1>10. DraftsInv'
  <2>1. \A q \in Runs : In(q, Drafted)' => run'[q] = run[q]
    BY <1>1, <1>2, <1>6 DEF In
  <2> QED BY <1>5, <2>1, DraftsKept DEF IInv
<1> QED BY <1>3, <1>5, <1>7, <1>8, <1>9, <1>10

LEMMA MakePlanSafe ==
    ASSUME IInv, NEW r \in Runs, MakePlan(r)
    PROVE  IInv'
<1>1. /\ r \in Started /\ run[r].phase = "preparing" /\ ~Stable(r) /\ State.plans[r] = None
      /\ Readable
      /\ UNCHANGED <<setting, exposed, head, branch, ledger, tags, releases, issued, shipped, trouble>>
      /\ run' = [run EXCEPT ![r].plan = NewPlan(r), ![r].seen = <<ledger>>, ![r].phase = "reserving"]
  BY DEF MakePlan, MayPrepare, At, github
<1> DEFINE s == <<ledger>>
           u == [run[r] EXCEPT !.plan = NewPlan(r), !.seen = s, !.phase = "reserving"]
<1>2. TypeOK /\ run[r] \in RunRecord
  BY <1>1, StartedFacts DEF IInv
<1>3. /\ NewPlan(r) \in Plan /\ Proper(r, NewPlan(r)) /\ NewPlan(r).number > State.counter
      /\ \A q \in Runs : State.plans[q] # None => State.plans[q].tag # NewPlan(r).tag
  BY <1>1, NewPlanFacts
<1>4. s \in Seq(Ledger \cup {None}) /\ Len(s) = 1 /\ s[1] = ledger
  BY <1>2 DEF TypeOK
<1>5. run' = [run EXCEPT ![r] = u]
  BY <1>1
<1> HIDE DEF s
<1>6. /\ u \in RunRecord /\ u.phase = "reserving" /\ u.event = run[r].event
      /\ u.channel = run[r].channel /\ u.sha = run[r].sha /\ u.attempt = run[r].attempt
      /\ u.plan = NewPlan(r) /\ u.seen = s
  BY <1>2, <1>3, <1>4 DEF RunRecord, Phase
<1> HIDE DEF u
<1>7. Only(r) /\ run'[r] = u
  BY <1>1, <1>2, <1>5, <1>6, RecordStep DEF Ended
<1>8. TypeOK'
  BY <1>1, <1>2, <1>7 DEF TypeOK, Only
<1>9. /\ ConsumingInv' /\ CandidateInv' /\ PromotionInv' /\ TagsInv' /\ DraftsInv'
      /\ ReleasesInv' /\ PublicInv' /\ ShippedInv' /\ OrderInv'
      /\ Others(r) /\ Kept(Consumed)
  <2>1. run'[r].phase = "reserving"
    BY <1>6, <1>7
  <2> QED BY <1>1, <1>7, <1>8, <2>1, ReserveKept
<1>10. LedgerInv'
  BY <1>1 DEF IInv, LedgerInv, Proper, Unique
<1>11. FloorInv'
  BY <1>1, <1>9, FloorKept DEF IInv
<1>12. ledger = None => ~branch /\ issued = {}
  BY <1>1, ReadableFacts
<1>13. ReservingInv'
  <2>1. \A q \in Runs : q # r => /\ run'[q] = run[q] /\ (At(q, "reserving")' <=> At(q, "reserving"))
                                 /\ (Stable(q)' <=> Stable(q)) /\ Read(q)' = Read(q)
    BY <1>9 DEF Others, At, Stable, Read
  <2>2. Read(r)' = State /\ (Stable(r)' <=> Stable(r)) /\ run'[r].seen[1] = ledger
    BY <1>4, <1>6, <1>7 DEF Read, State, Stable
  <2> SUFFICES ASSUME NEW q \in Runs, At(q, "reserving")'
               PROVE  /\ run'[q].seen \in Seq(Ledger \cup {None}) /\ Len(run'[q].seen) = 1
                      /\ ~Stable(q)' /\ Proper(q, run'[q].plan)
                      /\ Read(q)'.plans[q] = None /\ run'[q].plan.number > Read(q)'.counter
                      /\ \A k \in Runs : Read(q)'.plans[k] # None =>
                             Read(q)'.plans[k].tag # run'[q].plan.tag
                      /\ run'[q].seen[1] = None =>
                           IF ledger' = None THEN issued' = {} ELSE ~Serialized'
    BY DEF ReservingInv, Proper
  <2>3. CASE q = r
    <3>1. run'[r].seen[1] = None => ledger' = None /\ issued' = {}
      BY <1>1, <1>12, <2>2
    <3> QED BY <1>1, <1>3, <1>4, <1>6, <1>7, <2>2, <2>3, <3>1
  <2>4. CASE q # r
    <3>1. At(q, "reserving") /\ run'[q] = run[q] /\ Read(q)' = Read(q) /\ (Stable(q)' <=> Stable(q))
      BY <2>1, <2>4
    <3>2. /\ run[q].seen \in Seq(Ledger \cup {None}) /\ Len(run[q].seen) = 1
          /\ ~Stable(q) /\ Proper(q, run[q].plan)
          /\ Read(q).plans[q] = None /\ run[q].plan.number > Read(q).counter
          /\ \A k \in Runs : Read(q).plans[k] # None => Read(q).plans[k].tag # run[q].plan.tag
          /\ run[q].seen[1] = None => IF ledger = None THEN issued = {} ELSE ~Serialized
      BY <3>1 DEF IInv, ReservingInv
    <3>3. Serialized' <=> Serialized
      BY <1>1 DEF Serialized
    <3> QED BY <1>1, <3>1, <3>2, <3>3
  <2> QED BY <2>3, <2>4
<1> QED BY <1>8, <1>9, <1>10, <1>11, <1>13 DEF IInv

\* The branch alone says nothing yet.
LEMMA CreateBranchSafe ==
    ASSUME IInv, NEW r \in Runs, CreateBranch(r)
    PROVE  IInv'
<1>1. /\ branch' = TRUE
      /\ UNCHANGED <<setting, exposed, head, ledger, tags, releases, run, issued, shipped, trouble>>
  BY DEF CreateBranch
<1>2. TypeOK /\ Forward /\ \A S : Kept(S)
  BY <1>1, StillKept DEF IInv
<1>3. TypeOK'
  BY <1>1, <1>2 DEF TypeOK
<1>4. Taken' \subseteq Taken /\ ShippedGrows
  BY <1>1 DEF Taken, ShippedGrows
<1>5. LedgerInv'
  BY <1>1 DEF IInv, LedgerInv, Proper, Unique
<1>6. ReservingInv' /\ ConsumingInv'
  BY <1>1, ReservingKept, ConsumingKept DEF IInv, At, Started
<1>7. CandidateInv'
  BY <1>1, <1>2, CandidateKept DEF IInv, Kept, CandidateInv, Stable
<1>8. PromotionInv' /\ ShippedInv'
  BY <1>1, <1>2, <1>4, PromotionKept, ShippedKept DEF IInv, Kept
<1>9. TagsInv' /\ ReleasesInv' /\ PublicInv' /\ FloorInv'
  BY <1>1, <1>2, <1>4, TagsKept, ReleasesKept, PublicKept, FloorKept DEF IInv
<1>10. DraftsInv'
  BY <1>1, <1>2, DraftsKept DEF IInv
<1>11. Active' = Active
  BY <1>1 DEF Active, Started
<1>12. OrderInv'
  BY <1>1, <1>2, <1>11, OrderKept DEF IInv, OrderInv
<1> QED BY <1>3, <1>5, <1>6, <1>7, <1>8, <1>9, <1>10, <1>12 DEF IInv

\* The reservation is written over the ledger it was made from.
LEMMA WriteReservationSafe ==
    ASSUME IInv, NEW r \in Runs, WriteReservation(r)
    PROVE  IInv'
<1> DEFINE p == run[r].plan
           z0 == [run |-> r, plan |-> p]
<1>1. /\ r \in Started /\ run[r].phase = "reserving" /\ branch /\ run[r].seen = <<ledger>>
      /\ issued' = issued \cup {z0} /\ Goto(r, "building")
      /\ UNCHANGED <<setting, exposed, head, branch, tags, releases, shipped, trouble>>
  BY DEF WriteReservation, At, UnchangedSinceRead
<1>2. At(r, "reserving") /\ TypeOK
  BY <1>1 DEF At, IInv
<1>3. /\ ~Stable(r) /\ Proper(r, p) /\ Read(r).plans[r] = None /\ p.number > Read(r).counter
      /\ \A q \in Runs : Read(r).plans[q] # None => Read(r).plans[q].tag # p.tag
      /\ run[r].seen[1] = None /\ ledger = None => issued = {}
  BY <1>2 DEF IInv, ReservingInv
<1>4. run[r].seen[1] = ledger /\ Read(r) = State
  BY <1>1 DEF Read, State
<1>5. /\ State \in Ledger /\ (ledger = None => State = NoLedger)
      /\ \A z \in issued : State.plans[z.run] = z.plan /\ z.plan.number <= State.counter
      /\ \A q \in Runs : State.plans[q] # None => [run |-> q, plan |-> State.plans[q]] \in issued
  <2>1. CASE ledger = None
    <3>1. State = NoLedger /\ issued = {}
      BY <1>3, <1>4, <2>1 DEF State
    <3>2. NoLedger \in Ledger /\ \A q \in Runs : NoLedger.plans[q] = None
      BY DEF NoLedger, Ledger
    <3> QED BY <3>1, <3>2
  <2>2. CASE ledger # None
    <3>1. State = ledger /\ ledger \in Ledger
      BY <1>2, <2>2 DEF State, TypeOK
    <3> QED BY <2>2, <3>1 DEF IInv, LedgerInv
  <2> QED BY <2>1, <2>2
<1>6. p \in Plan /\ p # None /\ p.number \in Nat /\ State.counter \in Nat
  BY <1>3, <1>5, ReleaseAssumption DEF Proper, Plan, Ledger
<1>7. ledger' = [State EXCEPT !.counter = p.number, !.plans[r] = p]
  <2>1. ledger = None => <<ledger>> = <<None>>
    OBVIOUS
  <2>2. ledger # None => <<ledger>> # <<None>> /\ <<ledger>>[1] = ledger
    OBVIOUS
  <2> QED BY <1>1, <2>1, <2>2 DEF WriteReservation, State
<1>8. /\ ledger' \in Ledger /\ ledger'.counter = p.number /\ ledger'.floor = State.floor
      /\ ledger'.plans[r] = p /\ \A q \in Runs : q # r => ledger'.plans[q] = State.plans[q]
  <2>1. State.plans \in [Runs -> Plan \cup {None}]
    BY <1>5 DEF Ledger
  <2> DEFINE n == p.number
             f == [State.plans EXCEPT ![r] = p]
  <2>2. f \in [Runs -> Plan \cup {None}] /\ f[r] = p /\ \A q \in Runs : q # r => f[q] = State.plans[q]
    BY <1>6, <2>1
  <2>3. n \in Nat
    BY <1>6
  <2>4. ledger' = [State EXCEPT !.counter = n, !.plans = f]
    BY <1>5, <1>7 DEF Ledger
  <2> HIDE DEF n, f
  <2>5. ledger' \in Ledger /\ ledger'.counter = n /\ ledger'.floor = State.floor /\ ledger'.plans = f
    BY <1>5, <2>2, <2>3, <2>4 DEF Ledger
  <2> QED BY <2>2, <2>5 DEF n
<1>9. ledger' # None
  BY <1>8, ReleaseAssumption
<1>10. \A z \in issued : /\ z.run \in Runs /\ z.run # r /\ z.plan \in Plan
                         /\ z.plan.number < p.number /\ z.plan.tag # p.tag
  <2> SUFFICES ASSUME NEW z \in issued
               PROVE  /\ z.run \in Runs /\ z.run # r /\ z.plan \in Plan
                      /\ z.plan.number < p.number /\ z.plan.tag # p.tag
    OBVIOUS
  <2>1. z.run \in Runs /\ z.plan \in Plan /\ z.plan.number \in Nat
    BY <1>2 DEF TypeOK, Plan
  <2>2. State.plans[z.run] = z.plan /\ z.plan.number <= State.counter /\ z.plan # None
    BY <1>5, <2>1, ReleaseAssumption
  <2>3. z.run # r
    BY <1>3, <1>4, <2>2
  <2>4. z.plan.number < p.number
    BY <1>3, <1>4, <1>6, <2>1, <2>2
  <2>5. z.plan.tag # p.tag
    BY <1>3, <1>4, <2>1, <2>2
  <2> QED BY <2>1, <2>3, <2>4, <2>5
<1>11. /\ Only(r) /\ Same(r) /\ run'[r].phase = "building"
  BY <1>1, <1>2, GotoFacts DEF Phase, Ended
<1>12. z0 \in [run : Runs, plan : Plan] /\ z0.run = r /\ z0.plan = p
  BY <1>6
<1> HIDE DEF z0
<1>13. TypeOK'
  BY <1>1, <1>2, <1>8, <1>11, <1>12 DEF TypeOK, Only
<1>14. LedgerInv'
  <2>1. \A z \in issued' : ledger'.plans[z.run] = z.plan /\ z.plan.number <= ledger'.counter
    <3>1. \A z \in issued : ledger'.plans[z.run] = z.plan /\ z.plan.number <= ledger'.counter
      <4>1. \A z \in issued : z.plan.number \in Nat
        BY <1>10 DEF Plan
      <4> QED BY <1>5, <1>6, <1>8, <1>10, <4>1
    <3>2. p.number <= p.number
      BY <1>6
    <3> QED BY <1>1, <1>8, <1>12, <3>1, <3>2
  <2>2. \A q \in Runs : ledger'.plans[q] # None => [run |-> q, plan |-> ledger'.plans[q]] \in issued'
    <3>1. z0 = [run |-> r, plan |-> ledger'.plans[r]]
      BY <1>8 DEF z0
    <3> QED BY <1>1, <1>5, <1>8, <3>1
  <2>3. \A z \in issued' : Proper(z.run, z.plan)
    BY <1>1, <1>3, <1>12 DEF IInv, LedgerInv
  <2>4. Unique'
    <3>1. \A x, y \in issued :
            x.run = y.run \/ x.plan.number = y.plan.number \/ x.plan.tag = y.plan.tag => x = y
      BY DEF IInv, LedgerInv, Unique
    <3>2. \A z \in issued : z.run # r /\ z.plan.number # p.number /\ z.plan.tag # p.tag
      <4>1. \A z \in issued : z.plan.number \in Nat
        BY <1>10 DEF Plan
      <4> QED BY <1>6, <1>10, <4>1
    <3> QED BY <1>1, <1>12, <3>1, <3>2 DEF Unique
  <2> QED BY <1>1, <2>1, <2>2, <2>3, <2>4 DEF LedgerInv, Proper
<1>15. /\ ConsumingInv' /\ CandidateInv' /\ PromotionInv' /\ TagsInv' /\ DraftsInv'
       /\ ReleasesInv' /\ PublicInv' /\ ShippedInv' /\ OrderInv'
       /\ Others(r) /\ Kept(Consumed)
  <2>1. run'[r].plan = p /\ [run |-> r, plan |-> p] \in issued'
    BY <1>1, <1>11 DEF Same, z0
  <2> QED BY <1>1, <1>3, <1>11, <1>13, <2>1, ReserveKept
<1>16. ReservingInv'
  <2>1. \A q \in Runs : At(q, "reserving")' =>
          q # r /\ At(q, "reserving") /\ run'[q] = run[q]
    BY <1>11, <1>15 DEF At, Others
  <2>2. \A q \in Runs : At(q, "reserving") /\ q # r => ~Serialized
    <3>1. \A q \in Runs : At(q, "reserving") => q \in Active
      BY DEF At, Active, Ended
    <3> QED BY <1>2, <3>1 DEF IInv, OrderInv
  <2>3. Serialized' <=> Serialized
    BY <1>1 DEF Serialized
  <2> QED BY <1>9, <2>1, <2>2, <2>3 DEF IInv, ReservingInv, Read, Proper, Stable
<1>17. FloorInv'
  <2>1. ledger = None => shipped = <<>> /\ \A q \in Runs : ~In(q, Consumed)
    <3> SUFFICES ASSUME ledger = None PROVE shipped = <<>> /\ \A q \in Runs : ~In(q, Consumed)
      OBVIOUS
    <3>1. issued = {}
      BY <1>3, <1>4
    <3>2. shipped = <<>>
      BY <3>1 DEF IInv, FloorInv
    <3>3. \A q \in Runs : In(q, Consumed) => In(q, Authorized)
      BY DEF In, Authorized
    <3> QED BY <3>1, <3>2, <3>3, AuthorizedFacts
  <2>2. ledger # None => ledger'.floor = ledger.floor
    BY <1>8 DEF State
  <2>3. \A q \in Runs : In(q, Consumed)' => In(q, Consumed) /\ run'[q].plan = run[q].plan
    BY <1>15 DEF Kept, Same
  <2>4. \A i \in DOMAIN shipped' : shipped'[i].number <= ledger'.floor
    BY <1>1, <2>1, <2>2 DEF IInv, FloorInv
  <2>5. \A q \in Runs : In(q, Consumed)' => run'[q].plan.number <= ledger'.floor
    BY <2>1, <2>2, <2>3 DEF IInv, FloorInv
  <2>6. issued' # {}
    BY <1>1
  <2> QED BY <2>4, <2>5, <2>6 DEF FloorInv
<1> QED BY <1>13, <1>14, <1>15, <1>16, <1>17 DEF IInv

-----------------------------------------------------------------------------
(***************************************************************************)
(* begin_publication and _publish_prepared.                                *)
(***************************************************************************)

\* What a publishing run cannot disturb.
LEMMA PublishKept ==
    ASSUME IInv, NEW r \in Runs, Only(r), run[r].phase \in {"consuming"} \cup Consumed,
           run'[r].phase \in Ended \cup Consumed, run'[r].phase \in Consumed => Same(r),
           run[r].phase \in Owning \ {"drafting"} =>
               run'[r].phase \in (Owning \ {"drafting"}) \cup Ended,
           UNCHANGED <<setting, branch, issued>>, ShippedGrows,
           ledger' = None <=> ledger = None
    PROVE  /\ ReservingInv' /\ ConsumingInv' /\ CandidateInv' /\ PromotionInv'
           /\ Others(r) /\ Forward /\ (Serialized => \A p, q \in Active' : p = q)
<1>1. TypeOK /\ OrderInv
  BY DEF IInv
<1>2. Others(r) /\ Forward
  BY <1>1, OthersOnly, ForwardOnly
<1>3. Serialized => \A p, q \in Active' : p = q
  BY <1>1, ActiveOnly DEF Consumed, Owning
<1>4. run[r].phase \in Authorized /\ run[r].phase # "building" /\ Authorized \subseteq Planned
  BY DEF Authorized, Planned, Consumed, Owning
<1>5. run'[r].phase \notin {"reserving", "consuming", "building"}
  BY DEF Ended, Consumed, Owning
<1>6. run'[r].phase \in Planned => run'[r].phase \in Consumed
  BY DEF Ended, Planned, Authorized
<1>7. Consumed \subseteq Authorized
  BY DEF Authorized
<1>8. Kept(Authorized)
  BY <1>1, <1>4, <1>6, KeptOnly
<1>9. \A q \in Runs, p \in {"reserving", "consuming"} : At(q, p)' => At(q, p) /\ run'[q] = run[q]
  BY <1>2, <1>5 DEF Others, At
<1>10. ReservingInv' /\ ConsumingInv'
  BY <1>9, ReservingKept, ConsumingKept DEF IInv
<1>11. CandidateInv'
  <2>1. Kept(Planned)
    BY <1>1, <1>4, <1>6, KeptOnly
  <2>2. \A q \in Runs : In(q, Planned)' => (run'[q].phase = "building" <=> run[q].phase = "building")
    <3> SUFFICES ASSUME NEW q \in Runs
                 PROVE  run'[q].phase = "building" <=> run[q].phase = "building"
      OBVIOUS
    <3>1. CASE q = r
      BY <1>4, <1>5, <3>1
    <3>2. CASE q # r
      BY <1>2, <3>2 DEF Others
    <3> QED BY <3>1, <3>2
  <2>3. \A q \in Runs : In(q, Planned)' => (Stable(q)' <=> Stable(q)) /\ In(q, Planned)
    BY <2>1 DEF Kept, Same, Stable
  <2>4. \A q \in Runs : In(q, Planned)' =>
               IF Stable(q)' THEN run'[q].phase # "building"
               ELSE /\ In(q, Planned) /\ Same(q)
                    /\ run[q].phase = "building" => run'[q].phase = "building"
    BY <2>1, <2>2, <2>3 DEF Kept, IInv, CandidateInv
  <2> QED BY <2>4, CandidateKept DEF IInv
<1>12. PromotionInv'
  BY <1>2, <1>8, PromotionKept DEF IInv, Kept
<1> QED BY <1>2, <1>3, <1>10, <1>11, <1>12

\* The number is consumed in the ledger it was compared with.
LEMMA WriteFloorSafe ==
    ASSUME IInv, NEW r \in Runs, WriteFloor(r)
    PROVE  IInv'
<1> DEFINE n == run[r].plan.number
<1>1. /\ r \in Started /\ run[r].phase = "consuming" /\ run[r].seen = <<ledger>>
      /\ ledger' = [run[r].seen[1] EXCEPT !.floor = n]
      /\ run' = [run EXCEPT ![r].phase = "tagging", ![r].seen = <<ledger'>>]
      /\ UNCHANGED <<setting, exposed, head, branch, tags, releases, issued, shipped, trouble>>
  BY DEF WriteFloor, At, UnchangedSinceRead
<1>2. TypeOK /\ run[r] \in RunRecord
  BY <1>1, StartedFacts DEF IInv
<1>3. /\ run[r].seen \in Seq(Ledger) /\ Len(run[r].seen) = 1 /\ run[r].seen[1].floor <= n
      /\ ~Stable(r) => run[r].seen[1].floor < n
  BY <1>1 DEF At, IInv, ConsumingInv
<1>4. run[r].seen[1] = ledger /\ ledger \in Ledger
  BY <1>1, <1>3
<1>5. ledger # None /\ ledger.floor \in Nat /\ n \in Nat
  <2>1. In(r, Authorized)
    BY <1>1 DEF In, Authorized
  <2>2. run[r].plan \in Plan
    BY <2>1, AuthorizedFacts
  <2> QED BY <1>4, <2>2, ReleaseAssumption DEF Ledger, Plan
<1>6. ledger.floor <= n /\ (~Stable(r) => ledger.floor < n)
  BY <1>3, <1>4
<1> HIDE DEF n
<1>7. /\ ledger' \in Ledger /\ ledger'.floor = n
      /\ ledger'.counter = ledger.counter /\ ledger'.plans = ledger.plans
  <2>1. ledger' = [ledger EXCEPT !.floor = n]
    BY <1>1, <1>4
  <2> QED BY <1>4, <1>5, <2>1 DEF Ledger
<1> DEFINE s == <<ledger'>>
           u == [run[r] EXCEPT !.phase = "tagging", !.seen = s]
<1>8. s \in Seq(Ledger \cup {None})
  BY <1>7
<1>9. run' = [run EXCEPT ![r] = u]
  BY <1>1
<1> HIDE DEF s
<1>10. /\ u \in RunRecord /\ u.phase = "tagging" /\ u.event = run[r].event
       /\ u.channel = run[r].channel /\ u.sha = run[r].sha /\ u.attempt = run[r].attempt
       /\ u.plan = run[r].plan /\ u.bytes = run[r].bytes
  BY <1>2, <1>8 DEF RunRecord, Phase
<1> HIDE DEF u
<1>11. Only(r) /\ run'[r] = u
  BY <1>1, <1>2, <1>9, <1>10, RecordStep DEF Ended
<1>12. Same(r) /\ run'[r].phase = "tagging"
  BY <1>10, <1>11 DEF Same
<1>13. TypeOK'
  BY <1>1, <1>2, <1>7, <1>11 DEF TypeOK, Only
<1>14. ShippedGrows
  BY <1>1 DEF ShippedGrows
<1>15. /\ ReservingInv' /\ ConsumingInv' /\ CandidateInv' /\ PromotionInv'
       /\ Others(r) /\ Forward /\ (Serialized => \A p, q \in Active' : p = q)
  <2>1. ledger' # None
    BY <1>7, ReleaseAssumption
  <2> QED BY <1>1, <1>5, <1>11, <1>12, <1>14, <2>1, PublishKept DEF Consumed, Owning
<1>16. Kept(Owning) /\ Kept(Unshipped) /\ Kept(Drafted)
  BY <1>2, <1>11, <1>12, KeptOnly DEF Owning, Unshipped, Drafted
<1>17. LedgerInv'
  <2>1. ledger # None /\ LedgerInv
    BY <1>5 DEF IInv
  <2> QED BY <1>1, <1>7, <2>1 DEF LedgerInv, Proper, Unique
<1>18. Taken' \subseteq Taken
  BY <1>1 DEF Taken
<1>19. TagsInv' /\ ReleasesInv' /\ PublicInv' /\ ShippedInv'
  BY <1>1, <1>14, <1>15, <1>16, <1>18, TagsKept, ReleasesKept, PublicKept, ShippedKept DEF IInv
<1>20. DraftsInv'
  <2>1. \A q \in Runs : In(q, Drafted)' => run'[q] = run[q]
    BY <1>12, <1>15 DEF In, Others, Drafted, Unshipped, Owning
  <2> QED BY <1>1, <1>16, <2>1, DraftsKept DEF IInv
<1>21. \A i \in DOMAIN shipped : shipped[i].number \in Nat /\ shipped[i].number <= ledger.floor
  BY <1>2, <1>5, ShippedFacts DEF IInv, FloorInv
<1>22. FloorInv'
  <2>1. \A i \in DOMAIN shipped' : shipped'[i].number <= ledger'.floor
    BY <1>1, <1>5, <1>6, <1>7, <1>21
  <2>2. \A q \in Runs : In(q, Consumed)' => run'[q].plan.number <= ledger'.floor
    <3> SUFFICES ASSUME NEW q \in Runs, In(q, Consumed)' PROVE run'[q].plan.number <= ledger'.floor
      OBVIOUS
    <3>1. CASE q = r
      BY <1>5, <1>7, <1>10, <1>11, <3>1 DEF n
    <3>2. CASE q # r
      <4>1. run'[q] = run[q] /\ In(q, Consumed)
        BY <1>15, <3>2 DEF Others, In
      <4>2. run[q].plan.number <= ledger.floor
        BY <1>5, <4>1 DEF IInv, FloorInv
      <4>3. run[q].plan.number \in Nat
        BY <4>1, AuthorizedFacts DEF In, Authorized, Plan
      <4> QED BY <1>5, <1>6, <1>7, <4>1, <4>2, <4>3
    <3> QED BY <3>1, <3>2
  <2> QED BY <1>1, <2>1, <2>2 DEF IInv, FloorInv
<1>23. OrderInv'
  <2>1. Serialized' <=> Serialized
    BY <1>1 DEF Serialized
  <2>2. Serialized => \A q \in Runs, i \in DOMAIN shipped : In(q, {"tagging"} \cup Unshipped)' =>
          /\ shipped[i].number <= run'[q].plan.number
          /\ ~Stable(q)' => shipped[i].number < run'[q].plan.number
    <3> SUFFICES ASSUME Serialized, NEW q \in Runs, NEW i \in DOMAIN shipped,
                        In(q, {"tagging"} \cup Unshipped)'
                 PROVE  /\ shipped[i].number <= run'[q].plan.number
                        /\ ~Stable(q)' => shipped[i].number < run'[q].plan.number
      OBVIOUS
    <3>1. CASE q = r
      <4>1. run'[r].plan.number = n /\ (Stable(r)' <=> Stable(r))
        BY <1>10, <1>11 DEF n, Stable
      <4> QED BY <1>5, <1>6, <1>21, <3>1, <4>1
    <3>2. CASE q # r
      <4>1. run'[q] = run[q] /\ In(q, {"tagging"} \cup Unshipped) /\ (Stable(q)' <=> Stable(q))
        BY <1>15, <3>2 DEF Others, In, Stable
      <4> QED BY <4>1 DEF IInv, OrderInv
    <3> QED BY <3>1, <3>2
  <2> QED BY <1>1, <1>15, <2>1, <2>2 DEF IInv, OrderInv, PublicationOrder
<1> QED BY <1>13, <1>15, <1>17, <1>19, <1>20, <1>22, <1>23 DEF IInv

\* A publishing run that ships nothing keeps ledger and order.
LEMMA QuietPublishKept ==
    ASSUME IInv, NEW r \in Runs, Only(r), run[r].phase \in {"tagging"} \cup Unshipped,
           run'[r].phase \in Ended \cup Unshipped, run'[r].phase \in Consumed => Same(r),
           run[r].phase \in Owning \ {"drafting"} =>
               run'[r].phase \in (Owning \ {"drafting"}) \cup Ended,
           UNCHANGED <<setting, branch, ledger, issued, shipped>>
    PROVE  /\ LedgerInv' /\ ReservingInv' /\ ConsumingInv' /\ CandidateInv' /\ PromotionInv'
           /\ FloorInv' /\ OrderInv' /\ Others(r) /\ Forward /\ ShippedGrows
<1>1. TypeOK
  BY DEF IInv
<1>2. ShippedGrows
  BY DEF ShippedGrows
<1>3. /\ Unshipped \subseteq Consumed /\ {"tagging"} \cup Unshipped \subseteq Consumed
      /\ Ended \cap Consumed = {}
  BY DEF Unshipped, Consumed, Owning, Ended
<1>4. /\ ReservingInv' /\ ConsumingInv' /\ CandidateInv' /\ PromotionInv'
      /\ Others(r) /\ Forward /\ (Serialized => \A p, q \in Active' : p = q)
  BY <1>2, <1>3, PublishKept
<1>5. Kept(Consumed) /\ Kept({"tagging"} \cup Unshipped)
  BY <1>1, <1>3, KeptOnly
<1> QED BY <1>2, <1>4, <1>5, LedgerKept, FloorKept, OrderKept DEF IInv

\* A tag in the history of what was shipped or owned by a run is taken.
LEMMA TakenFacts ==
    ASSUME IInv
    PROVE  /\ \A x \in tags : x.tag \in Taken
           /\ \A x \in releases : x.tag \in Taken
           /\ \A q \in Runs : In(q, Owning) => Target(q) \in Taken
           /\ \A j \in DOMAIN shipped : shipped[j].tag \in Taken
<1>1. (\A x \in tags : x.tag \in Taken) /\ (\A x \in releases : x.tag \in Taken)
  BY DEF Taken
<1>2. \A t, s : [tag |-> t, sha |-> s] \in tags => t \in Taken
  <2> SUFFICES ASSUME NEW t, NEW s, [tag |-> t, sha |-> s] \in tags PROVE t \in Taken
    OBVIOUS
  <2>1. [tag |-> t, sha |-> s].tag = t
    OBVIOUS
  <2> QED BY <1>1, <2>1
<1>3. \A q \in Runs : In(q, Owning) => Target(q) \in Taken
  BY <1>2 DEF IInv, TagsInv
<1>4. \A j \in DOMAIN shipped : shipped[j].tag \in Taken
  BY <1>2 DEF IInv, ShippedInv
<1> QED BY <1>1, <1>3, <1>4

LEMMA CreateTagSafe ==
    ASSUME IInv, NEW r \in Runs, CreateTag(r)
    PROVE  IInv'
<1> DEFINE t == [tag |-> Target(r), sha |-> run[r].plan.sha]
<1>1. /\ r \in Started /\ run[r].phase = "tagging" /\ Target(r) \notin Taken
      /\ tags' = tags \cup {t} /\ Goto(r, "drafting")
      /\ UNCHANGED <<setting, exposed, head, branch, ledger, releases, issued, shipped, trouble>>
  BY DEF CreateTag, At, Absent
<1>2. TypeOK
  BY DEF IInv
<1>3. Only(r) /\ Same(r) /\ run'[r].phase = "drafting"
  BY <1>1, <1>2, GotoFacts DEF Phase, Ended
<1>4. /\ Target(r) \in Tag /\ run[r].plan.sha \in 1..MaxHead
      /\ Target(r).channel = "stable" \/ \E z \in issued : z.plan.tag = Target(r)
  <2>1. In(r, Consumed) /\ In(r, Authorized)
    BY <1>1 DEF In, Authorized, Consumed
  <2>2. run[r].plan \in Plan
    BY <2>1, AuthorizedFacts
  <2> QED BY <2>1, <2>2, DraftFacts DEF Plan
<1>5. /\ LedgerInv' /\ ReservingInv' /\ ConsumingInv' /\ CandidateInv' /\ PromotionInv'
      /\ FloorInv' /\ OrderInv' /\ Others(r) /\ Forward /\ ShippedGrows
  BY <1>1, <1>3, QuietPublishKept DEF Unshipped, Owning
<1>6. t \in [tag : Tag, sha : 1..MaxHead] /\ t.tag = Target(r)
  BY <1>4
<1>7. TypeOK'
  BY <1>1, <1>2, <1>3, <1>6 DEF TypeOK, Only
<1>8. /\ Target(r)' = Target(r) /\ run'[r].plan = run[r].plan
      /\ \A q \in Runs : q # r => /\ run'[q] = run[q] /\ Target(q)' = Target(q)
                                  /\ \A S : In(q, S)' <=> In(q, S)
  BY <1>3, <1>5 DEF Same, Others, Target, Stable, In
<1>9. \A q \in Runs : In(q, Owning) => Target(q) # Target(r)
  BY <1>1, TakenFacts
<1>10. TagsInv'
  <2>1. Taken' = Taken \cup {Target(r)}
    BY <1>1, <1>6 DEF Taken
  <2>2. \A k \in Taken' : k.channel = "stable" \/ \E z \in issued' : z.plan.tag = k
    BY <1>1, <1>4, <2>1 DEF IInv, TagsInv
  <2>3. \A q \in Runs : In(q, Owning)' => [tag |-> Target(q)', sha |-> run'[q].plan.sha] \in tags'
    <3> SUFFICES ASSUME NEW q \in Runs, In(q, Owning)'
                 PROVE  [tag |-> Target(q)', sha |-> run'[q].plan.sha] \in tags'
      OBVIOUS
    <3>1. CASE q = r
      BY <1>1, <1>8, <3>1
    <3>2. CASE q # r
      BY <1>1, <1>8, <3>2 DEF IInv, TagsInv
    <3> QED BY <3>1, <3>2
  <2>4. \A p, q \in Runs : In(p, Owning)' /\ In(q, Owning)' /\ Target(p)' = Target(q)' => p = q
    <3>1. \A p, q \in Runs : In(p, Owning) /\ In(q, Owning) /\ Target(p) = Target(q) => p = q
      BY DEF IInv, TagsInv
    <3> QED BY <1>8, <1>9, <3>1
  <2> QED BY <2>2, <2>3, <2>4 DEF TagsInv
<1>11. DraftsInv'
  <2>1. \A q \in Runs : In(q, Drafted)' => run'[q] = run[q] /\ In(q, Drafted)
    BY <1>3, <1>8 DEF In, Drafted
  <2>2. Kept(Drafted)
    BY <1>2, <1>3, KeptOnly DEF Drafted
  <2> QED BY <1>1, <2>1, <2>2, DraftsKept DEF IInv
<1>12. ReleasesInv'
  <2>1. \A x \in releases : Made(x) => Made(x)'
    <3> SUFFICES ASSUME NEW x \in releases, Made(x) PROVE Made(x)'
      OBVIOUS
    <3>1. x.id[1] \in Started /\ x.id[2] \in Nat
      BY <1>2 DEF Made, TypeOK, ReleaseRecord, Attempt
    <3>2. /\ x.id[1] \in Started' /\ x.id[2] <= run'[x.id[1]].attempt
          /\ x.id[2] = run'[x.id[1]].attempt =>
               run'[x.id[1]].phase \in (Owning \ {"drafting"}) \cup Ended
      BY <1>5, <3>1 DEF Made, Forward
    <3>3. /\ [tag |-> x.tag, sha |-> x.sha] \in tags'
          /\ \E z \in issued' : /\ z.run = x.bytes[1] /\ z.plan.sha = x.sha
                                /\ x.tag.channel # "stable" => z.plan.tag = x.tag
      BY <1>1 DEF Made
    <3>4. x.tag # Target(r)
      BY <1>1, TakenFacts
    <3>5. \A q \in Runs : In(q, Owning)' /\ Target(q)' = x.tag => x.id = <<q, run'[q].attempt>>
      BY <1>8, <3>4 DEF Made
    <3> QED BY <3>2, <3>3, <3>5 DEF Made
  <2> QED BY <1>1, <2>1 DEF IInv, ReleasesInv
<1>13. PublicInv'
  BY <1>1, <1>5, PublicKept DEF IInv
<1>14. ShippedInv'
  <2>1. \A j \in DOMAIN shipped : shipped[j].bytes \in Attempt /\ shipped[j].tag # Target(r)
    BY <1>1, <1>2, ShippedFacts, TakenFacts
  <2>2. \A b \in Attempt : Done(b) => Done(b)'
    BY <1>5, DoneForward
  <2>3. \A j \in DOMAIN shipped : Done(shipped[j].bytes) => Done(shipped[j].bytes)'
    BY <1>1, <2>1, <2>2 DEF Done
  <2>4. \A j \in DOMAIN shipped : \A q \in Runs : In(q, Unshipped)' => Target(q)' # shipped[j].tag
    <3>1. \A j \in DOMAIN shipped : \A q \in Runs : In(q, Unshipped) => Target(q) # shipped[j].tag
      BY DEF IInv, ShippedInv
    <3> QED BY <1>8, <2>1, <3>1
  <2> QED BY <1>1, <2>3, <2>4 DEF IInv, ShippedInv
<1> QED BY <1>5, <1>7, <1>10, <1>11, <1>12, <1>13, <1>14 DEF IInv

\* The run's draft is made or not, and the run learns of it or not.
LEMMA DraftStepSafe ==
    ASSUME IInv, NEW r \in Runs, Only(r), run[r].phase = "drafting",
           run'[r].phase \in {"uploading", "reconciling", "failed"},
           run'[r].phase # "failed" => Same(r),
           run'[r].phase = "uploading" => run'[r].rel = <<r, run[r].attempt>>,
           releases' \in {releases, releases \cup {Draft(r)}}, trouble' \in Nat,
           UNCHANGED <<setting, exposed, head, branch, ledger, tags, issued, shipped>>
    PROVE  IInv'
<1>0. PICK d : d = Draft(r)
  OBVIOUS
<1>1. TypeOK /\ r \in Started /\ In(r, Owning) /\ In(r, Consumed) /\ In(r, Authorized)
  BY DEF IInv, Only, In, Owning, Consumed, Authorized
<1>2. /\ d \in ReleaseRecord /\ d.id = <<r, run[r].attempt>> /\ d.tag = Target(r)
      /\ d.sha = run[r].plan.sha /\ d.bytes = run[r].bytes /\ d.draft = TRUE
      /\ ~Stable(r) => Target(r) = run[r].plan.tag
      /\ Stable(r) => Target(r).channel = "stable"
  BY <1>0, <1>1, DraftFacts
<1>3. run[r].attempt \in Nat \ {0} /\ [run |-> run[r].bytes[1], plan |-> run[r].plan] \in issued
  BY <1>1, AuthorizedFacts
<1>4. releases \subseteq releases' /\ releases' \subseteq releases \cup {d}
  BY <1>0
<1>5. run'[r].phase \notin Consumed \/ Same(r)
  BY DEF Consumed, Owning
<1>6. /\ LedgerInv' /\ ReservingInv' /\ ConsumingInv' /\ CandidateInv' /\ PromotionInv'
      /\ FloorInv' /\ OrderInv' /\ Others(r) /\ Forward /\ ShippedGrows
  BY <1>5, QuietPublishKept DEF Unshipped, Owning, Ended
<1>7. TypeOK'
  BY <1>1, <1>2, <1>4 DEF TypeOK, Only
<1>8. Kept(Owning) /\ Kept(Unshipped)
  <2>1. Owning \subseteq Consumed /\ Unshipped \subseteq Consumed
        /\ run[r].phase \in Owning /\ run[r].phase \in Unshipped
    BY DEF Owning, Unshipped, Consumed
  <2> QED BY <1>1, <1>5, <2>1, KeptOnly
<1>9. \A x \in releases : x.id # <<r, run[r].attempt>>
  <2> SUFFICES ASSUME NEW x \in releases, x.id = <<r, run[r].attempt>> PROVE FALSE
    OBVIOUS
  <2>1. x.id[2] > 0 /\ x.id[1] = r /\ x.id[2] = run[r].attempt
    BY <1>3
  <2>2. Made(x)
    BY <2>1 DEF IInv, ReleasesInv
  <2> QED BY <2>1, <2>2 DEF Made, Owning, Ended
<1>10. TagsInv'
  <2>1. Target(r) \in Taken
    BY <1>1, TakenFacts
  <2>2. Taken' \subseteq Taken
    BY <1>2, <1>4, <2>1 DEF Taken
  <2> QED BY <1>8, <2>2, TagsKept DEF IInv
<1>11. \A q \in Runs : In(q, Owning)' =>
         In(q, Owning) /\ Target(q)' = Target(q) /\ run'[q].attempt = run[q].attempt
  BY <1>8 DEF Kept, Same, Target, Stable
<1>12. Made(d)'
  <2>1. /\ d.id[1] \in Started' /\ d.id[2] <= run'[d.id[1]].attempt
        /\ run'[d.id[1]].phase \in (Owning \ {"drafting"}) \cup Ended
    BY <1>1, <1>2, <1>3 DEF Only, Owning, Ended
  <2>2. [tag |-> d.tag, sha |-> d.sha] \in tags'
    BY <1>1, <1>2 DEF IInv, TagsInv
  <2>3. \E z \in issued' : /\ z.run = d.bytes[1] /\ z.plan.sha = d.sha
                           /\ d.tag.channel # "stable" => z.plan.tag = d.tag
    BY <1>2, <1>3
  <2>4. \A q \in Runs : In(q, Owning)' /\ Target(q)' = d.tag => d.id = <<q, run'[q].attempt>>
    BY <1>1, <1>2, <1>11 DEF IInv, TagsInv
  <2> QED BY <2>1, <2>2, <2>3, <2>4 DEF Made
<1>13. ReleasesInv'
  <2>1. \A x \in releases : Made(x) => Made(x)'
    BY <1>1, <1>6, <1>8, MadeKept
  <2>2. \A x \in releases : x.id[2] > 0 /\ x.tag = d.tag => x.id = d.id
    <3>1. \A x \in releases : x.id[2] > 0 => Made(x)
      BY DEF IInv, ReleasesInv
    <3> QED BY <1>1, <1>2, <3>1 DEF Made
  <2>3. d.id[2] > 0 /\ \A x \in releases : x.id # d.id
    BY <1>2, <1>3, <1>9
  <2>4. \A x \in releases' : x \in releases \/ x = d
    BY <1>4
  <2>5. \A x \in releases' : (x.id[2] = 0 => x.draft) /\ (x.id[2] > 0 => Made(x)')
    BY <1>2, <1>12, <2>1, <2>4 DEF IInv, ReleasesInv
  <2>6. \A x, y \in releases' : x.id[2] > 0 /\ y.id = x.id => y = x
    BY <2>3, <2>4 DEF IInv, ReleasesInv
  <2>7. \A x, y \in releases' : x.id[2] > 0 /\ y.id[2] > 0 /\ y.tag = x.tag => y.id = x.id
    BY <2>2, <2>3, <2>4 DEF IInv, ReleasesInv
  <2> QED BY <2>5, <2>6, <2>7 DEF ReleasesInv
<1>14. DraftsInv'
  <2>1. \A q \in Runs : q # r => /\ run'[q] = run[q] /\ Target(q)' = Target(q)
                                 /\ \A S : In(q, S)' <=> In(q, S)
    BY <1>6 DEF Others, Target, Stable, In
  <2>2. run'[r].attempt = run[r].attempt
    BY DEF Only
  <2> SUFFICES ASSUME NEW q \in Runs
               PROVE  /\ In(q, Drafted \ {"reconciling"})' => run'[q].rel = <<q, run'[q].attempt>>
                      /\ In(q, Drafted)' => \A x \in releases' : x.id = <<q, run'[q].attempt>> =>
                           /\ x.draft /\ x.tag = Target(q)' /\ x.sha = run'[q].plan.sha
                           /\ x.bytes = run'[q].bytes
                           /\ run'[q].phase = "publishing" => x.assets = "whole"
    BY DEF DraftsInv
  <2>3. CASE q = r
    <3>1. In(r, Drafted \ {"reconciling"})' => run'[r].rel = <<r, run'[r].attempt>>
      BY <2>2 DEF In, Drafted, Unshipped, Owning
    <3>2. In(r, Drafted)' => \A x \in releases' : x.id = <<r, run'[r].attempt>> =>
            /\ x.draft /\ x.tag = Target(r)' /\ x.sha = run'[r].plan.sha /\ x.bytes = run'[r].bytes
            /\ run'[r].phase = "publishing" => x.assets = "whole"
      <4> SUFFICES ASSUME In(r, Drafted)', NEW x \in releases', x.id = <<r, run'[r].attempt>>
                   PROVE  /\ x.draft /\ x.tag = Target(r)' /\ x.sha = run'[r].plan.sha
                          /\ x.bytes = run'[r].bytes /\ run'[r].phase # "publishing"
        OBVIOUS
      <4>1. x = d
        BY <1>4, <1>9, <2>2
      <4>2. Same(r) /\ Target(r)' = Target(r)
        BY DEF In, Drafted, Unshipped, Owning, Same, Target, Stable
      <4> QED BY <1>2, <4>1, <4>2 DEF Same
    <3> QED BY <2>3, <3>1, <3>2
  <2>4. CASE q # r
    <3>1. d.id # <<q, run[q].attempt>>
      BY <1>2, <2>4
    <3>2. /\ In(q, Drafted \ {"reconciling"}) => run[q].rel = <<q, run[q].attempt>>
          /\ In(q, Drafted) => \A x \in releases : x.id = <<q, run[q].attempt>> =>
               /\ x.draft /\ x.tag = Target(q) /\ x.sha = run[q].plan.sha /\ x.bytes = run[q].bytes
               /\ run[q].phase = "publishing" => x.assets = "whole"
      BY DEF IInv, DraftsInv
    <3>3. \A x \in releases' : x.id = <<q, run[q].attempt>> => x \in releases
      BY <1>4, <3>1
    <3> QED BY <2>1, <2>4, <3>2, <3>3
  <2> QED BY <2>3, <2>4
<1>15. PublicInv'
  <2>1. Public' = Public
    BY <1>2, <1>4 DEF Public
  <2> QED BY <2>1 DEF IInv, PublicInv
<1>16. ShippedInv'
  BY <1>6, <1>8, ShippedKept DEF IInv
<1> QED BY <1>6, <1>7, <1>10, <1>13, <1>14, <1>15, <1>16 DEF IInv

LEMMA CreateDraftSafe ==
    ASSUME IInv, NEW r \in Runs, CreateDraft(r)
    PROVE  IInv'
<1>1. /\ r \in Started /\ run[r].phase = "drafting" /\ releases' = releases \cup {Draft(r)}
      /\ run' = [run EXCEPT ![r].phase = "uploading", ![r].rel = Draft(r).id]
      /\ UNCHANGED <<setting, exposed, head, branch, ledger, tags, issued, shipped, trouble>>
  BY DEF CreateDraft, At
<1>2. TypeOK /\ run[r] \in RunRecord /\ run[r].attempt \in Nat
  BY <1>1, StartedFacts DEF IInv
<1> DEFINE i == <<r, run[r].attempt>>
           u == [run[r] EXCEPT !.phase = "uploading", !.rel = i]
<1>3. i \in Attempt
  BY <1>2 DEF Attempt
<1>4. run' = [run EXCEPT ![r] = u]
  BY <1>1 DEF Draft
<1> HIDE DEF i
<1>5. /\ u \in RunRecord /\ u.phase = "uploading" /\ u.event = run[r].event
      /\ u.channel = run[r].channel /\ u.sha = run[r].sha /\ u.attempt = run[r].attempt
      /\ u.plan = run[r].plan /\ u.bytes = run[r].bytes /\ u.rel = i
  BY <1>2, <1>3 DEF RunRecord, Phase
<1> HIDE DEF u
<1>6. Only(r) /\ run'[r] = u
  BY <1>1, <1>2, <1>4, <1>5, RecordStep DEF Ended
<1>7. Same(r) /\ run'[r].phase = "uploading" /\ run'[r].rel = <<r, run[r].attempt>>
  BY <1>5, <1>6 DEF Same, i
<1>8. trouble' \in Nat
  BY <1>1, <1>2 DEF TypeOK
<1> QED BY <1>1, <1>6, <1>7, <1>8, DraftStepSafe

LEMMA LoseDraftSafe ==
    ASSUME IInv, NEW r \in Runs, LoseDraft(r)
    PROVE  IInv'
<1>1. /\ r \in Started /\ run[r].phase = "drafting"
      /\ releases' \in {releases, releases \cup {Draft(r)}}
      /\ Conclude(r, "failed") \/ Goto(r, "reconciling")
      /\ trouble' = trouble + 1
      /\ UNCHANGED <<setting, exposed, head, branch, ledger, tags, issued, shipped>>
  BY DEF LoseDraft, At, Counted
<1>2. TypeOK /\ trouble' \in Nat /\ run[r].phase \notin Ended
  BY <1>1 DEF IInv, TypeOK, Ended
<1>3. CASE Conclude(r, "failed")
  <2>1. Only(r) /\ run'[r].phase = "failed"
    BY <1>1, <1>2, <1>3, ConcludeFacts DEF Phase, Ended
  <2> QED BY <1>1, <1>2, <2>1, DraftStepSafe
<1>4. CASE Goto(r, "reconciling")
  <2>1. Only(r) /\ Same(r) /\ run'[r].phase = "reconciling"
    BY <1>1, <1>2, <1>4, GotoFacts DEF Phase
  <2> QED BY <1>1, <1>2, <2>1, DraftStepSafe
<1> QED BY <1>1, <1>3, <1>4

\* The id of a run's draft is the one its own request made.
LEMMA OwnRelease ==
    ASSUME IInv, NEW r \in Runs, In(r, Drafted \ {"reconciling"})
    PROVE  /\ run[r].rel = <<r, run[r].attempt>> /\ run[r].attempt \in Nat \ {0}
           /\ \A x \in releases : x.id = run[r].rel =>
                /\ x.id[2] > 0 /\ x.draft /\ x.tag = Target(r) /\ x.sha = run[r].plan.sha
                /\ x.bytes = run[r].bytes
                /\ run[r].phase = "publishing" => x.assets = "whole"
                /\ \A y \in releases : y.id = x.id => y = x
<1>1. In(r, Drafted) /\ r \in Started
  BY DEF In
<1>2. run[r].rel = <<r, run[r].attempt>> /\ run[r].attempt \in Nat \ {0}
  BY <1>1, StartedFacts DEF IInv, DraftsInv
<1>3. \A x \in releases : x.id = run[r].rel =>
        /\ x.draft /\ x.tag = Target(r) /\ x.sha = run[r].plan.sha /\ x.bytes = run[r].bytes
        /\ run[r].phase = "publishing" => x.assets = "whole"
  BY <1>1, <1>2 DEF IInv, DraftsInv
<1>4. \A x \in releases : x.id = run[r].rel => x.id[2] > 0
  BY <1>2
<1>5. \A x, y \in releases : x.id[2] > 0 /\ y.id = x.id => y = x
  BY DEF IInv, ReleasesInv
<1> QED BY <1>2, <1>3, <1>4, <1>5

\* A run that makes nothing but looks at its draft again.
LEMMA LookSafe ==
    ASSUME IInv, NEW r \in Runs, Only(r), Same(r), run[r].phase \in Drafted,
           run'[r].phase \in Drafted \ {"reconciling"}, run'[r].rel = <<r, run[r].attempt>>,
           run'[r].phase = "publishing" =>
               \A x \in releases : x.id = <<r, run[r].attempt>> => x.assets = "whole",
           UNCHANGED <<setting, exposed, head, branch, ledger, tags, releases, issued, shipped, trouble>>
    PROVE  IInv'
<1>1. TypeOK /\ r \in Started /\ In(r, Drafted)
  BY DEF IInv, Only, In
<1>2. /\ Drafted \subseteq Unshipped /\ Drafted \subseteq Owning \ {"drafting"}
      /\ Unshipped \subseteq Owning
  BY DEF Drafted, Unshipped, Owning
<1>3. /\ LedgerInv' /\ ReservingInv' /\ ConsumingInv' /\ CandidateInv' /\ PromotionInv'
      /\ FloorInv' /\ OrderInv' /\ Others(r) /\ Forward /\ ShippedGrows
  BY <1>2, QuietPublishKept
<1>4. TypeOK'
  BY <1>1, RunsTyped DEF TypeOK, Only
<1>5. Kept(Owning) /\ Kept(Unshipped)
  BY <1>1, <1>2, KeptOnly
<1>6. Taken' \subseteq Taken
  BY DEF Taken
<1>7. TagsInv' /\ ReleasesInv' /\ PublicInv' /\ ShippedInv'
  BY <1>3, <1>5, <1>6, TagsKept, ReleasesKept, PublicKept, ShippedKept DEF IInv
<1>8. DraftsInv'
  <2>1. \A q \in Runs : q # r => /\ run'[q] = run[q] /\ Target(q)' = Target(q)
                                 /\ \A S : In(q, S)' <=> In(q, S)
    BY <1>3 DEF Others, Target, Stable, In
  <2>2. Target(r)' = Target(r) /\ run'[r].attempt = run[r].attempt
    BY DEF Same, Target, Stable
  <2> SUFFICES ASSUME NEW q \in Runs
               PROVE  /\ In(q, Drafted \ {"reconciling"})' => run'[q].rel = <<q, run'[q].attempt>>
                      /\ In(q, Drafted)' => \A x \in releases' : x.id = <<q, run'[q].attempt>> =>
                           /\ x.draft /\ x.tag = Target(q)' /\ x.sha = run'[q].plan.sha
                           /\ x.bytes = run'[q].bytes
                           /\ run'[q].phase = "publishing" => x.assets = "whole"
    BY DEF DraftsInv
  <2>3. /\ In(q, Drafted \ {"reconciling"}) => run[q].rel = <<q, run[q].attempt>>
        /\ In(q, Drafted) => \A x \in releases : x.id = <<q, run[q].attempt>> =>
             /\ x.draft /\ x.tag = Target(q) /\ x.sha = run[q].plan.sha /\ x.bytes = run[q].bytes
             /\ run[q].phase = "publishing" => x.assets = "whole"
    BY DEF IInv, DraftsInv
  <2>4. CASE q = r
    BY <1>1, <2>2, <2>3, <2>4 DEF Same
  <2>5. CASE q # r
    BY <2>1, <2>3, <2>5
  <2> QED BY <2>4, <2>5
<1> QED BY <1>3, <1>4, <1>7, <1>8 DEF IInv

LEMMA ReconcileSafe ==
    ASSUME IInv, NEW r \in Runs, Reconcile(r)
    PROVE  IInv'
<1>1. /\ r \in Started /\ run[r].phase = "reconciling"
      /\ UNCHANGED <<setting, exposed, head, branch, ledger, tags, releases, issued, shipped, trouble>>
  BY DEF Reconcile, At, github
<1> DEFINE i == <<r, run[r].attempt>>
           u == [run[r] EXCEPT !.phase = "uploading", !.rel = i]
<1>2. run' = [run EXCEPT ![r] = u]
  <2>1. PICK x \in releases :
          OwnDraft(r, x) /\ run' = [run EXCEPT ![r].phase = "uploading", ![r].rel = x.id]
    BY DEF Reconcile
  <2> QED BY <2>1 DEF OwnDraft, Draft
<1>3. TypeOK /\ run[r] \in RunRecord /\ run[r].attempt \in Nat
  BY <1>1, StartedFacts DEF IInv
<1>4. i \in Attempt
  BY <1>3 DEF Attempt
<1> HIDE DEF i
<1>5. /\ u \in RunRecord /\ u.phase = "uploading" /\ u.event = run[r].event
      /\ u.channel = run[r].channel /\ u.sha = run[r].sha /\ u.attempt = run[r].attempt
      /\ u.plan = run[r].plan /\ u.bytes = run[r].bytes /\ u.rel = i
  BY <1>3, <1>4 DEF RunRecord, Phase
<1> HIDE DEF u
<1>6. Only(r) /\ run'[r] = u
  BY <1>1, <1>2, <1>3, <1>5, RecordStep DEF Ended
<1>7. Same(r) /\ run'[r].phase = "uploading" /\ run'[r].rel = <<r, run[r].attempt>>
  BY <1>5, <1>6 DEF Same, i
<1>8. run[r].phase \in Drafted /\ run'[r].phase \in Drafted \ {"reconciling"}
  BY <1>1, <1>7 DEF Drafted, Unshipped, Owning
<1> QED BY <1>1, <1>6, <1>7, <1>8, LookSafe

LEMMA CheckUploadsSafe ==
    ASSUME IInv, NEW r \in Runs, CheckUploads(r)
    PROVE  IInv'
<1>1. /\ r \in Started /\ run[r].phase = "checking" /\ Goto(r, "publishing")
      /\ \E x \in releases : x.id = run[r].rel /\ x.assets = "whole"
      /\ UNCHANGED <<setting, exposed, head, branch, ledger, tags, releases, issued, shipped, trouble>>
  BY DEF CheckUploads, At, github
<1>2. TypeOK /\ In(r, Drafted \ {"reconciling"})
  BY <1>1 DEF IInv, In, Drafted, Unshipped, Owning
<1>3. Only(r) /\ Same(r) /\ run'[r].phase = "publishing" /\ run'[r].rel = run[r].rel
  BY <1>1, <1>2, GotoFacts DEF Phase, Ended
<1>4. /\ run[r].rel = <<r, run[r].attempt>>
      /\ \A x \in releases : x.id = run[r].rel => x.assets = "whole"
  BY <1>1, <1>2, OwnRelease
<1>5. run[r].phase \in Drafted /\ run'[r].phase \in Drafted \ {"reconciling"}
  BY <1>1, <1>3 DEF Drafted, Unshipped, Owning
<1> QED BY <1>1, <1>3, <1>4, <1>5, LookSafe

\* A release is changed in its assets, or becomes public.
LEMMA ReplaceKept ==
    ASSUME IInv, Forward, Kept(Owning), NEW x \in releases, x.id[2] > 0, NEW y \in ReleaseRecord,
           y.id = x.id, y.tag = x.tag, y.sha = x.sha, y.bytes = x.bytes,
           releases' = (releases \ {x}) \cup {y}, UNCHANGED <<tags, issued>>
    PROVE  TagsInv' /\ ReleasesInv'
<1>1. TypeOK
  BY DEF IInv
<1>2. Taken' \subseteq Taken
  BY DEF Taken
<1>3. TagsInv'
  BY <1>2, TagsKept DEF IInv
<1>4. \A w \in releases : Made(w) => Made(w)'
  BY <1>1, MadeKept
<1>5. \A w \in releases' : (w \in releases /\ w # x) \/ w = y
  OBVIOUS
<1>6. Made(x)
  BY DEF IInv, ReleasesInv
<1>7. Made(y)'
  <2>1. Made(x)'
    BY <1>4, <1>6
  <2> QED BY <2>1 DEF Made
<1>8. \A v, w \in releases : v.id[2] > 0 /\ w.id = v.id => w = v
  BY DEF IInv, ReleasesInv
<1>9. \A v, w \in releases : v.id[2] > 0 /\ w.id[2] > 0 /\ w.tag = v.tag => w.id = v.id
  BY DEF IInv, ReleasesInv
<1>10. \A w \in releases' : (w.id[2] = 0 => w.draft) /\ (w.id[2] > 0 => Made(w)')
  <2>1. ~(y.id[2] = 0)
    OBVIOUS
  <2> QED BY <1>4, <1>5, <1>7, <2>1 DEF IInv, ReleasesInv
<1>11. \A v, w \in releases' : v.id[2] > 0 /\ w.id = v.id => w = v
  BY <1>5, <1>8
<1>12. \A v, w \in releases' : v.id[2] > 0 /\ w.id[2] > 0 /\ w.tag = v.tag => w.id = v.id
  BY <1>5, <1>9
<1> QED BY <1>3, <1>10, <1>11, <1>12 DEF ReleasesInv

LEMMA UploadSafe ==
    ASSUME IInv, NEW r \in Runs, Upload(r)
    PROVE  IInv'
<1>1. /\ r \in Started /\ run[r].phase = "uploading" /\ Goto(r, "checking")
      /\ UNCHANGED <<setting, exposed, head, branch, ledger, tags, issued, shipped, trouble>>
  BY DEF Upload, At
<1>2. PICK x \in releases, got \in {"whole", "damaged"} :
        /\ x.id = run[r].rel
        /\ releases' = (releases \ {x})
                         \cup {[x EXCEPT !.assets = IF @ = "none" THEN got ELSE "damaged"]}
  BY DEF Upload, Replace
<1> DEFINE a == IF x.assets = "none" THEN got ELSE "damaged"
           y == [x EXCEPT !.assets = a]
<1>3. TypeOK /\ In(r, Drafted \ {"reconciling"}) /\ x \in ReleaseRecord
  BY <1>1 DEF IInv, TypeOK, In, Drafted, Unshipped, Owning
<1>4. Only(r) /\ Same(r) /\ run'[r].phase = "checking" /\ run'[r].rel = run[r].rel
  BY <1>1, <1>3, GotoFacts DEF Phase, Ended
<1>5. /\ run[r].rel = <<r, run[r].attempt>> /\ x.id[2] > 0 /\ x.draft /\ x.tag = Target(r)
      /\ x.sha = run[r].plan.sha /\ x.bytes = run[r].bytes
      /\ \A w \in releases : w.id = x.id => w = x
  BY <1>2, <1>3, OwnRelease
<1>6. a \in {"none", "whole", "damaged"}
  OBVIOUS
<1>7. releases' = (releases \ {x}) \cup {y}
  BY <1>2
<1> HIDE DEF a
<1>8. /\ y \in ReleaseRecord /\ y.id = x.id /\ y.tag = x.tag /\ y.sha = x.sha
      /\ y.bytes = x.bytes /\ y.draft = x.draft
  BY <1>3, <1>6 DEF ReleaseRecord
<1> HIDE DEF y
<1>9. /\ LedgerInv' /\ ReservingInv' /\ ConsumingInv' /\ CandidateInv' /\ PromotionInv'
      /\ FloorInv' /\ OrderInv' /\ Others(r) /\ Forward /\ ShippedGrows
  BY <1>1, <1>4, QuietPublishKept DEF Unshipped, Owning
<1>10. TypeOK'
  BY <1>1, <1>3, <1>4, <1>7, <1>8 DEF TypeOK, Only
<1>11. Kept(Owning) /\ Kept(Unshipped)
  BY <1>1, <1>3, <1>4, KeptOnly DEF Owning, Unshipped
<1>12. TagsInv' /\ ReleasesInv'
  BY <1>1, <1>5, <1>7, <1>8, <1>9, <1>11, ReplaceKept
<1>13. PublicInv'
  <2>1. Public' \subseteq Public
    BY <1>5, <1>7, <1>8 DEF Public
  <2> QED BY <1>1, <2>1 DEF IInv, PublicInv
<1>14. ShippedInv'
  BY <1>1, <1>9, <1>11, ShippedKept DEF IInv
<1>15. DraftsInv'
  <2>1. \A q \in Runs : q # r => /\ run'[q] = run[q] /\ Target(q)' = Target(q)
                                 /\ \A S : In(q, S)' <=> In(q, S)
    BY <1>9 DEF Others, Target, Stable, In
  <2>2. Target(r)' = Target(r) /\ run'[r].attempt = run[r].attempt
    BY <1>4 DEF Same, Target, Stable
  <2> SUFFICES ASSUME NEW q \in Runs
               PROVE  /\ In(q, Drafted \ {"reconciling"})' => run'[q].rel = <<q, run'[q].attempt>>
                      /\ In(q, Drafted)' => \A w \in releases' : w.id = <<q, run'[q].attempt>> =>
                           /\ w.draft /\ w.tag = Target(q)' /\ w.sha = run'[q].plan.sha
                           /\ w.bytes = run'[q].bytes
                           /\ run'[q].phase = "publishing" => w.assets = "whole"
    BY DEF DraftsInv
  <2>3. CASE q = r
    <3>1. \A w \in releases' : w.id = <<r, run[r].attempt>> => w = y
      BY <1>2, <1>5, <1>7
    <3> QED BY <1>4, <1>5, <1>8, <2>2, <2>3, <3>1 DEF Same
  <2>4. CASE q # r
    <3>1. \A w \in releases' : w.id = <<q, run[q].attempt>> => w \in releases
      BY <1>2, <1>5, <1>7, <1>8, <2>4
    <3>2. /\ In(q, Drafted \ {"reconciling"}) => run[q].rel = <<q, run[q].attempt>>
          /\ In(q, Drafted) => \A w \in releases : w.id = <<q, run[q].attempt>> =>
               /\ w.draft /\ w.tag = Target(q) /\ w.sha = run[q].plan.sha /\ w.bytes = run[q].bytes
               /\ run[q].phase = "publishing" => w.assets = "whole"
      BY DEF IInv, DraftsInv
    <3> QED BY <2>1, <2>4, <3>1, <3>2
  <2> QED BY <2>3, <2>4
<1> QED BY <1>9, <1>10, <1>12, <1>13, <1>14, <1>15 DEF IInv

\* The draft becomes public.
LEMMA PublishSafe ==
    ASSUME IInv, NEW r \in Runs, Publish(r)
    PROVE  IInv'
<1>1. /\ r \in Started /\ run[r].phase = "publishing"
      /\ \/ Goto(r, "storing") /\ trouble' = trouble
         \/ Conclude(r, "failed") /\ trouble' = trouble + 1
      /\ UNCHANGED <<setting, exposed, head, branch, ledger, tags, issued>>
  BY DEF Publish, At, Counted
<1>2. PICK x \in releases :
        x.id = run[r].rel /\ releases' = (releases \ {x}) \cup {[x EXCEPT !.draft = FALSE]}
  BY DEF Publish, Replace
<1>3. PICK e : /\ e = [tag |-> Target(r), number |-> run[r].plan.number,
                       sha |-> run[r].plan.sha, bytes |-> run[r].bytes]
               /\ shipped' = Append(shipped, e)
  BY DEF Publish
<1>4. PICK y : y = [x EXCEPT !.draft = FALSE]
  OBVIOUS
<1>5. /\ TypeOK /\ In(r, Drafted \ {"reconciling"}) /\ In(r, Authorized) /\ In(r, Consumed)
      /\ In(r, Unshipped) /\ In(r, Owning) /\ In(r, {"tagging"} \cup Unshipped) /\ r \in Active
      /\ x \in ReleaseRecord
  BY <1>1 DEF IInv, TypeOK, In, Drafted, Unshipped, Owning, Consumed, Authorized, Active, Ended
<1>6. /\ Only(r) /\ trouble' \in Nat /\ run'[r].phase \in {"storing", "failed"}
      /\ run'[r].phase = "storing" => Same(r)
  <2>1. run[r].phase \notin Ended /\ "storing" \in Phase /\ "failed" \in Phase /\ trouble \in Nat
    BY <1>1, <1>5 DEF Ended, Phase, TypeOK
  <2>2. CASE Goto(r, "storing") /\ trouble' = trouble
    BY <1>1, <1>5, <2>1, <2>2, GotoFacts
  <2>3. CASE Conclude(r, "failed") /\ trouble' = trouble + 1
    BY <1>1, <1>5, <2>1, <2>3, ConcludeFacts
  <2> QED BY <1>1, <2>2, <2>3
<1>7. /\ run[r].rel = <<r, run[r].attempt>> /\ x.id[2] > 0 /\ x.draft /\ x.tag = Target(r)
      /\ x.sha = run[r].plan.sha /\ x.bytes = run[r].bytes /\ x.assets = "whole"
  BY <1>1, <1>2, <1>5, OwnRelease
<1>8. /\ y \in ReleaseRecord /\ y.id = x.id /\ y.tag = x.tag /\ y.sha = x.sha
      /\ y.bytes = x.bytes /\ y.draft = FALSE /\ y.assets = x.assets
  BY <1>4, <1>5 DEF ReleaseRecord
<1>9. releases' = (releases \ {x}) \cup {y}
  BY <1>2, <1>4
<1>10. /\ run[r].plan \in Plan /\ run[r].bytes \in Attempt
       /\ [run |-> run[r].bytes[1], plan |-> run[r].plan] \in issued
       /\ run[r].plan.number \in Nat /\ run[r].plan.sha \in 1..MaxHead
  BY <1>5, AuthorizedFacts DEF Plan
<1>11. /\ Target(r) \in Tag /\ (Target(r).channel = "stable" <=> Stable(r))
       /\ ~Stable(r) => Target(r) = run[r].plan.tag
       /\ Stable(r) => Target(r).base = run[r].plan.tag.base
  BY <1>5, DraftFacts DEF Target, StableTag
<1>12. /\ e \in [tag : Tag, number : Nat, sha : 1..MaxHead, bytes : Attempt]
       /\ e.tag = Target(r) /\ e.number = run[r].plan.number
       /\ e.sha = run[r].plan.sha /\ e.bytes = run[r].bytes
  BY <1>3, <1>10, <1>11
<1> DEFINE n == Len(shipped)
<1>13. /\ n \in Nat /\ DOMAIN shipped = 1..n /\ DOMAIN shipped' = 1..(n + 1)
       /\ shipped'[n + 1] = e /\ \A i \in 1..n : shipped'[i] = shipped[i]
       /\ shipped' \in Seq([tag : Tag, number : Nat, sha : 1..MaxHead, bytes : Attempt])
  <2> DEFINE E == [tag : Tag, number : Nat, sha : 1..MaxHead, bytes : Attempt]
  <2>1. shipped \in Seq(E) /\ e \in E
    BY <1>5, <1>12 DEF TypeOK
  <2> HIDE DEF E
  <2>2. /\ n \in Nat /\ DOMAIN shipped = 1..n /\ DOMAIN shipped' = 1..(n + 1)
        /\ shipped'[n + 1] = e /\ \A i \in 1..n : shipped'[i] = shipped[i]
        /\ shipped' \in Seq(E)
    BY <1>3, <2>1
  <2> QED BY <2>2 DEF E
<1>14. n + 1 \in DOMAIN shipped' /\ \A j \in DOMAIN shipped' : j \in DOMAIN shipped \/ j = n + 1
  BY <1>13
<1>15. \A j \in DOMAIN shipped : 1..(j - 1) \subseteq DOMAIN shipped /\ j < n + 1
  BY <1>13
<1>16. n + 1 - 1 = n /\ 1..(n + 1 - 1) = DOMAIN shipped
  BY <1>13
<1>17. ShippedGrows
  BY <1>13 DEF ShippedGrows
<1> HIDE DEF n
<1>18. /\ ReservingInv' /\ ConsumingInv' /\ CandidateInv' /\ PromotionInv'
       /\ Others(r) /\ Forward /\ (Serialized => \A p, q \in Active' : p = q)
  BY <1>1, <1>5, <1>6, <1>17, PublishKept DEF Consumed, Owning, Ended, In
<1>19. TypeOK'
  BY <1>1, <1>5, <1>6, <1>8, <1>9, <1>13 DEF TypeOK, Only
<1>20. LedgerInv'
  BY <1>1, LedgerKept DEF IInv
<1>21. Kept(Owning) /\ Kept(Unshipped) /\ Kept(Consumed)
  BY <1>1, <1>5, <1>6, KeptOnly DEF Owning, Unshipped, Consumed
<1>22. TagsInv' /\ ReleasesInv'
  BY <1>1, <1>7, <1>8, <1>9, <1>18, <1>21, ReplaceKept
<1>23. \A q \in Runs : q # r => /\ run'[q] = run[q] /\ Target(q)' = Target(q)
                                /\ \A S : In(q, S)' <=> In(q, S)
  BY <1>18 DEF Others, Target, Stable, In
<1>24. ~In(r, {"tagging"} \cup Unshipped)' /\ ~In(r, Unshipped)' /\ ~In(r, Drafted)'
       /\ ~In(r, Drafted \ {"reconciling"})'
  BY <1>6 DEF In, Unshipped, Owning, Drafted
<1>25. DraftsInv'
  <2> SUFFICES ASSUME NEW q \in Runs
               PROVE  /\ In(q, Drafted \ {"reconciling"})' => run'[q].rel = <<q, run'[q].attempt>>
                      /\ In(q, Drafted)' => \A w \in releases' : w.id = <<q, run'[q].attempt>> =>
                           /\ w.draft /\ w.tag = Target(q)' /\ w.sha = run'[q].plan.sha
                           /\ w.bytes = run'[q].bytes
                           /\ run'[q].phase = "publishing" => w.assets = "whole"
    BY DEF DraftsInv
  <2>1. CASE q = r
    BY <1>24, <2>1
  <2>2. CASE q # r
    <3>1. \A w \in releases' : w.id = <<q, run[q].attempt>> => w \in releases
      BY <1>2, <1>7, <1>8, <1>9, <2>2
    <3>2. /\ In(q, Drafted \ {"reconciling"}) => run[q].rel = <<q, run[q].attempt>>
          /\ In(q, Drafted) => \A w \in releases : w.id = <<q, run[q].attempt>> =>
               /\ w.draft /\ w.tag = Target(q) /\ w.sha = run[q].plan.sha /\ w.bytes = run[q].bytes
               /\ run[q].phase = "publishing" => w.assets = "whole"
      BY DEF IInv, DraftsInv
    <3> QED BY <1>23, <2>2, <3>1, <3>2
  <2> QED BY <2>1, <2>2
<1>26. PublicInv'
  <2> SUFFICES ASSUME NEW w \in Public'
               PROVE  /\ w.assets = "whole"
                      /\ w.tag.channel # "stable" =>
                           \E z \in issued' : \E i \in DOMAIN shipped' :
                               /\ z.run = w.bytes[1] /\ z.plan.tag = w.tag /\ z.plan.sha = w.sha
                               /\ shipped'[i] = [tag |-> w.tag, number |-> z.plan.number,
                                                sha |-> w.sha, bytes |-> w.bytes]
    BY DEF PublicInv
  <2>1. CASE w = y
    <3>1. w.assets = "whole"
      BY <1>7, <1>8, <2>1
    <3>2. ASSUME w.tag.channel # "stable"
          PROVE  \E z \in issued' : \E i \in DOMAIN shipped' :
                   /\ z.run = w.bytes[1] /\ z.plan.tag = w.tag /\ z.plan.sha = w.sha
                   /\ shipped'[i] = [tag |-> w.tag, number |-> z.plan.number,
                                    sha |-> w.sha, bytes |-> w.bytes]
      <4> DEFINE z0 == [run |-> run[r].bytes[1], plan |-> run[r].plan]
      <4>1. z0 \in issued'
        BY <1>1, <1>10
      <4>2. z0.run = w.bytes[1] /\ z0.plan.tag = w.tag /\ z0.plan.sha = w.sha
        BY <1>7, <1>8, <1>11, <2>1, <3>2
      <4>3. shipped'[n + 1] = [tag |-> w.tag, number |-> z0.plan.number,
                              sha |-> w.sha, bytes |-> w.bytes]
        BY <1>3, <1>7, <1>8, <1>13, <2>1
      <4> HIDE DEF z0
      <4> QED BY <1>14, <4>1, <4>2, <4>3
    <3> QED BY <3>1, <3>2
  <2>2. CASE w # y
    <3>1. w \in Public
      BY <1>9, <2>2 DEF Public
    <3>2. w.assets = "whole"
      BY <3>1 DEF IInv, PublicInv
    <3>3. ASSUME w.tag.channel # "stable"
          PROVE  \E z \in issued' : \E i \in DOMAIN shipped' :
                   /\ z.run = w.bytes[1] /\ z.plan.tag = w.tag /\ z.plan.sha = w.sha
                   /\ shipped'[i] = [tag |-> w.tag, number |-> z.plan.number,
                                    sha |-> w.sha, bytes |-> w.bytes]
      <4>1. PICK z \in issued, i \in DOMAIN shipped :
              /\ z.run = w.bytes[1] /\ z.plan.tag = w.tag /\ z.plan.sha = w.sha
              /\ shipped[i] = [tag |-> w.tag, number |-> z.plan.number,
                               sha |-> w.sha, bytes |-> w.bytes]
        BY <3>1, <3>3 DEF IInv, PublicInv
      <4>2. z \in issued' /\ i \in DOMAIN shipped' /\ shipped'[i] = shipped[i]
        BY <1>1, <1>17 DEF ShippedGrows
      <4> QED BY <4>1, <4>2
    <3> QED BY <3>2, <3>3
  <2> QED BY <2>1, <2>2
<1>27. ShippedInv'
  <2>1. \A b \in Attempt : Done(b) => Done(b)'
    BY <1>18, DoneForward
  <2> SUFFICES ASSUME NEW j \in DOMAIN shipped'
               PROVE  /\ [tag |-> shipped'[j].tag, sha |-> shipped'[j].sha] \in tags'
                      /\ \A q \in Runs : In(q, Unshipped)' => Target(q)' # shipped'[j].tag
                      /\ \A i \in 1..(j - 1) : shipped'[i].tag # shipped'[j].tag
                      /\ shipped'[j].tag.channel = "stable" =>
                           /\ Done(shipped[j].bytes)'
                           /\ \E i \in 1..(j - 1) :
                                /\ shipped'[i].tag.channel = "rc"
                                /\ shipped'[i].tag.base = shipped'[j].tag.base
                                /\ shipped'[i].bytes = shipped'[j].bytes
                                /\ shipped'[i].sha = shipped'[j].sha
                                /\ shipped'[i].number = shipped'[j].number
    BY DEF ShippedInv
  <2>2. CASE j \in DOMAIN shipped
    <3>1. \A i \in {j} \cup 1..(j - 1) : shipped'[i] = shipped[i]
      BY <1>15, <1>17, <2>2 DEF ShippedGrows
    <3>2. /\ [tag |-> shipped[j].tag, sha |-> shipped[j].sha] \in tags
          /\ \A q \in Runs : In(q, Unshipped) => Target(q) # shipped[j].tag
          /\ \A i \in 1..(j - 1) : shipped[i].tag # shipped[j].tag
          /\ shipped[j].tag.channel = "stable" =>
               /\ Done(shipped[j].bytes)
               /\ \E i \in 1..(j - 1) :
                    /\ shipped[i].tag.channel = "rc" /\ shipped[i].tag.base = shipped[j].tag.base
                    /\ shipped[i].bytes = shipped[j].bytes /\ shipped[i].sha = shipped[j].sha
                    /\ shipped[i].number = shipped[j].number
      BY <2>2 DEF IInv, ShippedInv
    <3>3. shipped[j].bytes \in Attempt
      BY <1>5, <2>2, ShippedFacts
    <3>4. Done(shipped[j].bytes) => Done(shipped[j].bytes)'
      BY <2>1, <3>1, <3>3 DEF Done
    <3>5. \A q \in Runs : In(q, Unshipped)' => Target(q)' # shipped'[j].tag
      BY <1>23, <1>24, <3>1, <3>2
    <3> QED BY <1>1, <3>1, <3>2, <3>4, <3>5
  <2>3. CASE j = n + 1
    <3>1. shipped'[j] = e /\ \A i \in 1..(j - 1) : i \in DOMAIN shipped /\ shipped'[i] = shipped[i]
      BY <1>13, <1>16, <2>3
    <3>2. [tag |-> e.tag, sha |-> e.sha] \in tags'
      BY <1>1, <1>5, <1>12 DEF IInv, TagsInv
    <3>3. \A q \in Runs : In(q, Unshipped)' => Target(q)' # e.tag
      <4>1. \A q \in Runs : In(q, Unshipped) => In(q, Owning)
        BY DEF In, Unshipped
      <4>2. \A q \in Runs : q # r /\ In(q, Owning) => Target(q) # Target(r)
        BY <1>5 DEF IInv, TagsInv
      <4> QED BY <1>12, <1>23, <1>24, <4>1, <4>2
    <3>4. \A i \in 1..(j - 1) : shipped'[i].tag # e.tag
      <4>1. \A i \in DOMAIN shipped : Target(r) # shipped[i].tag
        BY <1>5 DEF IInv, ShippedInv
      <4> QED BY <1>12, <3>1, <4>1
    <3>5. ASSUME e.tag.channel = "stable"
          PROVE  /\ Done(shipped[j].bytes)'
                 /\ \E i \in 1..(j - 1) :
                      /\ shipped'[i].tag.channel = "rc" /\ shipped'[i].tag.base = e.tag.base
                      /\ shipped'[i].bytes = e.bytes /\ shipped'[i].sha = e.sha
                      /\ shipped'[i].number = e.number
      <4>1. Stable(r)
        BY <1>11, <1>12, <3>5
      <4>2. /\ Done(run[r].bytes) /\ run[r].plan.tag.channel = "rc"
            /\ \E i \in DOMAIN shipped :
                 shipped[i] = [tag |-> run[r].plan.tag, number |-> run[r].plan.number,
                               sha |-> run[r].plan.sha, bytes |-> run[r].bytes]
        BY <1>5, <4>1 DEF IInv, PromotionInv
      <4>3. PICK b : b = run[r].bytes
        OBVIOUS
      <4>4. Done(b)'
        BY <1>10, <2>1, <4>2, <4>3
      <4>5. Done(shipped[j].bytes)'
        BY <1>12, <3>1, <4>3, <4>4 DEF Done
      <4>6. PICK i \in DOMAIN shipped :
              shipped[i] = [tag |-> run[r].plan.tag, number |-> run[r].plan.number,
                            sha |-> run[r].plan.sha, bytes |-> run[r].bytes]
        BY <4>2
      <4>7. i \in 1..(j - 1)
        <5>1. 1..(j - 1) = DOMAIN shipped
          <6>1. n \in Nat /\ DOMAIN shipped = 1..n
            BY <1>13
          <6>2. j - 1 = n
            BY <2>3, <6>1
          <6> QED BY <6>1, <6>2
        <5> QED BY <5>1
      <4> QED BY <1>11, <1>12, <3>1, <4>1, <4>2, <4>5, <4>6, <4>7
    <3> QED BY <3>1, <3>2, <3>3, <3>4, <3>5
  <2> QED BY <1>14, <2>2, <2>3
<1>28. FloorInv'
  <2>1. issued' # {}
    BY <1>1, <1>10
  <2>2. ledger' # None =>
          /\ \A i \in DOMAIN shipped : shipped[i].number <= ledger.floor
          /\ \A q \in Runs : In(q, Consumed) => run[q].plan.number <= ledger.floor
    BY <1>1 DEF IInv, FloorInv
  <2>3. ledger' # None => \A i \in DOMAIN shipped' : shipped'[i].number <= ledger'.floor
    BY <1>1, <1>5, <1>12, <1>13, <1>14, <1>17, <2>2 DEF ShippedGrows
  <2>4. ledger' # None => \A q \in Runs : In(q, Consumed)' => run'[q].plan.number <= ledger'.floor
    BY <1>1, <1>21, <2>2 DEF Kept, Same
  <2> QED BY <2>1, <2>3, <2>4 DEF FloorInv
<1>29. OrderInv'
  <2>1. Serialized' <=> Serialized
    BY <1>1 DEF Serialized
  <2>2. Serialized => \A q \in Runs : ~In(q, {"tagging"} \cup Unshipped)'
    <3> SUFFICES ASSUME Serialized, NEW q \in Runs, In(q, {"tagging"} \cup Unshipped)'
                 PROVE  FALSE
      OBVIOUS
    <3>1. q # r /\ In(q, {"tagging"} \cup Unshipped)
      BY <1>23, <1>24
    <3>2. q \in Active
      BY <3>1 DEF In, Active, Unshipped, Owning, Ended
    <3> QED BY <1>5, <3>1, <3>2 DEF IInv, OrderInv
  <2>3. Serialized => PublicationOrder'
    <3> SUFFICES ASSUME Serialized, NEW i \in DOMAIN shipped', NEW j \in DOMAIN shipped', i < j
                 PROVE  \/ shipped'[i].number < shipped'[j].number
                        \/ /\ shipped'[i].number = shipped'[j].number
                           /\ shipped'[j].tag.channel = "stable"
      BY DEF PublicationOrder
    <3>1. i \in DOMAIN shipped /\ shipped'[i] = shipped[i]
      BY <1>13
    <3>2. CASE j \in DOMAIN shipped
      <4>1. shipped'[j] = shipped[j]
        BY <1>13, <3>2
      <4> QED BY <3>1, <3>2, <4>1 DEF IInv, OrderInv, PublicationOrder
    <3>3. CASE j = n + 1
      <4>1. /\ shipped[i].number <= run[r].plan.number
            /\ ~Stable(r) => shipped[i].number < run[r].plan.number
        BY <1>5, <3>1 DEF IInv, OrderInv
      <4>2. shipped[i].number \in Nat
        BY <1>5, <3>1, ShippedFacts
      <4>3. shipped'[j] = e
        BY <1>13, <3>3
      <4> QED BY <1>10, <1>11, <1>12, <3>1, <4>1, <4>2, <4>3
    <3> QED BY <1>14, <3>2, <3>3
  <2> QED BY <1>18, <2>1, <2>2, <2>3 DEF OrderInv
<1> QED BY <1>18, <1>19, <1>20, <1>22, <1>25, <1>26, <1>27, <1>28, <1>29 DEF IInv

-----------------------------------------------------------------------------
(***************************************************************************)
(* The specification.                                                      *)
(***************************************************************************)

LEMMA InitIInv == Init => IInv
<1> SUFFICES ASSUME Init PROVE IInv
  OBVIOUS
<1>1. /\ setting \in Settings /\ head = 1 /\ branch = FALSE /\ ledger = None /\ tags = {}
      /\ releases = {} /\ run = [r \in Runs |-> None] /\ issued = {} /\ shipped = <<>> /\ trouble = 0
      /\ exposed = FALSE
  BY DEF Init
<1>2. Started = {} /\ Active = {}
  BY <1>1 DEF Started, Active
<1>3. DOMAIN shipped = {}
  BY <1>1
<1>4. TypeOK
  <2>1. head \in 1..MaxHead /\ trouble \in Nat
    BY <1>1, ReleaseAssumption
  <2>2. shipped \in Seq([tag : Tag, number : Nat, sha : 1..MaxHead, bytes : Attempt])
    BY <1>1
  <2>3. run \in [Runs -> RunRecord \cup {None}] /\ branch \in BOOLEAN
    BY <1>1
  <2> QED BY <1>1, <2>1, <2>2, <2>3 DEF TypeOK
<1>5. LedgerInv
  BY <1>1 DEF LedgerInv, Unique
<1>6. ReservingInv /\ ConsumingInv
  BY <1>2 DEF ReservingInv, ConsumingInv, At
<1>7. CandidateInv /\ PromotionInv /\ TagsInv /\ DraftsInv
  BY <1>1, <1>2 DEF CandidateInv, PromotionInv, TagsInv, DraftsInv, In, Taken
<1>8. ReleasesInv /\ PublicInv
  BY <1>1 DEF ReleasesInv, PublicInv, Public
<1>9. ShippedInv /\ FloorInv
  BY <1>1, <1>3 DEF ShippedInv, FloorInv
<1>10. OrderInv
  BY <1>2, <1>3 DEF OrderInv, PublicationOrder
<1> QED BY <1>4, <1>5, <1>6, <1>7, <1>8, <1>9, <1>10 DEF IInv

\* A step that changes nothing.
LEMMA StutterSafe ==
    ASSUME IInv, UNCHANGED vars
    PROVE  IInv'
<1>1. /\ UNCHANGED <<setting, exposed, head, branch, ledger, tags, releases, run, issued, shipped, trouble>>
  BY DEF vars, github
<1>2. TypeOK /\ Forward /\ \A S : Kept(S)
  BY <1>1, StillKept DEF IInv
<1>3. TypeOK'
  BY <1>1, <1>2 DEF TypeOK
<1>4. Taken' \subseteq Taken /\ ShippedGrows
  BY <1>1 DEF Taken, ShippedGrows
<1>5. LedgerInv' /\ TagsInv' /\ ReleasesInv' /\ PublicInv' /\ FloorInv'
  BY <1>1, <1>2, <1>4, LedgerKept, TagsKept, ReleasesKept, PublicKept, FloorKept DEF IInv
<1>6. DraftsInv'
  BY <1>1, <1>2, DraftsKept DEF IInv
<1>7. ReservingInv'
  BY <1>1, ReservingKept DEF IInv, At, Started
<1> QED BY <1>1, <1>3, <1>5, <1>6, <1>7, AccidentKept DEF IInv

LEMMA NextIInv ==
    ASSUME IInv, [Next]_vars, ~exposed'
    PROVE  IInv'
<1>1. CASE Push \/ Schedule \/ Dispatch
  BY <1>1, EventsSafe
<1>2. CASE Accident
  BY <1>2, AccidentSafe
<1>3. ASSUME NEW r \in Runs, Begin(r) \/ Fail(r) \/ Rerun(r)
      PROVE  IInv'
  BY <1>3, BeginSafe, FailSafe, RerunSafe
<1>4. ASSUME NEW r \in Runs, Prepare(r)
      PROVE  IInv'
  BY <1>4, EndingsSafe, ReusePlanSafe, MakePlanSafe, CreateBranchSafe, WriteReservationSafe,
     PrepareStableSafe, BuildSafe DEF Prepare
<1>5. ASSUME NEW r \in Runs, Authorize(r)
      PROVE  IInv'
  BY <1>5, EndingsSafe, VerifySafe, VerifyPromotionSafe, ReadFloorSafe, WriteFloorSafe
     DEF Authorize
<1>6. ASSUME NEW r \in Runs, Release(r)
      PROVE  IInv'
  BY <1>6, CreateTagSafe, CreateDraftSafe, LoseDraftSafe, ReconcileSafe, UploadSafe,
     CheckUploadsSafe, PublishSafe, EndingsSafe DEF Release
<1>7. CASE UNCHANGED vars
  BY <1>7, StutterSafe
<1> QED BY <1>1, <1>2, <1>3, <1>4, <1>5, <1>6, <1>7 DEF Next

\* Only outside the concurrency group can the ledger go while another run that
\* found none is still to write; until then the invariant holds.
Guarded == IF exposed THEN ~Serialized ELSE IInv

\* Which step exposes a run, and that nothing else changes that or the setting.
LEMMA ExposedSteps ==
    ASSUME [Next]_vars
    PROVE  setting' = setting /\ (exposed' = exposed \/ RemoveLedger)
<1>1. CASE UNCHANGED vars
  BY <1>1 DEF vars
<1>2. CASE Push \/ Schedule \/ Dispatch \/ Accident
  BY <1>2 DEF Push, Schedule, Dispatch, Accident, DeleteRelease, ForeignDraft
<1>3. ASSUME NEW r \in Runs, Begin(r) \/ Fail(r) \/ Rerun(r) \/ Prepare(r)
      PROVE  UNCHANGED <<setting, exposed>>
  BY <1>3 DEF Begin, Fail, Rerun, Prepare, VersionRequired, End, ReusePlan, MakePlan, CreateBranch,
     WriteReservation, PrepareStable, Build
<1>4. ASSUME NEW r \in Runs, Authorize(r) \/ Release(r)
      PROVE  UNCHANGED <<setting, exposed>>
  BY <1>4 DEF Authorize, Superseded, Reuse, End, Verify, VerifyPromotion, ReadFloor, WriteFloor,
     Release, CreateTag, CreateDraft, LoseDraft, Reconcile, Upload, CheckUploads, Publish, Succeed
<1> QED BY <1>1, <1>2, <1>3, <1>4 DEF Next

LEMMA NextGuarded ==
    ASSUME Guarded, [Next]_vars
    PROVE  Guarded'
<1>1. Serialized' <=> Serialized
  BY ExposedSteps DEF Serialized
<1>2. CASE ~exposed'
  <2>1. ~exposed
    BY <1>2, ExposedSteps DEF RemoveLedger
  <2> QED BY <1>2, <2>1, NextIInv DEF Guarded
<1>3. CASE exposed' /\ exposed
  BY <1>1, <1>3 DEF Guarded
<1>4. CASE exposed' /\ ~exposed
  <2>1. RemoveLedger /\ IInv
    BY <1>4, ExposedSteps DEF Guarded
  <2>2. PICK r \in Runs : At(r, "reserving") /\ run[r].seen = <<None>>
    BY <1>4, <2>1 DEF RemoveLedger
  <2>3. ledger # None /\ run[r].seen[1] = None
    BY <2>1, <2>2 DEF RemoveLedger
  <2>4. ~Serialized
    BY <2>1, <2>2, <2>3 DEF IInv, ReservingInv
  <2> QED BY <1>1, <1>4, <2>4 DEF Guarded
<1> QED BY <1>2, <1>3, <1>4

LEMMA SpecGuarded == Spec => []Guarded
<1>1. Init => Guarded
  BY InitIInv DEF Init, Guarded
<1>2. Guarded /\ [Next]_vars => Guarded'
  BY NextGuarded
<1> QED BY <1>1, <1>2, PTL DEF Spec

\* The state GitHub keeps for the pipeline, and what the runs remember of it,
\* are records of the shapes that the scripts expect, always under the
\* concurrency group and otherwise unless the ledger is begun anew.
THEOREM TypeCorrect == Spec => [](Serialized \/ ~exposed => TypeOK)
<1>1. Guarded => (Serialized \/ ~exposed => TypeOK)
  BY DEF Guarded, IInv
<1> QED BY <1>1, SpecGuarded, PTL

\* reserve_plan and write_state: however many runs are active, fail, are
\* repeated or lose the ledger, no number, no tag and no second plan is issued;
\* without the concurrency group, unless a run that had found no ledger writes
\* one after that of another run was removed.
THEOREM NumbersUnique == Spec => []NumbersNeverReused
<1>1. Guarded => NumbersNeverReused
  BY DEF Guarded, IInv, LedgerInv, NumbersNeverReused
<1> QED BY <1>1, SpecGuarded, PTL

\* _publish_prepared: everything public is one run's own, verified draft, at
\* the source of a plan that was issued and that the ledger still holds, under
\* the concurrency group or unless the ledger is begun anew.
THEOREM PublicIsVerified == Spec => [](Serialized \/ ~exposed => PublishedIsWhole)
<1>1. ASSUME IInv, NEW x \in Public
      PROVE  /\ x.assets = "whole" /\ x.id[2] > 0
             /\ [tag |-> x.tag, sha |-> x.sha] \in tags
             /\ \A y \in Public : y.tag = x.tag => y = x
             /\ \E z \in issued : z.run = x.bytes[1] /\ z.plan.sha = x.sha
             /\ ledger # None => State.plans[x.bytes[1]] # None
  <2>1. \A y \in Public : y \in releases /\ y.id[2] > 0
    <3>1. \A y \in Public : y \in releases /\ ~y.draft /\ y.id[2] \in Nat
      BY <1>1 DEF Public, IInv, TypeOK, ReleaseRecord, Attempt
    <3>2. \A y \in releases : y.id[2] = 0 => y.draft
      BY <1>1 DEF IInv, ReleasesInv
    <3> QED BY <3>1, <3>2
  <2>2. Made(x)
    BY <1>1, <2>1 DEF IInv, ReleasesInv
  <2>3. PICK z \in issued : z.run = x.bytes[1] /\ z.plan.sha = x.sha
    BY <2>2 DEF Made
  <2>4. ledger # None => State.plans[x.bytes[1]] # None
    <3>1. z.plan \in Plan /\ z.plan # None
      BY <1>1, ReleaseAssumption DEF IInv, TypeOK
    <3>2. ledger # None => ledger.plans[z.run] = z.plan
      BY <1>1 DEF IInv, LedgerInv
    <3> QED BY <2>3, <3>1, <3>2 DEF State
  <2>5. \A y \in Public : y.tag = x.tag => y = x
    BY <1>1, <2>1 DEF IInv, ReleasesInv
  <2>6. x.assets = "whole"
    BY <1>1 DEF IInv, PublicInv
  <2> QED BY <2>1, <2>2, <2>3, <2>4, <2>5, <2>6 DEF Made
<1>2. IInv => PublishedIsWhole
  BY <1>1 DEF PublishedIsWhole
<1>3. Guarded => (Serialized \/ ~exposed => PublishedIsWhole)
  BY <1>2 DEF Guarded
<1> QED BY <1>3, SpecGuarded, PTL

\* promote: a stable release is a candidate that was public before, with its
\* bytes, source and number, made by a run that somebody asked for and that
\* ended well; no base becomes stable twice.  Proved under the concurrency group
\* and without it unless the ledger is begun anew.
THEOREM StableWasCandidate == Spec => [](Serialized \/ ~exposed => StableIsAcceptedRc)
<1>1. IInv => StableIsAcceptedRc
  <2> SUFFICES ASSUME IInv, NEW j \in DOMAIN shipped, shipped[j].tag.channel = "stable"
               PROVE  /\ \E i \in 1..(j - 1) :
                           /\ shipped[i].tag.channel = "rc"
                           /\ shipped[i].tag.base = shipped[j].tag.base
                           /\ shipped[i].bytes = shipped[j].bytes /\ shipped[i].sha = shipped[j].sha
                           /\ shipped[i].number = shipped[j].number
                      /\ run[shipped[j].bytes[1]].event = "dispatch"
                      /\ run[shipped[j].bytes[1]].attempt = shipped[j].bytes[2] =>
                             run[shipped[j].bytes[1]].phase = "succeeded"
                      /\ \A i \in 1..(j - 1) : shipped[i].tag # shipped[j].tag
    BY DEF StableIsAcceptedRc
  <2> QED BY DEF IInv, ShippedInv, Done
<1>2. Guarded => (Serialized \/ ~exposed => StableIsAcceptedRc)
  BY <1>1 DEF Guarded
<1> QED BY <1>2, SpecGuarded, PTL

\* begin_publication under the concurrency group: what becomes public only
\* goes forward, whatever is deleted or repeated in between.
THEOREM PublicationForward == Spec => []PublicationOrder
<1>1. Guarded => PublicationOrder
  BY DEF Guarded, IInv, OrderInv, PublicationOrder
<1> QED BY <1>1, SpecGuarded, PTL
=============================================================================
