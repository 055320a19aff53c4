--------------------------- MODULE PublishPipeline ---------------------------
(***************************************************************************)
(* The release of one version: release.yaml tags the commit it runs on and *)
(* publish-crates.yaml publishes the crates of the workspace tier by tier  *)
(* (publish-crate-if-needed.sh, wait-for-crate.sh).  Workflow runs may     *)
(* overlap: the push of the release commit, the override path of           *)
(* prepare-release.yaml, dry or not; a job that failed is run again from   *)
(* its start.  crates.io has two faces: the registry behind its API, which *)
(* knows of a crate at once, and the index cargo resolves from, later.     *)
(***************************************************************************)
EXTENDS Naturals, Sequences

CONSTANTS
    Crates,
    Tiers,      \* the tiers: sequences of crates
    Deps,       \* of each crate: the crates it needs
    Runs,       \* workflow runs that release this version
    Commit,     \* of each run: GITHUB_SHA
    OnMain,     \* the runs with GITHUB_REF refs/heads/main
    Dry,        \* the runs with dry_run
    None,
    MaxFaults   \* bound: failed requests and lost answers

TierCrates(t) == {Tiers[t][i] : i \in DOMAIN Tiers[t]}

ASSUME PipelineAssumption ==
    /\ Deps \in [Crates -> SUBSET Crates]
    /\ OnMain \subseteq Runs /\ Dry \subseteq Runs
    /\ \A r \in Runs : Commit[r] # None
    /\ MaxFaults \in Nat

\* The comments on the tiers in publish-crates.yaml say what each crate needs:
\* crates of earlier tiers only.
ASSUME TierAssumption ==
    /\ Tiers # <<>> /\ Tiers \in Seq(Seq(Crates) \ {<<>>})
    /\ \A c \in Crates : \E t \in DOMAIN Tiers : c \in TierCrates(t)
    /\ \A t \in DOMAIN Tiers : \A c \in TierCrates(t) : \A d \in Deps[c] :
          \E u \in 1..(t - 1) : d \in TierCrates(u)

VARIABLES
    tag,        \* the commit refs/tags/v<version> points at on origin
    registry,   \* of each crate: the commit it was published from
    index,      \* the crates that are on the index
    job,        \* of each run: where it is
    attempts,   \* history: crates handed to cargo publish to be uploaded, and
                \* whether the index had what they need
    faults

vars == <<tag, registry, index, job, attempts, faults>>

Published == {c \in Crates : registry[c] # None}

\* job: "tag", "push tag", "announced", "tag failed", "crates failed", or in the
\* crates job at a crate of a tier: asking for its "status", at its "publish",
\* or at the "wait" for it.
At(phase, tier, crate) == [phase |-> phase, tier |-> tier, crate |-> crate]

Init ==
    /\ tag = None
    /\ registry = [c \in Crates |-> None]
    /\ index = {}
    /\ job = [r \in Runs |-> At("tag", 1, 1)]
    /\ attempts = {}
    /\ faults = 0

Move(r, phase, tier, crate) == job' = [job EXCEPT ![r] = At(phase, tier, crate)]

\* To the first step of the crates job, of the tag job, or out of either.
Enter(r, phase) == Move(r, phase, 1, 1)

-----------------------------------------------------------------------------
(* tag-and-release.                                                        *)

\* Faulty variant: any tag of the version will do.
LookForTagAny(r) ==
    /\ job[r].phase = "tag"
    /\ CASE tag # None -> Enter(r, "status")
         [] tag = None /\ r \in OnMain -> Enter(r, "push tag")
         [] OTHER -> Enter(r, "tag failed")
    /\ UNCHANGED <<tag, registry, index, attempts, faults>>

\* git ls-remote: a tag of this commit is reused, one of another is not moved,
\* and none is made outside main.
LookForTag(r) ==
    /\ job[r].phase = "tag"
    /\ CASE tag = Commit[r] -> Enter(r, "status")
         [] tag = None /\ r \in OnMain -> Enter(r, "push tag")
         [] OTHER -> Enter(r, "tag failed")
    /\ UNCHANGED <<tag, registry, index, attempts, faults>>

\* git push, which rejects a tag that has come into being in the meantime,
\* unless it points at the same commit.
PushTag(r) ==
    /\ job[r].phase = "push tag"
    /\ IF tag \in {None, Commit[r]}
       THEN tag' = Commit[r] /\ Enter(r, "status")
       ELSE UNCHANGED tag /\ Enter(r, "tag failed")
    /\ UNCHANGED <<registry, index, attempts, faults>>

-----------------------------------------------------------------------------
(* crates.                                                                 *)

CrateOf(r) == Tiers[job[r].tier][job[r].crate]

LastOfTier(r) == job[r].crate = Len(Tiers[job[r].tier])

NextCrate(r) ==
    Move(r, IF job[r].phase = "wait" THEN "wait" ELSE "status",
         job[r].tier, job[r].crate + 1)

\* Every crate of the tier is published, or was there already.
EndTier(r) ==
    IF job[r].tier < Len(Tiers) THEN Move(r, "wait", job[r].tier, 1)
    ELSE Enter(r, "announced")

NextTier(r) == Move(r, "status", job[r].tier + 1, 1)

\* Faulty variant: one crate of each tier is waited for.
AdvanceHasty(r) ==
    \/ job[r].phase = "wait" /\ NextTier(r)
    \/ job[r].phase # "wait" /\ LastOfTier(r) /\ EndTier(r)
    \/ job[r].phase # "wait" /\ ~LastOfTier(r) /\ NextCrate(r)

\* The steps in order: each crate of a tier, then the wait for each of them,
\* then the next tier.  The last tier is not waited for.
Advance(r) ==
    \/ ~LastOfTier(r) /\ NextCrate(r)
    \/ LastOfTier(r) /\ job[r].phase # "wait" /\ EndTier(r)
    \/ LastOfTier(r) /\ job[r].phase = "wait" /\ NextTier(r)

\* Faulty variant: crates.io is not asked.
AskNothing(r) ==
    /\ job[r].phase = "status"
    /\ Move(r, "publish", job[r].tier, job[r].crate)
    /\ UNCHANGED <<tag, registry, index, attempts, faults>>

\* publish-crate-if-needed.sh, the lookup: 200 or 404.
AskStatus(r) ==
    /\ job[r].phase = "status"
    /\ IF CrateOf(r) \in Published THEN Advance(r)
       ELSE Move(r, "publish", job[r].tier, job[r].crate)
    /\ UNCHANGED <<tag, registry, index, attempts, faults>>

\* cargo publish: the dependencies are resolved from the index, and a version
\* that is there by now is refused.  A dry run uploads nothing.
CargoPublish(r) ==
    /\ job[r].phase = "publish"
    /\ LET c == CrateOf(r)
       IN  /\ attempts' = IF r \in Dry THEN attempts ELSE attempts \cup {<<c, Deps[c] \subseteq index>>}
           /\ \/ /\ r \notin Dry /\ Deps[c] \subseteq index /\ c \notin Published
                 /\ registry' = [registry EXCEPT ![c] = Commit[r]]
                 /\ Advance(r)
              \/ /\ r \in Dry /\ Deps[c] \subseteq index
                 /\ UNCHANGED registry
                 /\ Advance(r)
              \/ /\ ~(Deps[c] \subseteq index) \/ (r \notin Dry /\ c \in Published)
                 /\ UNCHANGED registry
                 /\ Enter(r, "crates failed")
    /\ UNCHANGED <<tag, index, faults>>

\* The upload arrives, and the answer does not.
LoseAnswer(r) ==
    /\ job[r].phase = "publish" /\ r \notin Dry
    /\ faults < MaxFaults /\ faults' = faults + 1
    /\ LET c == CrateOf(r)
       IN  /\ Deps[c] \subseteq index /\ c \notin Published
           /\ registry' = [registry EXCEPT ![c] = Commit[r]]
           /\ attempts' = attempts \cup {<<c, TRUE>>}
    /\ Enter(r, "crates failed")
    /\ UNCHANGED <<tag, index>>

\* wait-for-crate.sh; a dry run does not wait.
SeeCrate(r) ==
    /\ job[r].phase = "wait"
    /\ r \in Dry \/ CrateOf(r) \in index
    /\ Advance(r)
    /\ UNCHANGED <<tag, registry, index, attempts, faults>>

\* Anything else that ends a job: a 5xx, a 403, sixty polls in vain.
FailJob(r) ==
    /\ job[r].phase \in {"tag", "push tag", "status", "publish", "wait"}
    /\ faults < MaxFaults /\ faults' = faults + 1
    /\ Enter(r, IF job[r].phase \in {"tag", "push tag"} THEN "tag failed" ELSE "crates failed")
    /\ UNCHANGED <<tag, registry, index, attempts>>

\* "Re-run failed jobs": from the start of the job that failed.
Rerun(r) ==
    /\ \/ job[r].phase = "tag failed" /\ Enter(r, "tag")
       \/ job[r].phase = "crates failed" /\ Enter(r, "status")
    /\ UNCHANGED <<tag, registry, index, attempts, faults>>

\* crates.io
UpdateIndex ==
    /\ \E c \in Published \ index : index' = index \cup {c}
    /\ UNCHANGED <<tag, registry, job, attempts, faults>>

-----------------------------------------------------------------------------

Step(r) == LookForTag(r) \/ PushTag(r) \/ AskStatus(r) \/ CargoPublish(r) \/ SeeCrate(r)

Next == (\E r \in Runs : Step(r) \/ LoseAnswer(r) \/ FailJob(r) \/ Rerun(r)) \/ UpdateIndex

Spec == Init /\ [][Next]_vars

\* GitHub runs its jobs, somebody runs the failed ones again, and the index
\* catches up.
FairSpec ==
    /\ Spec
    /\ \A r \in Runs : WF_vars(Step(r)) /\ WF_vars(Rerun(r))
    /\ WF_vars(UpdateIndex)

-----------------------------------------------------------------------------
(* Properties.                                                             *)

\* No crate is handed to cargo publish before all it needs is on the index,
\* whichever of them this run, an earlier attempt or another run published: a
\* release never fails for want of a dependency, only by a fault or because
\* another run has uploaded the same crate since it asked (the waits,
\* publish-crates.yaml:84).  A dry run does not wait, and may fail so.
NeverTooEarly == \A a \in attempts : a[2]

\* All crates of a version are published from one commit, the tagged one: two
\* runs on different commits never mix (release.yaml:79-95).
OneCommitPerVersion == \A c \in Published : registry[c] = tag

\* A version that is tagged is released in full in the end, whatever failed on
\* the way, if a run that is not dry is on the tagged commit (the retry that
\* publish-crate-if-needed.sh:2 is made for).
Releasing == \E r \in Runs \ Dry : tag = Commit[r]
ReleaseCompletes == Releasing ~> (index = Crates)

=============================================================================
