------------------------ MODULE PublishPipelineProofs ------------------------
(***************************************************************************)
(* Proofs about PublishPipeline, for any crates and tiers, any overlapping *)
(* runs and any number of faults: all crates of a version come from the    *)
(* tagged commit, the tag is never moved, and no crate is handed to cargo  *)
(* publish before what it needs is on the index.                           *)
(***************************************************************************)
EXTENDS PublishPipeline, SequenceTheorems, TLAPS

\* The phases of the crates job, which is only run once the tag is this commit.
CratesPhases == {"status", "publish", "wait", "crates failed", "announced"}
Phases == CratesPhases \cup {"tag", "push tag", "tag failed"}

IsJob(j) == j \in [Runs -> [phase: Phases, tier: Nat, crate: Nat]]

\* The tag points at the commit of every run that got past it, and at that of
\* every crate that is published.
TagStands ==
    /\ IsJob(job)
    /\ \A r \in Runs : job[r].phase \in CratesPhases => tag = Commit[r]
    /\ registry \in [Crates -> {None, tag}]

LEMMA InitTagStands == Init => TagStands
<1>. SUFFICES ASSUME Init PROVE TagStands
  OBVIOUS
<1>1. IsJob(job) /\ \A r \in Runs : job[r].phase = "tag"
  BY DEF Init, IsJob, At, Phases
<1>2. registry \in [Crates -> {None, tag}]
  BY DEF Init
<1>. QED
  BY <1>1, <1>2 DEF TagStands, CratesPhases

\* A move changes the place of one run.
LEMMA MoveIsLocal ==
  ASSUME NEW r \in Runs, NEW phase \in Phases, NEW tier \in Nat, NEW crate \in Nat,
         IsJob(job), Move(r, phase, tier, crate)
  PROVE  /\ IsJob(job')
         /\ job'[r].phase = phase /\ job'[r].tier = tier /\ job'[r].crate = crate
         /\ \A q \in Runs \ {r} : job'[q] = job[q]
  BY DEF Move, IsJob, At

\* Where Advance goes.
LEMMA AdvanceMoves ==
  ASSUME NEW r \in Runs, IsJob(job), Advance(r)
  PROVE  \E phase \in {"status", "wait", "announced"}, tier \in Nat, crate \in Nat :
            Move(r, phase, tier, crate)
<1>1. job[r].tier + 1 \in Nat /\ job[r].crate + 1 \in Nat /\ job[r].tier \in Nat
  BY DEF IsJob
<1>. QED
  BY <1>1 DEF Advance, NextCrate, EndTier, NextTier, Enter

\* A run that moves within the crates job, or out of the tag job in failure,
\* leaves what is known of the tag as it was.
LEMMA MoveKeepsTag ==
  ASSUME NEW r \in Runs, NEW phase \in Phases, NEW tier \in Nat, NEW crate \in Nat,
         TagStands, Move(r, phase, tier, crate),
         UNCHANGED <<tag, registry>>,
         phase \in CratesPhases => tag = Commit[r]
  PROVE  TagStands'
<1>1. IsJob(job') /\ job'[r].phase = phase /\ \A q \in Runs \ {r} : job'[q] = job[q]
  BY MoveIsLocal DEF TagStands
<1>2. ASSUME NEW q \in Runs, job'[q].phase \in CratesPhases
      PROVE  tag' = Commit[q]
  <2>1. CASE q = r
    BY <1>1, <1>2, <2>1
  <2>2. CASE q # r
    BY <1>1, <1>2, <2>2 DEF TagStands
  <2>. QED
    BY <2>1, <2>2
<1>. QED
  BY <1>1, <1>2 DEF TagStands

LEMMA AdvanceKeepsTag ==
  ASSUME NEW r \in Runs, TagStands, Advance(r), UNCHANGED <<tag, registry>>,
         job[r].phase \in CratesPhases
  PROVE  TagStands'
<1>1. tag = Commit[r]
  BY DEF TagStands
<1>2. PICK phase \in {"status", "wait", "announced"}, tier \in Nat, crate \in Nat :
        Move(r, phase, tier, crate)
  BY AdvanceMoves DEF TagStands
<1>. QED
  BY <1>1, <1>2, MoveKeepsTag DEF Phases, CratesPhases

\* The moves to the first step of a job, and out of it.
LEMMA EnterKeepsTag ==
  ASSUME NEW r \in Runs, NEW phase \in Phases, TagStands, Enter(r, phase),
         UNCHANGED <<tag, registry>>,
         phase \in CratesPhases => tag = Commit[r]
  PROVE  TagStands'
  BY MoveKeepsTag DEF Enter

\* A crate that is published comes from the commit of its run, the tagged one.
LEMMA UploadKeepsTag ==
  ASSUME NEW r \in Runs, NEW c, NEW phase \in CratesPhases, NEW tier \in Nat,
         NEW crate \in Nat, TagStands,
         job[r].phase = "publish", Move(r, phase, tier, crate),
         registry' = [registry EXCEPT ![c] = Commit[r]], UNCHANGED tag
  PROVE  TagStands'
<1>1. tag = Commit[r]
  BY DEF TagStands, CratesPhases
<1>2. IsJob(job') /\ job'[r].phase = phase /\ \A q \in Runs \ {r} : job'[q] = job[q]
  BY MoveIsLocal DEF TagStands, Phases
<1>3. registry' \in [Crates -> {None, tag'}]
  BY <1>1 DEF TagStands
<1>4. ASSUME NEW q \in Runs, job'[q].phase \in CratesPhases
      PROVE  tag' = Commit[q]
  BY <1>1, <1>2, <1>4 DEF TagStands
<1>. QED
  BY <1>2, <1>3, <1>4 DEF TagStands

-----------------------------------------------------------------------------
(* One lemma per action.                                                   *)

LEMMA LookForTagStep ==
  ASSUME NEW r \in Runs, TagStands, LookForTag(r)
  PROVE  TagStands'
<1>1. CASE tag = Commit[r] /\ Enter(r, "status")
  BY <1>1, EnterKeepsTag DEF LookForTag, Phases, CratesPhases
<1>2. CASE Enter(r, "push tag")
  BY <1>2, EnterKeepsTag DEF LookForTag, Phases, CratesPhases
<1>3. CASE Enter(r, "tag failed")
  BY <1>3, EnterKeepsTag DEF LookForTag, Phases, CratesPhases
<1>. QED
  BY <1>1, <1>2, <1>3 DEF LookForTag

\* The one step that sets the tag: before it, no run is past it and nothing is
\* published, or it is where it was.
LEMMA PushTagStep ==
  ASSUME NEW r \in Runs, TagStands, PushTag(r)
  PROVE  TagStands'
<1>1. CASE tag \in {None, Commit[r]}
  <2>1. tag' = Commit[r] /\ Enter(r, "status")
    BY <1>1 DEF PushTag
  <2>2. /\ IsJob(job')
        /\ \A q \in Runs \ {r} : job'[q] = job[q]
    BY <2>1, MoveIsLocal DEF Enter, TagStands, Phases, CratesPhases
  <2>3. \A q \in Runs \ {r} : job[q].phase \in CratesPhases => Commit[q] = tag'
    BY <1>1, <2>1, PipelineAssumption DEF TagStands
  <2>4. \A q \in Runs : job'[q].phase \in CratesPhases => tag' = Commit[q]
    BY <2>1, <2>2, <2>3
  <2>5. registry' \in [Crates -> {None, tag'}]
    BY <1>1, <2>1 DEF PushTag, TagStands
  <2>. QED
    BY <2>2, <2>4, <2>5 DEF TagStands
<1>2. CASE tag \notin {None, Commit[r]}
  BY <1>2, EnterKeepsTag DEF PushTag, Phases, CratesPhases
<1>. QED
  BY <1>1, <1>2

LEMMA AskStatusStep ==
  ASSUME NEW r \in Runs, TagStands, AskStatus(r)
  PROVE  TagStands'
<1>1. CASE Advance(r)
  BY <1>1, AdvanceKeepsTag DEF AskStatus, CratesPhases
<1>2. CASE Move(r, "publish", job[r].tier, job[r].crate)
  <2>1. tag = Commit[r] /\ job[r].tier \in Nat /\ job[r].crate \in Nat
    BY DEF AskStatus, TagStands, IsJob, CratesPhases
  <2>. QED
    BY <1>2, <2>1, MoveKeepsTag DEF AskStatus, Phases, CratesPhases
<1>. QED
  BY <1>1, <1>2 DEF AskStatus

LEMMA CargoPublishStep ==
  ASSUME NEW r \in Runs, TagStands, CargoPublish(r)
  PROVE  TagStands'
<1>. DEFINE c == CrateOf(r)
<1>1. job[r].phase = "publish" /\ UNCHANGED tag
  BY DEF CargoPublish
<1>2. tag = Commit[r]
  BY <1>1 DEF TagStands, CratesPhases
<1>3. CASE registry' = [registry EXCEPT ![c] = Commit[r]] /\ Advance(r)
  <2>1. PICK phase \in {"status", "wait", "announced"}, tier \in Nat, crate \in Nat :
          Move(r, phase, tier, crate)
    BY <1>3, AdvanceMoves DEF TagStands
  <2>. QED
    BY <1>1, <1>3, <2>1, UploadKeepsTag DEF CratesPhases
<1>4. CASE UNCHANGED registry /\ Advance(r)
  BY <1>1, <1>4, AdvanceKeepsTag DEF CratesPhases
<1>5. CASE UNCHANGED registry /\ Enter(r, "crates failed")
  BY <1>1, <1>2, <1>5, EnterKeepsTag DEF Phases, CratesPhases
<1>. QED
  BY <1>3, <1>4, <1>5 DEF CargoPublish

LEMMA LoseAnswerStep ==
  ASSUME NEW r \in Runs, TagStands, LoseAnswer(r)
  PROVE  TagStands'
  BY UploadKeepsTag DEF LoseAnswer, Enter, CratesPhases

LEMMA SeeCrateStep ==
  ASSUME NEW r \in Runs, TagStands, SeeCrate(r)
  PROVE  TagStands'
  BY AdvanceKeepsTag DEF SeeCrate, CratesPhases

LEMMA FailJobStep ==
  ASSUME NEW r \in Runs, TagStands, FailJob(r)
  PROVE  TagStands'
<1>1. CASE job[r].phase \in {"tag", "push tag"}
  <2>1. Enter(r, "tag failed")
    BY <1>1 DEF FailJob
  <2>. QED
    BY <2>1, EnterKeepsTag DEF FailJob, Phases, CratesPhases
<1>2. CASE job[r].phase \in {"status", "publish", "wait"}
  <2>1. tag = Commit[r] /\ Enter(r, "crates failed")
    BY <1>2 DEF FailJob, TagStands, CratesPhases
  <2>. QED
    BY <2>1, EnterKeepsTag DEF FailJob, Phases, CratesPhases
<1>. QED
  BY <1>1, <1>2 DEF FailJob

LEMMA RerunStep ==
  ASSUME NEW r \in Runs, TagStands, Rerun(r)
  PROVE  TagStands'
<1>1. CASE Enter(r, "tag")
  BY <1>1, EnterKeepsTag DEF Rerun, Phases, CratesPhases
<1>2. CASE job[r].phase = "crates failed" /\ Enter(r, "status")
  <2>1. tag = Commit[r]
    BY <1>2 DEF TagStands, CratesPhases
  <2>. QED
    BY <1>2, <2>1, EnterKeepsTag DEF Rerun, Phases, CratesPhases
<1>. QED
  BY <1>1, <1>2 DEF Rerun

LEMMA StepKeepsTag == TagStands /\ [Next]_vars => TagStands'
<1>. SUFFICES ASSUME TagStands, [Next]_vars PROVE TagStands'
  OBVIOUS
<1>1. ASSUME NEW r \in Runs, Step(r) PROVE TagStands'
  BY <1>1, LookForTagStep, PushTagStep, AskStatusStep, CargoPublishStep, SeeCrateStep DEF Step
<1>2. ASSUME NEW r \in Runs, LoseAnswer(r) \/ FailJob(r) \/ Rerun(r) PROVE TagStands'
  BY <1>2, LoseAnswerStep, FailJobStep, RerunStep
<1>3. CASE UpdateIndex
  BY <1>3 DEF UpdateIndex, TagStands
<1>4. CASE UNCHANGED vars
  BY <1>4 DEF vars, TagStands
<1>. QED
  BY <1>1, <1>2, <1>3, <1>4 DEF Next

-----------------------------------------------------------------------------

\* The tag is where every run that got past it, and every crate, came from.
THEOREM TagInvariant == Spec => []TagStands
  BY InitTagStands, StepKeepsTag, PTL DEF Spec

\* OneCommitPerVersion for any runs on any commits: whichever of them tag, fail,
\* are run again and publish, all crates come from the tagged commit.
THEOREM OneCommit == Spec => []OneCommitPerVersion
<1>1. TagStands => OneCommitPerVersion
  BY DEF TagStands, OneCommitPerVersion, Published
<1>. QED
  BY <1>1, TagInvariant, PTL

\* A tag is never moved once it is there (release.yaml:83-87, and git push).
THEOREM TagIsFinal == Spec => [][tag # None => tag' = tag]_vars
<1>1. ASSUME [Next]_vars, tag # None PROVE tag' = tag
  <2>1. ASSUME NEW r \in Runs, Step(r) PROVE tag' = tag
    <3>1. CASE PushTag(r)
      BY <1>1, <3>1 DEF PushTag
    <3>2. CASE LookForTag(r) \/ AskStatus(r) \/ CargoPublish(r) \/ SeeCrate(r)
      BY <3>2 DEF LookForTag, AskStatus, CargoPublish, SeeCrate
    <3>. QED
      BY <2>1, <3>1, <3>2 DEF Step
  <2>2. ASSUME NEW r \in Runs, LoseAnswer(r) \/ FailJob(r) \/ Rerun(r) PROVE tag' = tag
    BY <2>2 DEF LoseAnswer, FailJob, Rerun
  <2>3. CASE UpdateIndex \/ UNCHANGED vars
    BY <2>3 DEF UpdateIndex, vars
  <2>. QED
    BY <1>1, <2>1, <2>2, <2>3 DEF Next
<1>2. [Next]_vars => [tag # None => tag' = tag]_vars
  BY <1>1
<1>. QED
  BY <1>2, PTL DEF Spec

-----------------------------------------------------------------------------
(* No crate is published too early.                                        *)

\* The phases of a run that is at a crate of a tier.
Working == {"status", "publish", "wait"}

\* A run is at a crate there is; one that is not dry has seen all crates of the
\* earlier tiers on the index and, while it waits for a tier, those of this tier
\* it waited for before.
Placed(r, place, indexed) ==
    place.phase \in Working =>
        /\ place.tier \in DOMAIN Tiers
        /\ place.crate \in DOMAIN Tiers[place.tier]
        /\ place.phase = "wait" => place.tier < Len(Tiers)
        /\ r \notin Dry =>
              /\ \A t \in 1..(place.tier - 1) : TierCrates(t) \subseteq indexed
              /\ place.phase = "wait" =>
                    \A i \in 1..(place.crate - 1) : Tiers[place.tier][i] \in indexed

InOrder ==
    /\ IsJob(job)
    /\ \A r \in Runs : Placed(r, job[r], index)
    /\ NeverTooEarly

LEMMA TierLengths ==
    /\ Len(Tiers) \in Nat \ {0} /\ DOMAIN Tiers = 1..Len(Tiers)
    /\ \A t \in DOMAIN Tiers :
          Len(Tiers[t]) \in Nat \ {0} /\ DOMAIN Tiers[t] = 1..Len(Tiers[t])
<1>1. Len(Tiers) \in Nat \ {0} /\ DOMAIN Tiers = 1..Len(Tiers)
  BY TierAssumption, LenProperties, EmptySeq
<1>2. ASSUME NEW t \in DOMAIN Tiers
      PROVE  Len(Tiers[t]) \in Nat \ {0} /\ DOMAIN Tiers[t] = 1..Len(Tiers[t])
  <2>1. Tiers[t] \in Seq(Crates) /\ Tiers[t] # <<>>
    BY <1>1, TierAssumption, ElementOfSeq
  <2>. QED
    BY <2>1, LenProperties, EmptySeq
<1>. QED
  BY <1>1, <1>2

LEMMA MoveInOrder ==
  ASSUME NEW r \in Runs, NEW phase \in Phases, NEW tier \in Nat, NEW crate \in Nat,
         InOrder, Move(r, phase, tier, crate), index \subseteq index',
         NeverTooEarly', Placed(r, At(phase, tier, crate), index')
  PROVE  InOrder'
<1>1. IsJob(job') /\ \A q \in Runs \ {r} : job'[q] = job[q]
  BY MoveIsLocal DEF InOrder
<1>2. job'[r] = At(phase, tier, crate)
  BY DEF Move, InOrder, IsJob
<1>3. ASSUME NEW q \in Runs, q # r PROVE Placed(q, job'[q], index')
  <2>1. Placed(q, job[q], index) /\ job'[q] = job[q]
    BY <1>1, <1>3 DEF InOrder
  <2>. QED
    BY <2>1 DEF Placed
<1>4. \A q \in Runs : Placed(q, job'[q], index')
  BY <1>2, <1>3
<1>. QED
  BY <1>1, <1>4 DEF InOrder

\* A job begins with nothing to have waited for.
LEMMA EnterInOrder ==
  ASSUME NEW r \in Runs, NEW phase \in Phases \ {"publish", "wait"},
         InOrder, Enter(r, phase), UNCHANGED index, NeverTooEarly'
  PROVE  InOrder'
<1>1. Placed(r, At(phase, 1, 1), index')
  BY TierLengths DEF Placed, At, Working
<1>. QED
  BY <1>1, MoveInOrder DEF Enter

\* The next tier begins only when all of this one has been seen.
LEMMA AdvanceInOrder ==
  ASSUME NEW r \in Runs, InOrder, Advance(r), job[r].phase \in Working,
         UNCHANGED index, NeverTooEarly',
         job[r].phase = "wait" /\ r \notin Dry => CrateOf(r) \in index
  PROVE  InOrder'
<1>. DEFINE tier == job[r].tier
            crate == job[r].crate
            wait == job[r].phase = "wait"
<1>1. /\ tier \in 1..Len(Tiers) /\ Len(Tiers) \in Nat
      /\ crate \in 1..Len(Tiers[tier]) /\ Len(Tiers[tier]) \in Nat
      /\ wait => tier < Len(Tiers)
      /\ r \notin Dry => \A t \in 1..(tier - 1) : TierCrates(t) \subseteq index
      /\ r \notin Dry /\ wait => \A i \in 1..crate : Tiers[tier][i] \in index
  <2>1. Placed(r, job[r], index)
    BY DEF InOrder
  <2>2. tier \in DOMAIN Tiers /\ crate \in DOMAIN Tiers[tier]
    BY <2>1 DEF Placed
  <2>3. \A i \in 1..crate : i \in 1..(crate - 1) \/ i = crate
    BY <2>2, TierLengths
  <2>. QED
    BY <2>1, <2>2, <2>3, TierLengths DEF Placed, CrateOf
<1>2. CASE ~LastOfTier(r) /\ NextCrate(r)
  <2>. DEFINE phase == IF wait THEN "wait" ELSE "status"
  <2>1. Move(r, phase, tier, crate + 1) /\ crate + 1 \in 1..Len(Tiers[tier])
    BY <1>1, <1>2 DEF LastOfTier, NextCrate
  <2>2. phase \in {"wait", "status"} /\ (phase = "wait" <=> wait)
    OBVIOUS
  <2>3. tier \in Nat /\ crate + 1 \in Nat /\ (crate + 1) - 1 = crate
    BY <1>1
  <2>. HIDE DEF phase, tier, crate, wait
  <2>4. Placed(r, At(phase, tier, crate + 1), index)
    BY <1>1, <2>1, <2>2, <2>3, TierLengths DEF Placed, At
  <2>. QED
    BY <2>1, <2>2, <2>3, <2>4, MoveInOrder DEF Phases, CratesPhases
<1>3. CASE ~wait /\ EndTier(r)
  <2>1. CASE tier < Len(Tiers) /\ Move(r, "wait", tier, 1)
    <3>1. tier \in Nat /\ 1 \in 1..Len(Tiers[tier])
      BY <1>1
    <3>. HIDE DEF tier, crate, wait
    <3>2. Placed(r, At("wait", tier, 1), index)
      BY <1>1, <2>1, <3>1, TierLengths DEF Placed, At
    <3>. QED
      BY <2>1, <3>1, <3>2, MoveInOrder DEF Phases, CratesPhases
  <2>2. CASE Enter(r, "announced")
    BY <2>2, EnterInOrder DEF Phases, CratesPhases
  <2>. QED
    BY <1>3, <2>1, <2>2 DEF EndTier
<1>4. CASE LastOfTier(r) /\ wait /\ NextTier(r)
  <2>1. crate = Len(Tiers[tier]) /\ Move(r, "status", tier + 1, 1)
    BY <1>4 DEF LastOfTier, NextTier
  <2>2. tier + 1 \in 1..Len(Tiers) /\ (tier + 1) - 1 = tier /\ tier + 1 \in Nat
    BY <1>1, <1>4
  <2>3. r \notin Dry => \A t \in 1..tier : TierCrates(t) \subseteq index
    <3>1. r \notin Dry => TierCrates(tier) \subseteq index
      BY <1>1, <1>4, <2>1, TierLengths DEF TierCrates
    <3>2. \A t \in 1..tier : t \in 1..(tier - 1) \/ t = tier
      BY <1>1
    <3>. QED
      BY <1>1, <3>1, <3>2
  <2>. HIDE DEF tier, crate, wait
  <2>4. Placed(r, At("status", tier + 1, 1), index)
    BY <2>2, <2>3, TierLengths DEF Placed, At
  <2>. QED
    BY <2>1, <2>2, <2>4, MoveInOrder DEF Phases, CratesPhases
<1>. QED
  BY <1>2, <1>3, <1>4 DEF Advance

\* What cargo publish needs was waited for: it is in an earlier tier.
LEMMA NeedsAreIndexed ==
  ASSUME NEW r \in Runs \ Dry, InOrder, job[r].phase = "publish"
  PROVE  Deps[CrateOf(r)] \subseteq index
<1>1. /\ job[r].tier \in DOMAIN Tiers
      /\ job[r].crate \in DOMAIN Tiers[job[r].tier]
      /\ \A t \in 1..(job[r].tier - 1) : TierCrates(t) \subseteq index
  BY DEF InOrder, Placed, Working
<1>2. CrateOf(r) \in TierCrates(job[r].tier)
  BY <1>1 DEF CrateOf, TierCrates
<1>3. \A d \in Deps[CrateOf(r)] :
        \E u \in 1..(job[r].tier - 1) : d \in TierCrates(u)
  BY <1>1, <1>2, TierAssumption
<1>. QED
  BY <1>1, <1>3

\* An attempt that was not too early.
LEMMA OneMoreInTime ==
  ASSUME NeverTooEarly, NEW c, attempts' = attempts \cup {<<c, TRUE>>}
  PROVE  NeverTooEarly'
<1>1. <<c, TRUE>>[2] = TRUE
  OBVIOUS
<1>2. \A a \in attempts' : a \in attempts \/ a = <<c, TRUE>>
  OBVIOUS
<1>3. \A a \in attempts' : a[2]
  BY <1>1, <1>2, Zenon DEF NeverTooEarly
<1>. QED
  BY <1>3, Zenon DEF NeverTooEarly

LEMMA CargoPublishInOrder ==
  ASSUME NEW r \in Runs, InOrder, CargoPublish(r)
  PROVE  InOrder'
<1>1. job[r].phase = "publish" /\ UNCHANGED index
  BY DEF CargoPublish
<1>2. NeverTooEarly'
  <2>1. CASE r \in Dry
    BY <2>1 DEF CargoPublish, InOrder, NeverTooEarly
  <2>2. CASE r \notin Dry
    <3>1. (Deps[CrateOf(r)] \subseteq index) = TRUE
      BY <1>1, <2>2, NeedsAreIndexed
    <3>2. attempts' = attempts \cup {<<CrateOf(r), TRUE>>}
      BY <2>2, <3>1 DEF CargoPublish
    <3>. QED
      BY <3>2, OneMoreInTime, Zenon DEF InOrder
  <2>. QED
    BY <2>1, <2>2
<1>3. CASE Advance(r)
  BY <1>1, <1>2, <1>3, AdvanceInOrder DEF Working
<1>4. CASE Enter(r, "crates failed")
  BY <1>1, <1>2, <1>4, EnterInOrder DEF Phases, CratesPhases
<1>. QED
  BY <1>3, <1>4 DEF CargoPublish

LEMMA AskStatusInOrder ==
  ASSUME NEW r \in Runs, InOrder, AskStatus(r)
  PROVE  InOrder'
<1>1. job[r].phase = "status" /\ UNCHANGED <<index, attempts>> /\ NeverTooEarly'
  BY DEF AskStatus, InOrder, NeverTooEarly
<1>2. CASE Advance(r)
  BY <1>1, <1>2, AdvanceInOrder DEF Working
<1>3. CASE Move(r, "publish", job[r].tier, job[r].crate)
  <2>1. job[r].tier \in Nat /\ job[r].crate \in Nat
    BY DEF InOrder, IsJob
  <2>2. Placed(r, At("publish", job[r].tier, job[r].crate), index)
    BY <1>1 DEF InOrder, Placed, At, Working
  <2>. QED
    BY <1>1, <1>3, <2>1, <2>2, MoveInOrder DEF Phases, CratesPhases
<1>. QED
  BY <1>2, <1>3 DEF AskStatus

LEMMA StepInOrder == InOrder /\ [Next]_vars => InOrder'
<1>. SUFFICES ASSUME InOrder, [Next]_vars PROVE InOrder'
  OBVIOUS
<1>. USE DEF Phases, CratesPhases
<1>1. UNCHANGED attempts => NeverTooEarly'
  BY DEF InOrder, NeverTooEarly
<1>2. ASSUME NEW r \in Runs, Step(r) PROVE InOrder'
  <2>1. CASE LookForTag(r) \/ PushTag(r)
    BY <1>1, <2>1, EnterInOrder DEF LookForTag, PushTag
  <2>2. CASE SeeCrate(r)
    BY <1>1, <2>2, AdvanceInOrder DEF SeeCrate, Working
  <2>. QED
    BY <1>2, <2>1, <2>2, AskStatusInOrder, CargoPublishInOrder DEF Step
<1>3. ASSUME NEW r \in Runs, LoseAnswer(r) PROVE InOrder'
  <2>1. NeverTooEarly'
    BY <1>3, OneMoreInTime, Zenon DEF LoseAnswer, InOrder
  <2>. QED
    BY <1>3, <2>1, EnterInOrder DEF LoseAnswer
<1>4. ASSUME NEW r \in Runs, FailJob(r) \/ Rerun(r) PROVE InOrder'
  <2>1. CASE FailJob(r)
    BY <1>1, <2>1, EnterInOrder DEF FailJob
  <2>2. CASE Rerun(r)
    BY <1>1, <2>2, EnterInOrder DEF Rerun
  <2>. QED
    BY <1>4, <2>1, <2>2
<1>5. CASE UpdateIndex
  <2>1. index \subseteq index' /\ UNCHANGED <<job, attempts>>
    BY <1>5 DEF UpdateIndex
  <2>. QED
    BY <1>1, <2>1 DEF InOrder, Placed
<1>6. CASE UNCHANGED vars
  BY <1>1, <1>6 DEF vars, InOrder, Placed
<1>. QED
  BY <1>2, <1>3, <1>4, <1>5, <1>6 DEF Next

\* Whatever fails, is run again or runs at the same time, what a crate needs is
\* on the index before the crate is handed to cargo publish.
THEOREM EveryNeedIndexed == Spec => []NeverTooEarly
<1>1. Init => InOrder
  <2>1. Init => IsJob(job) /\ \A r \in Runs : job[r].phase = "tag"
    BY DEF Init, IsJob, At, Phases
  <2>. QED
    BY <2>1 DEF Init, InOrder, Placed, Working, NeverTooEarly
<1>2. InOrder => NeverTooEarly
  BY DEF InOrder
<1>. QED
  BY <1>1, <1>2, StepInOrder, PTL DEF Spec

=============================================================================
