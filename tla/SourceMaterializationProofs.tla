--------------------- MODULE SourceMaterializationProofs ---------------------
(***************************************************************************)
(* Theorems about SourceMaterialization, for any pins, checkouts and       *)
(* archives, any number of download attempts, and any number of kills and  *)
(* failures.  IndInv is proved inductive action by action; the properties  *)
(* are conjuncts of it.                                                    *)
(*                                                                         *)
(* And, after them, about ArchiveExtraction, which fills the directory     *)
(* that SourceMaterialization renames into place: for any archives, any    *)
(* number of entries and any limit on the length of a walk.                *)
(***************************************************************************)
EXTENDS SourceMaterialization, ArchiveExtraction, SequenceTheorems,
        FiniteSetTheorems, WellFoundedInduction, TLAPS

\* Init establishes the inductive invariant: nothing is on disk yet.
LEMMA InitIndInv == Init => IndInv
  <1> SUFFICES ASSUME Init PROVE IndInv
    OBVIOUS
  <1>1. NoTree \in Tree
    BY DEF NoTree, Tree
  <1>2. build \in Builds
    BY MaterializationAssumption DEF Init, NewBuild, Builds
  <1>3. TypeOK
    BY <1>1, <1>2, MaterializationAssumption DEF Init, TypeOK, Labels
  <1>4. dst.stamp = None /\ tmp.stamp = None /\ pc = "idle" /\ outcome = "none"
    BY DEF Init, NoTree
  <1>5. None \notin Pins
    BY MaterializationAssumption DEF Sources
  <1> QED
    BY <1>3, <1>4, <1>5 DEF IndInv, StampNamesOrigin, RightSource, FreshIsWhole

\* Editing the lock or the variable disturbs nothing a running build relies on:
\* the build goes by what it read when it started.
LEMMA EditKeepsIndInv == IndInv /\ Edit => IndInv'
  <1> SUFFICES ASSUME IndInv, Edit PROVE IndInv'
    OBVIOUS
  <1>1. UNCHANGED <<dst, tmp, pc, build, outcome, faults>>
    BY DEF Edit, Repin, SetOverride
  <1>2. lock' \in Pins \cup {None} /\ override' \in Overrides \cup {None, Missing}
    BY DEF IndInv, TypeOK, Edit, Repin, SetOverride
  <1>3. TypeOK'
    BY <1>1, <1>2 DEF IndInv, TypeOK
  <1> QED
    BY <1>1, <1>3 DEF IndInv, StampNamesOrigin, RightSource, FreshIsWhole, Wanted, InHand

LEMMA BeginKeepsIndInv == IndInv /\ Begin => IndInv'
  <1> SUFFICES ASSUME IndInv, Begin PROVE IndInv'
    OBVIOUS
  <1>1. build' \in Builds
    BY MaterializationAssumption DEF IndInv, TypeOK, Begin, NewBuild, Builds
  <1>2. TypeOK'
    BY <1>1 DEF IndInv, TypeOK, Begin, Labels
  <1>3. ~build'.reused
    BY DEF Begin, NewBuild
  <1> QED
    BY <1>2, <1>3 DEF IndInv, Begin, StampNamesOrigin, RightSource, FreshIsWhole

\* A reused tree is the wanted one because its stamp names its origin.
LEMMA ResolveKeepsIndInv == IndInv /\ Resolve => IndInv'
  <1> SUFFICES ASSUME IndInv, Resolve PROVE IndInv'
    OBVIOUS
  <1> USE DEF IndInv, TypeOK, Resolve
  <1>1. UNCHANGED <<dst, tmp, lock, override, faults>>
    OBVIOUS
  <1>2. CASE (build.from = Missing \/ (build.from = None /\ build.pin = None)) /\ End("failed") /\ UNCHANGED build
    BY <1>1, <1>2 DEF End, StampNamesOrigin, RightSource, FreshIsWhole, Labels
  <1>3. CASE /\ build.from = None /\ build.pin # None /\ StampMatches
             /\ build' = [build EXCEPT !.reused = TRUE] /\ End("ok")
    <2>1. build' \in Builds /\ build'.from = None /\ build'.pin = build.pin /\ build'.reused
      BY <1>3 DEF Builds
    <2>2. build.pin \in Pins
      BY <1>3 DEF Builds
    <2>3. dst.origin = build.pin
      BY <1>3, <2>2 DEF StampMatches, StampNamesOrigin
    <2> QED
      BY <1>1, <1>3, <2>1, <2>3 DEF End, StampNamesOrigin, RightSource, FreshIsWhole, Labels, Wanted
  <1>4. CASE build.from = None /\ build.pin # None /\ pc' = "stale" /\ UNCHANGED <<build, outcome>>
    BY <1>1, <1>4, MaterializationAssumption
       DEF StampNamesOrigin, RightSource, FreshIsWhole, Labels
  <1>5. CASE build.from \in Overrides /\ pc' = "stale" /\ UNCHANGED <<build, outcome>>
    BY <1>1, <1>5, MaterializationAssumption
       DEF StampNamesOrigin, RightSource, FreshIsWhole, Labels, Sources, Overrides
  <1> QED
    BY <1>2, <1>3, <1>4, <1>5

LEMMA RemoveStaleKeepsIndInv == IndInv /\ RemoveStale => IndInv'
  <1> SUFFICES ASSUME IndInv, RemoveStale PROVE IndInv'
    OBVIOUS
  <1> USE DEF IndInv, TypeOK, RemoveStale
  <1>1. UNCHANGED <<tmp, lock, override, build, outcome, faults>>
    OBVIOUS
  <1>2. None \notin Pins
    BY MaterializationAssumption DEF Sources
  <1>3. dst' \in Tree /\ StampNamesOrigin'
    <2>1. CASE dst' = NoTree
      BY <1>2, <2>1 DEF NoTree, Tree, StampNamesOrigin
    <2>2. CASE dst' = [dst EXCEPT !.state = "partial"]
      BY <2>2 DEF Tree, StampNamesOrigin
    <2>3. CASE dst' = [dst EXCEPT !.state = "partial", !.stamp = None]
      BY <1>2, <2>3 DEF Tree, StampNamesOrigin
    <2> QED
      BY <2>1, <2>2, <2>3
  <1>4. CASE pc' = IF build.from = None THEN "fetch" ELSE "prepare"
    BY <1>1, <1>3, <1>4 DEF RightSource, FreshIsWhole, Labels, Wanted, InHand
  <1>5. CASE UNCHANGED pc
    BY <1>1, <1>3, <1>5 DEF RightSource, FreshIsWhole, Labels, Wanted, InHand
  <1> QED
    BY <1>4, <1>5

\* Only bytes that pass the checksum leave the download.
LEMMA FetchKeepsIndInv == IndInv /\ Fetch => IndInv'
  <1> SUFFICES ASSUME IndInv, Fetch PROVE IndInv'
    OBVIOUS
  <1> USE DEF IndInv, TypeOK, Fetch
  <1>1. UNCHANGED <<dst, tmp, lock, override>> /\ pc = "fetch"
    OBVIOUS
  <1>2. CASE \E bytes \in Pins \cup {Garbage} :
                /\ Verified(bytes)
                /\ build' = [build EXCEPT !.bytes = bytes]
                /\ pc' = "prepare"
                /\ UNCHANGED <<outcome, faults>>
    <2>1. build' \in Builds /\ build'.from = build.from /\ build'.pin = build.pin
            /\ build'.bytes = build.pin /\ build'.reused = build.reused
      BY <1>2 DEF Builds, Verified
    <2> QED
      BY <1>1, <1>2, <2>1 DEF StampNamesOrigin, RightSource, FreshIsWhole, Labels, Wanted, InHand
  <1>3. CASE Fault /\ End("failed") /\ UNCHANGED build
    <2>1. faults' \in 0..MaxFaults
      BY <1>3, MaterializationAssumption DEF Fault
    <2> QED
      BY <1>1, <1>3, <2>1 DEF End, StampNamesOrigin, RightSource, FreshIsWhole, Labels
  <1>4. CASE ~LastAttempt /\ Fault /\ build' = [build EXCEPT !.attempt = @ + 1]
               /\ UNCHANGED <<pc, outcome>>
    <2>1. faults' \in 0..MaxFaults
      BY <1>4, MaterializationAssumption DEF Fault
    <2>2. build.attempt + 1 \in 1..Attempts
      BY <1>4, MaterializationAssumption DEF Builds, LastAttempt
    <2>3. build' \in Builds /\ build'.from = build.from /\ build'.pin = build.pin
            /\ build'.reused = build.reused
      BY <1>4, <2>2 DEF Builds
    <2> QED
      BY <1>1, <1>4, <2>1, <2>3 DEF StampNamesOrigin, RightSource, FreshIsWhole, Labels, Wanted
  <1> QED
    BY <1>2, <1>3, <1>4

LEMMA PrepareKeepsIndInv == IndInv /\ Prepare => IndInv'
  <1> SUFFICES ASSUME IndInv, Prepare PROVE IndInv'
    OBVIOUS
  <1> USE DEF IndInv, TypeOK, Prepare
  <1>1. UNCHANGED <<dst, lock, override, build, outcome, faults>>
    OBVIOUS
  <1>2. CASE tmp' = Filling(InHand) /\ pc' = "fill"
    <2>1. InHand \in Sources \cup {None, Garbage}
      BY DEF InHand, Builds, Sources
    <2>2. tmp' \in Tree /\ tmp'.stamp = None /\ tmp'.origin = InHand
      BY <1>2, <2>1 DEF Filling, Tree
    <2> QED
      BY <1>1, <1>2, <2>2 DEF StampNamesOrigin, RightSource, FreshIsWhole, Labels, Wanted, InHand
  <1>3. CASE tmp' = [tmp EXCEPT !.state = "partial"] /\ UNCHANGED pc
    <2>1. tmp' \in Tree /\ tmp'.stamp = None
      BY <1>3 DEF Tree
    <2> QED
      BY <1>1, <1>3, <2>1 DEF StampNamesOrigin, RightSource, FreshIsWhole, Labels, Wanted, InHand
  <1> QED
    BY <1>2, <1>3

LEMMA FillKeepsIndInv == IndInv /\ Fill => IndInv'
  <1> SUFFICES ASSUME IndInv, Fill PROVE IndInv'
    OBVIOUS
  <1> USE DEF IndInv, TypeOK, Fill
  <1>1. tmp' \in Tree /\ tmp'.stamp = None /\ tmp'.origin = tmp.origin /\ tmp'.state = "whole"
    BY DEF Tree
  <1> QED
    BY <1>1 DEF StampNamesOrigin, RightSource, FreshIsWhole, Labels, Wanted, InHand

\* The rename is where the destination becomes whole.
LEMMA InstallKeepsIndInv == IndInv /\ Install => IndInv'
  <1> SUFFICES ASSUME IndInv, Install PROVE IndInv'
    OBVIOUS
  <1> USE DEF IndInv, TypeOK, Install
  <1>1. UNCHANGED <<lock, override, build, faults>>
    OBVIOUS
  <1>2. None \notin Pins
    BY MaterializationAssumption DEF Sources
  <1>3. /\ dst' \in Tree /\ tmp' \in Tree /\ tmp'.stamp = None
        /\ dst'.state = "whole" /\ dst'.origin = Wanted /\ dst'.stamp = None
    BY DEF NoTree, Tree
  <1>4. Wanted' = Wanted
    BY <1>1 DEF Wanted
  <1>5. CASE build.from = None
    BY <1>1, <1>2, <1>3, <1>4, <1>5
       DEF Finish, End, StampNamesOrigin, RightSource, FreshIsWhole, Labels
  <1>6. CASE build.from # None
    BY <1>1, <1>2, <1>3, <1>4, <1>6
       DEF Finish, End, StampNamesOrigin, RightSource, FreshIsWhole, Labels
  <1> QED
    BY <1>5, <1>6

\* The stamp goes from nothing over torn to the pin the tree came from.
LEMMA StampingKeepsIndInv == IndInv /\ (TruncateStamp \/ WriteStamp) => IndInv'
  <1> SUFFICES ASSUME IndInv, TruncateStamp \/ WriteStamp PROVE IndInv'
    OBVIOUS
  <1> USE DEF IndInv, TypeOK
  <1>1. CASE TruncateStamp
    <2>1. Torn \notin Pins
      BY MaterializationAssumption DEF Sources
    <2>2. dst' \in Tree /\ dst'.state = dst.state /\ dst'.origin = dst.origin /\ dst'.stamp = Torn
      BY <1>1 DEF TruncateStamp, Tree
    <2> QED
      BY <1>1, <2>1, <2>2
         DEF TruncateStamp, StampNamesOrigin, RightSource, FreshIsWhole, Labels, Wanted
  <1>2. CASE WriteStamp
    <2>1. build.pin \in Pins /\ build.from = None
      BY <1>2 DEF WriteStamp, Builds
    <2>2. /\ dst' \in Tree /\ dst'.state = "whole" /\ dst'.origin = build.pin
          /\ dst'.stamp = build.pin
      BY <1>2, <2>1 DEF WriteStamp, Tree, Wanted
    <2> QED
      BY <1>2, <2>1, <2>2
         DEF WriteStamp, End, StampNamesOrigin, RightSource, FreshIsWhole, Labels, Wanted
  <1> QED
    BY <1>1, <1>2

\* A build that stops claims nothing about what it leaves on disk.
LEMMA FailureKeepsIndInv == IndInv /\ (UnpackFails \/ Interrupt) => IndInv'
  <1> SUFFICES ASSUME IndInv, UnpackFails \/ Interrupt PROVE IndInv'
    OBVIOUS
  <1> USE DEF IndInv, TypeOK
  <1>1. faults' \in 0..MaxFaults
    BY MaterializationAssumption DEF UnpackFails, Interrupt, Fault
  <1>2. NoTree \in Tree /\ NoTree.stamp = None
    BY DEF NoTree, Tree
  <1>3. CASE UnpackFails
    BY <1>1, <1>2, <1>3
       DEF UnpackFails, End, StampNamesOrigin, RightSource, FreshIsWhole, Labels
  <1>4. CASE Interrupt
    BY <1>1, <1>4 DEF Interrupt, End, StampNamesOrigin, RightSource, FreshIsWhole, Labels
  <1> QED
    BY <1>3, <1>4

LEMMA NextKeepsIndInv == IndInv /\ [Next]_vars => IndInv'
  <1> SUFFICES ASSUME IndInv, [Next]_vars PROVE IndInv'
    OBVIOUS
  <1>1. CASE Edit
    BY <1>1, EditKeepsIndInv
  <1>2. CASE Begin
    BY <1>2, BeginKeepsIndInv
  <1>3. CASE BuildStep
    BY <1>3, ResolveKeepsIndInv, RemoveStaleKeepsIndInv, FetchKeepsIndInv,
       PrepareKeepsIndInv, FillKeepsIndInv, InstallKeepsIndInv, StampingKeepsIndInv
       DEF BuildStep
  <1>4. CASE UnpackFails \/ Interrupt
    BY <1>4, FailureKeepsIndInv
  <1>5. CASE UNCHANGED vars
    BY <1>5 DEF vars, IndInv, TypeOK, StampNamesOrigin, RightSource, FreshIsWhole, Wanted, InHand
  <1> QED
    BY <1>1, <1>2, <1>3, <1>4, <1>5 DEF Next

\* IndInv holds in every state of every behaviour of the build script.
THEOREM IndInvAlways == Spec => []IndInv
  <1>1. Init => IndInv
    BY InitIndInv
  <1>2. IndInv /\ [Next]_vars => IndInv'
    BY NextKeepsIndInv
  <1> QED
    BY <1>1, <1>2, PTL DEF Spec

\* Type correctness of the materialisation of the espeak-ng source.
THEOREM TypeCorrect == Spec => []TypeOK
  <1>1. IndInv => TypeOK
    BY DEF IndInv
  <1> QED
    BY <1>1, IndInvAlways, PTL

\* However many builds were killed or raced by edits of their inputs, the stamp
\* of a tree names the pin its files came from.
THEOREM StampIsTrue == Spec => []StampNamesOrigin
  <1>1. IndInv => StampNamesOrigin
    BY DEF IndInv
  <1> QED
    BY <1>1, IndInvAlways, PTL

\* No build compiles the source of another pin or override.
THEOREM BuildsWhatWasAsked == Spec => []RightSource
  <1>1. IndInv => RightSource
    BY DEF IndInv
  <1> QED
    BY <1>1, IndInvAlways, PTL

\* A tree a build materialised itself is complete when the build goes on.
THEOREM FreshTreesAreWhole == Spec => []FreshIsWhole
  <1>1. IndInv => FreshIsWhole
    BY DEF IndInv
  <1> QED
    BY <1>1, IndInvAlways, PTL

\* The destination appears complete, in one step, by the rename.
THEOREM InstalledInOneStep == Spec => InstalledWhole
  <1> DEFINE A == dst'.state # "absent" /\ dst.state = "absent" => dst'.state = "whole"
  <1>1. IndInv /\ [Next]_vars => [A]_vars
    <2> SUFFICES ASSUME IndInv, Next, dst'.state # "absent", dst.state = "absent"
                 PROVE  dst'.state = "whole"
      BY DEF vars
    <2>1. CASE Edit
      BY <2>1 DEF Edit, Repin, SetOverride
    <2>2. CASE Begin \/ Resolve \/ Fetch \/ Prepare \/ Fill \/ UnpackFails \/ Interrupt
      BY <2>2 DEF Begin, Resolve, Fetch, Prepare, Fill, UnpackFails, Interrupt
    <2>3. CASE RemoveStale
      BY <2>3 DEF RemoveStale, NoTree
    <2>4. CASE Install
      BY <2>4 DEF Install, IndInv
    <2>5. CASE TruncateStamp \/ WriteStamp
      BY <2>5 DEF TruncateStamp, WriteStamp, IndInv
    <2> QED
      BY <2>1, <2>2, <2>3, <2>4, <2>5 DEF Next, BuildStep
  <1> QED
    BY <1>1, IndInvAlways, PTL DEF Spec, InstalledWhole

-----------------------------------------------------------------------------
(* The extraction of an archive.                                           *)

\* A set of numbers that has 0 and each successor has them all.
LEMMA SetInduction ==
    ASSUME NEW S \in SUBSET Nat, 0 \in S, \A n \in S : n + 1 \in S
    PROVE  S = Nat
<1> SUFFICES ASSUME Nat \ S # {} PROVE FALSE
  OBVIOUS
<1> DEFINE less == OpToRel(<, Nat)
<1>1. IsWellFoundedOn(less, Nat)
  BY NatLessThanWellFounded, Zenon
<1>2. PICK n \in Nat \ S : \A m \in Nat \ S : <<m, n>> \notin less
  <2>1. Nat \ S \subseteq Nat
    OBVIOUS
  <2> HIDE DEF less
  <2> QED BY <1>1, <2>1, WFMin
<1>3. \A m \in Nat : m < n => m \in S
  BY <1>2 DEF OpToRel
<1>4. n - 1 \in S /\ n = (n - 1) + 1
  BY <1>3
<1> QED BY <1>4

-----------------------------------------------------------------------------
(* Walks.  Walk is a recursive function, chosen by CHOOSE: that there is    *)
(* one, and what holds of each step of it, are inductions over its length.  *)

StartOf(path) == [at |-> <<>>, todo |-> path, status |-> "walking"]

IsWalk(f, path, n) ==
    f = [i \in 0..n |-> IF i = 0 THEN StartOf(path) ELSE WalkStep(f[i - 1])]

LEMMA WalkIsLast ==
    ASSUME NEW path
    PROVE  Walk(path) = (CHOOSE f : IsWalk(f, path, MaxWalk))[MaxWalk]
BY DEF Walk, IsWalk, StartOf

\* Steps can be taken one after the other.
LEMMA WalkExists ==
    ASSUME NEW path, NEW n \in Nat
    PROVE  \E f : IsWalk(f, path, n)
<1> DEFINE Has(k) == \E f : IsWalk(f, path, k)
           Good == {k \in Nat : Has(k)}
<1>1. 0 \in Good
  <2>1. IsWalk([i \in 0..0 |-> StartOf(path)], path, 0)
    BY DEF IsWalk
  <2> QED BY <2>1
<1>2. ASSUME NEW k \in Good PROVE k + 1 \in Good
  <2>1. PICK f : IsWalk(f, path, k)
    OBVIOUS
  <2> DEFINE g == [i \in 0..(k + 1) |-> IF i = k + 1 THEN WalkStep(f[k]) ELSE f[i]]
  <2>2. ASSUME NEW i \in 0..(k + 1)
        PROVE  g[i] = IF i = 0 THEN StartOf(path) ELSE WalkStep(g[i - 1])
    <3>1. CASE i = 0
      <4>1. 0 \in 0..k /\ g[0] = f[0]
        OBVIOUS
      <4>2. f[0] = StartOf(path)
        BY <2>1, <4>1 DEF IsWalk
      <4> HIDE DEF g
      <4> QED BY <3>1, <4>1, <4>2
    <3>2. CASE i = k + 1
      <4>1. g[i] = WalkStep(f[k]) /\ g[i - 1] = f[k] /\ i # 0
        BY <3>2
      <4> HIDE DEF g
      <4> QED BY <4>1
    <3>3. CASE i \in 1..k
      <4>1. g[i] = f[i] /\ g[i - 1] = f[i - 1] /\ i # 0
        BY <3>3
      <4>2. f[i] = WalkStep(f[i - 1])
        BY <2>1, <3>3 DEF IsWalk
      <4> HIDE DEF g
      <4> QED BY <4>1, <4>2
    <3> QED BY <3>1, <3>2, <3>3
  <2>3. g = [i \in 0..(k + 1) |-> IF i = 0 THEN StartOf(path) ELSE WalkStep(g[i - 1])]
    <3>1. g = [i \in 0..(k + 1) |-> g[i]]
      OBVIOUS
    <3> HIDE DEF g
    <3> QED BY <2>2, <3>1, Zenon
  <2>4. IsWalk(g, path, k + 1)
    <3> HIDE DEF g
    <3> QED BY <2>3 DEF IsWalk
  <2> QED BY <2>4
<1>3. Good = Nat
  <2>1. Good \subseteq Nat
    OBVIOUS
  <2> HIDE DEF Good
  <2> QED BY <1>1, <1>2, <2>1, SetInduction
<1> QED BY <1>3

\* What holds at the start, and after a step of whatever it holds of, holds at
\* the end of a walk.
LEMMA WalkReaches ==
    ASSUME NEW path, NEW Good, StartOf(path) \in Good,
           \A w \in Good : WalkStep(w) \in Good
    PROVE  Walk(path) \in Good
<1> DEFINE f == CHOOSE g : IsWalk(g, path, MaxWalk)
<1>1. IsWalk(f, path, MaxWalk)
  BY ArchiveAssumption, WalkExists, Zenon
<1> HIDE DEF f
<1> DEFINE Fine == {n \in Nat : n <= MaxWalk => f[n] \in Good}
<1>2. 0 \in Fine
  BY <1>1, ArchiveAssumption DEF IsWalk
<1>3. ASSUME NEW n \in Fine PROVE n + 1 \in Fine
  <2>1. SUFFICES ASSUME n + 1 <= MaxWalk PROVE f[n + 1] \in Good
    OBVIOUS
  <2>2. f[n] \in Good
    BY <2>1, ArchiveAssumption
  <2>3. f[n + 1] = WalkStep(f[n])
    <3>1. n + 1 \in 0..MaxWalk /\ n + 1 # 0 /\ (n + 1) - 1 = n
      BY <2>1, ArchiveAssumption
    <3> QED BY <1>1, <3>1 DEF IsWalk
  <2> QED BY <2>2, <2>3
<1>4. Fine = Nat
  <2>1. Fine \subseteq Nat
    OBVIOUS
  <2> HIDE DEF Fine
  <2> QED BY <1>2, <1>3, <2>1, SetInduction
<1>5. f[MaxWalk] \in Good
  BY <1>4, ArchiveAssumption
<1> QED BY <1>5, WalkIsLast DEF f

-----------------------------------------------------------------------------
(* No walk leads out.                                                      *)

Walkers == [at : Seq(Names), todo : Seq(Components),
            status : {"walking", "outside", "missing", "file"}]

Ups(path, i) == {j \in 1..i : path[j] = ".."}

\* What symlink_stays_inside checks of a link whose directory is `at`.
WithinReach(at, todo) ==
    /\ \A i \in 1..Len(todo) : todo[i] \in Names \cup {"..", "."}
    /\ \A i \in 1..Len(todo) : todo[i] = ".." =>
          /\ \A j \in 1..i : todo[j] \notin Names
          /\ Cardinality(Ups(todo, i)) <= Len(at)

\* Counting on from the head of a path.
LEMMA UpsOfTail ==
    ASSUME NEW path \in Seq(Components), path # <<>>, NEW i \in 1..Len(Tail(path))
    PROVE  /\ Cardinality(Ups(Tail(path), i)) \in Nat
           /\ Cardinality(Ups(path, i + 1)) =
                 Cardinality(Ups(Tail(path), i)) + (IF path[1] = ".." THEN 1 ELSE 0)
<1> DEFINE later == Ups(Tail(path), i)
           moved == {j + 1 : j \in later}
           move == [j \in later |-> j + 1]
<1>1. /\ Len(path) \in Nat \ {0} /\ Len(Tail(path)) = Len(path) - 1
      /\ \A j \in 1..Len(Tail(path)) : Tail(path)[j] = path[j + 1]
  BY EmptySeq, HeadTailProperties
<1>2. later \subseteq 1..i /\ i \in Nat
  BY <1>1 DEF Ups
<1>3. IsFiniteSet(later) /\ Cardinality(later) \in Nat
  <2> HIDE DEF later
  <2>1. IsFiniteSet(1..i)
    BY <1>2, FS_Interval
  <2> QED BY <1>2, <2>1, FS_Subset, FS_CardinalityType
<1>4. IsFiniteSet(moved) /\ Cardinality(moved) = Cardinality(later)
  <2>1. move \in Bijection(later, moved)
    BY <1>2 DEF Bijection, Injection, Surjection, IsInjective
  <2>2. ExistsBijection(later, moved)
    BY <2>1 DEF ExistsBijection
  <2> HIDE DEF moved, later
  <2> QED BY <1>3, <2>2, FS_Bijection
<1>5. 1 \notin moved
  BY <1>2
<1>6. Ups(path, i + 1) = IF path[1] = ".." THEN moved \cup {1} ELSE moved
  <2>1. ASSUME NEW j \in 2..(i + 1) PROVE j \in Ups(path, i + 1) <=> j \in moved
    <3>1. j - 1 \in 1..i /\ j = (j - 1) + 1
      BY <1>1, <2>1
    <3>2. j \in moved <=> j - 1 \in later
      BY <1>2, <3>1
    <3>3. Tail(path)[j - 1] = path[j]
      BY <1>1, <3>1
    <3> QED BY <3>1, <3>2, <3>3 DEF Ups
  <2>2. moved \subseteq 2..(i + 1) /\ Ups(path, i + 1) \subseteq 1..(i + 1)
    BY <1>2 DEF Ups
  <2>3. 1 \in Ups(path, i + 1) <=> path[1] = ".."
    BY <1>2 DEF Ups
  <2> DEFINE all == Ups(path, i + 1)
             side == IF path[1] = ".." THEN {1} ELSE {}
  <2>4. \A j \in 1..(i + 1) : j = 1 \/ j \in 2..(i + 1)
    BY <1>2
  <2> HIDE DEF moved
  <2>5. all \subseteq moved \cup side /\ moved \cup side \subseteq all
    BY <2>1, <2>2, <2>3, <2>4
  <2> HIDE DEF all
  <2>6. all = moved \cup side
    BY <2>5
  <2> QED BY <2>6 DEF all
<1> HIDE DEF moved, later
<1>7. Cardinality(moved \cup {1}) = Cardinality(moved) + 1
  BY <1>4, <1>5, FS_AddElement
<1> QED BY <1>3, <1>4, <1>6, <1>7 DEF later

\* The first component of a walk, and the way that is left after it.
LEMMA Ahead ==
    ASSUME NEW todo \in Seq(Components), todo # <<>>
    PROVE  /\ Head(todo) = todo[1] /\ Head(todo) \in Components
           /\ Tail(todo) \in Seq(Components)
           /\ Len(todo) \in Nat \ {0} /\ Len(Tail(todo)) = Len(todo) - 1
           /\ \A i \in 1..Len(Tail(todo)) : Tail(todo)[i] = todo[i + 1]
BY EmptySeq, HeadTailProperties

\* Past "." the same is in reach, past ".." from one directory less,
LEMMA ReachAfterDots ==
    ASSUME NEW at, NEW up, NEW todo \in Seq(Components), todo # <<>>,
           Len(at) \in Nat, WithinReach(at, todo), Head(todo) \in {".", ".."},
           Len(up) = IF Head(todo) = ".." THEN Len(at) - 1 ELSE Len(at)
    PROVE  WithinReach(up, Tail(todo))
<1> DEFINE rest == Tail(todo)
<1>1. /\ Len(rest) = Len(todo) - 1 /\ Len(todo) \in Nat \ {0}
      /\ \A i \in 1..Len(rest) : rest[i] = todo[i + 1]
  BY Ahead
<1>2. \A i \in 1..Len(rest) : rest[i] \in Names \cup {"..", "."}
  BY <1>1 DEF WithinReach
<1>3. ASSUME NEW i \in 1..Len(rest), rest[i] = ".."
      PROVE  /\ \A j \in 1..i : rest[j] \notin Names
             /\ Cardinality(Ups(rest, i)) <= Len(up)
  <2>1. i + 1 \in 1..Len(todo) /\ todo[i + 1] = ".."
    BY <1>1, <1>3
  <2>2. /\ \A j \in 1..(i + 1) : todo[j] \notin Names
        /\ Cardinality(Ups(todo, i + 1)) <= Len(at)
    BY <2>1 DEF WithinReach
  <2>3. \A j \in 1..i : rest[j] \notin Names
    BY <1>1, <2>2
  <2>4. /\ Cardinality(Ups(rest, i)) \in Nat
        /\ Cardinality(Ups(todo, i + 1)) =
              Cardinality(Ups(rest, i)) + (IF todo[1] = ".." THEN 1 ELSE 0)
    BY UpsOfTail
  <2>5. Head(todo) = todo[1]
    BY Ahead
  <2> QED BY <2>2, <2>3, <2>4, <2>5
<1> HIDE DEF rest
<1> QED BY <1>2, <1>3 DEF WithinReach, rest

\* past a name there are no more "..", so that a link's target can take its
\* place if it is in reach from where the walk is.
LEMMA ReachAfterName ==
    ASSUME NEW at, NEW todo \in Seq(Components), todo # <<>>,
           WithinReach(at, todo), Head(todo) \in Names
    PROVE  \A i \in 1..Len(Tail(todo)) : Tail(todo)[i] \in Names \cup {"."}
<1>1. TAKE i \in 1..Len(Tail(todo))
<1>2. /\ i + 1 \in 1..Len(todo) /\ Tail(todo)[i] = todo[i + 1]
      /\ 1 \in 1..(i + 1) /\ todo[1] \in Names
  BY Ahead
<1> QED BY <1>2 DEF WithinReach

LEMMA ReachThroughLink ==
    ASSUME NEW at, NEW link \in Seq(Components), NEW rest \in Seq(Components),
           WithinReach(at, link),
           \A i \in 1..Len(rest) : rest[i] \in Names \cup {"."}
    PROVE  WithinReach(at, link \o rest)
<1> DEFINE todo == link \o rest
<1>1. /\ Len(link) \in Nat /\ Len(rest) \in Nat /\ Len(todo) = Len(link) + Len(rest)
      /\ \A i \in 1..Len(todo) :
            todo[i] = IF i <= Len(link) THEN link[i] ELSE rest[i - Len(link)]
  BY ConcatProperties, LenProperties
<1> HIDE DEF todo
<1>2. \A i \in 1..Len(todo) : i > Len(link) => todo[i] \in Names \cup {"."}
  BY <1>1
<1>3. \A i \in 1..Len(todo) : todo[i] \in Names \cup {"..", "."}
  BY <1>1, <1>2 DEF WithinReach
<1>4. ASSUME NEW i \in 1..Len(todo), todo[i] = ".."
      PROVE  /\ \A j \in 1..i : todo[j] \notin Names
             /\ Cardinality(Ups(todo, i)) <= Len(at)
  <2>1. i \in 1..Len(link)
    BY <1>1, <1>2, <1>4, ArchiveAssumption
  <2>2. \A j \in 1..i : todo[j] = link[j]
    BY <1>1, <2>1
  <2>3. Ups(todo, i) = Ups(link, i)
    BY <2>2 DEF Ups
  <2>4. link[i] = ".."
    BY <1>4, <2>1, <2>2
  <2> QED BY <2>1, <2>2, <2>3, <2>4 DEF WithinReach
<1> QED BY <1>3, <1>4 DEF WithinReach, todo

Walker(at, todo, status) == [at |-> at, todo |-> todo, status |-> status]

\* A step of a walk that goes on, by what its first component is.
Going(w, step) ==
    LET ch == w.todo[1]
        next == Append(w.at, ch)
    IN  \/ ch = "." /\ step = Walker(w.at, Tail(w.todo), "walking")
        \/ /\ ch = "/" \/ (ch = ".." /\ w.at = <<>>)
           /\ step = Walker(w.at, w.todo, "outside")
        \/ /\ ch = ".." /\ w.at # <<>>
           /\ step = Walker(Front(w.at), Tail(w.todo), "walking")
        \/ /\ ch \in Names
           /\ \/ next \notin DOMAIN tree /\ step = Walker(w.at, w.todo, "missing")
              \/ /\ next \in DOMAIN tree /\ tree[next].kind = "dir"
                 /\ step = Walker(next, Tail(w.todo), "walking")
              \/ /\ next \in DOMAIN tree /\ tree[next].kind = "file"
                 /\ step = Walker(w.at, w.todo, "file")
              \/ /\ next \in DOMAIN tree /\ tree[next].kind = "symlink"
                 /\ step = Walker(w.at, tree[next].link \o Tail(w.todo), "walking")

\* The fields of a walk that is written as a record.
LEMMA WalkerFields ==
    /\ \A at, todo, status :
          /\ Walker(at, todo, status).at = at
          /\ Walker(at, todo, status).todo = todo
          /\ Walker(at, todo, status).status = status
          /\ Walker(at, todo, status) \in Walkers <=>
                /\ at \in Seq(Names) /\ todo \in Seq(Components)
                /\ status \in {"walking", "outside", "missing", "file"}
    /\ \A w \in Walkers : w = Walker(w.at, w.todo, w.status)
<1>1. ASSUME NEW at, NEW todo, NEW status
      PROVE  /\ Walker(at, todo, status).at = at
             /\ Walker(at, todo, status).todo = todo
             /\ Walker(at, todo, status).status = status
             /\ Walker(at, todo, status) \in Walkers <=>
                /\ at \in Seq(Names) /\ todo \in Seq(Components)
                /\ status \in {"walking", "outside", "missing", "file"}
  BY DEF Walkers, Walker
<1>2. ASSUME NEW w \in Walkers PROVE w = Walker(w.at, w.todo, w.status)
  BY DEF Walkers, Walker
<1> QED BY <1>1, <1>2

\* One step of a walk, case by case, on the fields of its record.
LEMMA WalkStepIs ==
    ASSUME ExtractionTypes, NEW w \in Walkers
    PROVE  IF w.status = "walking" /\ w.todo # <<>> THEN Going(w, WalkStep(w))
           ELSE WalkStep(w) = w
<1>1. CASE ~(w.status = "walking" /\ w.todo # <<>>)
  BY <1>1 DEF WalkStep
<1>2. CASE w.status = "walking" /\ w.todo # <<>>
  <2>0. PICK at, todo : w = [at |-> at, todo |-> todo, status |-> "walking"]
    BY <1>2, WalkerFields DEF Walker
  <2> DEFINE ch == Head(todo)
             next == Append(at, ch)
  <2>1. w.at = at /\ w.todo = todo /\ w.status = "walking" /\ todo # <<>>
    BY <1>2, <2>0
  <2>2. ch = todo[1] /\ ch \in Components
    BY <1>2, <2>1, Ahead DEF Walkers
  <2>3. next \in DOMAIN tree => tree[next].kind \in {"file", "dir", "symlink"}
    BY DEF ExtractionTypes, Node
  <2>4. ch \in Names => ch # ".." /\ ch # "." /\ ch # "/"
    BY ArchiveAssumption
  <2> HIDE DEF ch
  <2>5. CASE ch = "."
    <3>1. WalkStep(w) = Walker(at, Tail(todo), "walking")
      BY <2>0, <2>1, <2>5, ArchiveAssumption DEF WalkStep, ch, Walker
    <3> QED BY <2>1, <2>2, <2>5, <3>1 DEF Going
  <2>6. CASE ch = "/" \/ (ch = ".." /\ at = <<>>)
    <3>1. WalkStep(w) = Walker(at, todo, "outside")
      BY <2>0, <2>1, <2>6, ArchiveAssumption DEF WalkStep, ch, Walker
    <3> QED BY <2>1, <2>2, <2>6, <3>1 DEF Going
  <2>7. CASE ch = ".." /\ at # <<>>
    <3>1. WalkStep(w) = Walker(Front(at), Tail(todo), "walking")
      BY <2>0, <2>1, <2>7, ArchiveAssumption DEF WalkStep, ch, Walker
    <3> QED BY <2>1, <2>2, <2>7, <3>1 DEF Going
  <2>8. CASE ch \in Names
    <3>1. ch # ".." /\ ch # "." /\ ch # "/"
      BY <2>4, <2>8
    <3>2. WalkStep(w) = LookUp(w)
      BY <2>1, <2>8, <3>1 DEF WalkStep, ch
    <3>3. CASE next \notin DOMAIN tree
      <4>1. LookUp(w) = Walker(at, todo, "missing")
        BY <2>0, <2>1, <3>3 DEF LookUp, ch, Walker
      <4> QED BY <2>1, <2>2, <2>8, <3>2, <3>3, <4>1 DEF Going
    <3>4. CASE next \in DOMAIN tree /\ tree[next].kind = "dir"
      <4>1. LookUp(w) = Walker(next, Tail(todo), "walking")
        BY <2>0, <2>1, <3>4 DEF LookUp, ch, Walker
      <4> QED BY <2>1, <2>2, <2>8, <3>2, <3>4, <4>1 DEF Going
    <3>5. CASE next \in DOMAIN tree /\ tree[next].kind = "file"
      <4>1. LookUp(w) = Walker(at, todo, "file")
        BY <2>0, <2>1, <3>5 DEF LookUp, ch, Walker
      <4> QED BY <2>1, <2>2, <2>8, <3>2, <3>5, <4>1 DEF Going
    <3>6. CASE next \in DOMAIN tree /\ tree[next].kind = "symlink"
      <4>1. LookUp(w) = Walker(at, tree[next].link \o Tail(todo), "walking")
        BY <2>0, <2>1, <3>6 DEF LookUp, ch, Walker
      <4> QED BY <2>1, <2>2, <2>8, <3>2, <3>6, <4>1 DEF Going
    <3> QED BY <2>3, <3>3, <3>4, <3>5, <3>6
  <2> QED BY <2>2, <2>5, <2>6, <2>7, <2>8 DEF Components
<1> QED BY <1>1, <1>2

\* A nonempty sequence is its front and its last element.
LEMMA FrontOfSeq ==
    ASSUME NEW S, NEW s \in Seq(S), s # <<>>
    PROVE  /\ Front(s) \in Seq(S) /\ Len(Front(s)) = Len(s) - 1
           /\ Len(s) \in Nat \ {0} /\ Last(s) \in S
           /\ s = Append(Front(s), Last(s))
<1>1. Len(s) \in Nat \ {0} /\ \A i \in 1..Len(s) : s[i] \in S
  BY EmptySeq, ElementOfSeq
<1>2. /\ Front(s) \in Seq(S) /\ Len(Front(s)) = Len(s) - 1
      /\ \A i \in 1..(Len(s) - 1) : Front(s)[i] = s[i]
  <2>1. PICK n \in Nat : n = Len(s) - 1
    BY <1>1
  <2>2. \A i \in 1..n : s[i] \in S
    BY <1>1, <2>1
  <2> DEFINE front == SubSeq(s, 1, n)
  <2>3. /\ front \in Seq(S)
        /\ Len(front) = IF 1 <= n THEN n - 1 + 1 ELSE 0
        /\ \A i \in 1..(n - 1 + 1) : front[i] = s[1 + i - 1]
    BY <2>2, SubSeqProperties
  <2> HIDE DEF front
  <2>4. Len(front) = n /\ \A i \in 1..n : front[i] = s[i]
    BY <2>3
  <2>5. front = Front(s)
    BY <2>1 DEF front, Front
  <2> QED BY <2>1, <2>3, <2>4, <2>5
<1>3. Last(s) \in S /\ Last(s) = s[Len(s)]
  BY <1>1 DEF Last
<1>4. s = Append(Front(s), Last(s))
  <2>1. PICK t \in Seq(S) : t = Append(Front(s), Last(s))
    BY <1>2, <1>3, AppendProperties
  <2>2. /\ Len(t) = Len(s)
        /\ \A i \in 1..(Len(s) - 1) : t[i] = s[i]
        /\ t[Len(s)] = s[Len(s)]
    BY <1>1, <1>2, <1>3, <2>1, AppendProperties
  <2>3. \A i \in 1..Len(s) : t[i] = s[i]
    BY <1>1, <2>2
  <2> QED BY <2>1, <2>2, <2>3, SeqEqual
<1> QED BY <1>1, <1>2, <1>3, <1>4

\* A link that was checked from its own place is in reach from its directory.
LEMMA CheckedLinkInReach ==
    ASSUME NEW at \in Seq(Names), NEW ch \in Names, NEW link \in Seq(Components),
           SymlinkStaysInside(Append(at, ch), link)
    PROVE  WithinReach(at, link)
<1>1. Len(Append(at, ch)) = Len(at) + 1 /\ Len(at) \in Nat
  BY AppendProperties, LenProperties
<1>2. Len(link) \in Nat /\ DOMAIN link = 1..Len(link)
  BY LenProperties
<1>3. \A i \in 1..Len(link) : link[i] \in Names \cup {"..", "."}
  BY <1>2 DEF SymlinkStaysInside, Range
<1>4. ASSUME NEW i \in 1..Len(link), link[i] = ".."
      PROVE  /\ \A j \in 1..i : link[j] \notin Names
             /\ Cardinality(Ups(link, i)) <= Len(at)
  <2>1. Cardinality(Ups(link, i)) < Len(at) + 1
    BY <1>1, <1>2, <1>4 DEF SymlinkStaysInside, Ups
  <2>2. Cardinality(Ups(link, i)) \in Nat
    <3>1. IsFiniteSet(1..i) /\ Ups(link, i) \subseteq 1..i
      BY <1>2, FS_Interval DEF Ups
    <3> QED BY <3>1, FS_Subset, FS_CardinalityType
  <2>3. \A j \in 1..i : link[j] \notin Names
    BY <1>2, <1>4 DEF SymlinkStaysInside
  <2> QED BY <1>1, <2>1, <2>2, <2>3
<1> QED BY <1>3, <1>4 DEF WithinReach

Contained ==
    {w \in Walkers : /\ w.status # "outside"
                     /\ w.status = "walking" => WithinReach(w.at, w.todo)}

LEMMA ContainedIs ==
    ASSUME NEW at, NEW todo, NEW status
    PROVE  Walker(at, todo, status) \in Contained <=>
              /\ at \in Seq(Names) /\ todo \in Seq(Components)
              /\ status \in {"walking", "missing", "file"}
              /\ status = "walking" => WithinReach(at, todo)
BY WalkerFields DEF Contained

\* A walk never climbs further than it is deep: the checked target of a link
\* climbs no further than the directory the link is in.
LEMMA StepStaysInside ==
    ASSUME ExtractionTypes, LinksChecked, NEW w \in Contained
    PROVE  WalkStep(w) \in Contained
<1>1. w \in Walkers /\ w.at \in Seq(Names) /\ w.todo \in Seq(Components)
  BY DEF Contained, Walkers
<1>2. CASE ~(w.status = "walking" /\ w.todo # <<>>)
  BY <1>1, <1>2, WalkStepIs
<1>3. CASE w.status = "walking" /\ w.todo # <<>>
  <2> DEFINE ch == w.todo[1]
             next == Append(w.at, ch)
  <2>1. Going(w, WalkStep(w)) /\ WithinReach(w.at, w.todo)
    BY <1>1, <1>3, WalkStepIs DEF Contained
  <2>2. /\ ch = Head(w.todo) /\ Tail(w.todo) \in Seq(Components)
        /\ Len(w.todo) \in Nat \ {0} /\ Len(w.at) \in Nat
    BY <1>1, <1>3, Ahead, LenProperties
  <2>3. ch \in Names \cup {"..", "."} /\ ~(ch = ".." /\ w.at = <<>>)
    <3>1. ch = ".." => Cardinality(Ups(w.todo, 1)) <= Len(w.at)
      BY <2>1, <2>2 DEF WithinReach
    <3>2. ch = ".." => Cardinality(Ups(w.todo, 1)) = 1
      <4>1. ch = ".." => Ups(w.todo, 1) = {1}
        BY DEF Ups
      <4> QED BY <4>1, FS_Singleton
    <3>3. w.at = <<>> => Len(w.at) = 0
      BY EmptySeq
    <3>4. ch \in Names \cup {"..", "."}
      BY <2>1, <2>2 DEF WithinReach
    <3>5. ch = ".." => 1 <= Len(w.at)
      BY <3>1, <3>2
    <3> QED BY <3>3, <3>4, <3>5
  <2>4. CASE ch = "."
    <3>1. WalkStep(w) = Walker(w.at, Tail(w.todo), "walking")
      BY <2>1, <2>4, ArchiveAssumption DEF Going
    <3>2. WithinReach(w.at, Tail(w.todo))
      BY <1>1, <1>3, <2>1, <2>2, <2>4, ReachAfterDots
    <3> QED BY <1>1, <2>2, <3>1, <3>2, ContainedIs
  <2>5. CASE ch = ".."
    <3>1. WalkStep(w) = Walker(Front(w.at), Tail(w.todo), "walking") /\ w.at # <<>>
      BY <2>1, <2>3, <2>5, ArchiveAssumption DEF Going
    <3>2. Front(w.at) \in Seq(Names) /\ Len(Front(w.at)) = Len(w.at) - 1
      BY <1>1, <3>1, FrontOfSeq
    <3>3. WithinReach(Front(w.at), Tail(w.todo))
      BY <1>1, <1>3, <2>1, <2>2, <2>5, <3>2, ReachAfterDots
    <3> QED BY <1>1, <2>2, <3>1, <3>2, <3>3, ContainedIs
  <2>6. CASE ch \in Names
    <3>1. \A i \in 1..Len(Tail(w.todo)) : Tail(w.todo)[i] \in Names \cup {"."}
      BY <1>1, <1>3, <2>1, <2>2, <2>6, ReachAfterName
    <3>2. next \in Seq(Names)
      BY <1>1, <2>6, AppendProperties
    <3>3. CASE \E status \in {"missing", "file"} : WalkStep(w) = Walker(w.at, w.todo, status)
      <4>1. PICK status \in {"missing", "file"} : WalkStep(w) = Walker(w.at, w.todo, status)
        BY <3>3
      <4>2. status # "walking"
        OBVIOUS
      <4> QED BY <1>1, <4>1, <4>2, ContainedIs
    <3>4. CASE WalkStep(w) = Walker(next, Tail(w.todo), "walking")
      <4>1. WithinReach(next, Tail(w.todo))
        BY <3>1, ArchiveAssumption DEF WithinReach
      <4> QED BY <2>2, <3>2, <3>4, <4>1, ContainedIs
    <3>5. CASE /\ next \in DOMAIN tree /\ tree[next].kind = "symlink"
               /\ WalkStep(w) = Walker(w.at, tree[next].link \o Tail(w.todo), "walking")
      <4>1. tree[next].link \in Seq(Components)
        BY <3>5 DEF ExtractionTypes, Node
      <4>2. WithinReach(w.at, tree[next].link)
        BY <1>1, <2>6, <3>5, <4>1, CheckedLinkInReach DEF LinksChecked
      <4>3. WithinReach(w.at, tree[next].link \o Tail(w.todo))
        BY <2>2, <3>1, <4>1, <4>2, ReachThroughLink
      <4>4. tree[next].link \o Tail(w.todo) \in Seq(Components)
        BY <2>2, <4>1, ConcatProperties
      <4> QED BY <1>1, <3>5, <4>3, <4>4, ContainedIs
    <3>6. \/ \E status \in {"missing", "file"} : WalkStep(w) = Walker(w.at, w.todo, status)
          \/ WalkStep(w) = Walker(next, Tail(w.todo), "walking")
          \/ /\ next \in DOMAIN tree /\ tree[next].kind = "symlink"
             /\ WalkStep(w) = Walker(w.at, tree[next].link \o Tail(w.todo), "walking")
      <4>1. ch # "." /\ ch # ".." /\ ch # "/"
        BY <2>6, ArchiveAssumption
      <4>2. \/ WalkStep(w) = Walker(w.at, w.todo, "missing")
            \/ WalkStep(w) = Walker(next, Tail(w.todo), "walking")
            \/ WalkStep(w) = Walker(w.at, w.todo, "file")
            \/ /\ next \in DOMAIN tree /\ tree[next].kind = "symlink"
               /\ WalkStep(w) = Walker(w.at, tree[next].link \o Tail(w.todo), "walking")
        BY <2>1, <4>1 DEF Going
      <4> HIDE DEF next
      <4> QED BY <4>2
    <3> QED BY <3>3, <3>4, <3>5, <3>6
  <2> QED BY <2>3, <2>4, <2>5, <2>6
<1> QED BY <1>2, <1>3

\* A path of names has nothing to climb.
LEMMA NamesStayInside ==
    ASSUME ExtractionTypes, LinksChecked, NEW path \in Seq(Names)
    PROVE  Walk(path) \in Contained
<1>1. path \in Seq(Components)
  BY SeqMonotonic DEF Components
<1>2. Len(path) \in Nat /\ \A i \in 1..Len(path) : path[i] \in Names
  BY LenProperties, ElementOfSeq
<1>3. WithinReach(<<>>, path)
  BY <1>2, ArchiveAssumption DEF WithinReach
<1>4. StartOf(path) \in Contained
  BY <1>1, <1>3, EmptySeq DEF StartOf, Contained, Walkers
<1> QED BY <1>4, StepStaysInside, WalkReaches

-----------------------------------------------------------------------------
(* An entry that is not below a link lands where its name says.            *)

LEMMA PrefixesOf ==
    ASSUME NEW S, NEW s \in Seq(S), s # <<>>
    PROVE  /\ Prefixes(Front(s)) \cup {s} \subseteq Prefixes(s)
           /\ Prefixes(s) \subseteq Seq(S)
           /\ \A p \in Seq(S) :
                 Len(p) <= Len(s) /\ (\A i \in 1..Len(p) : p[i] = s[i]) => p \in Prefixes(s)
<1>1. Len(s) \in Nat \ {0} /\ \A i \in 1..Len(s) : s[i] \in S
  BY EmptySeq, ElementOfSeq
<1>2. /\ Front(s) \in Seq(S) /\ Len(Front(s)) = Len(s) - 1
      /\ Front(s) = SubSeq(s, 1, Len(s) - 1)
  BY FrontOfSeq DEF Front
<1>3. ASSUME NEW n \in 0..Len(s)
      PROVE  /\ SubSeq(s, 1, n) \in Seq(S) /\ Len(SubSeq(s, 1, n)) = n
             /\ \A i \in 1..n : SubSeq(s, 1, n)[i] = s[i]
  <2> DEFINE front == SubSeq(s, 1, n)
  <2>1. n \in Int /\ n \in Nat /\ \A i \in 1..n : s[i] \in S
    BY <1>1
  <2>2. /\ front \in Seq(S)
        /\ Len(front) = IF 1 <= n THEN n - 1 + 1 ELSE 0
        /\ \A i \in 1..(n - 1 + 1) : front[i] = s[1 + i - 1]
    BY <2>1, SubSeqProperties
  <2> HIDE DEF front
  <2>3. Len(front) = n /\ \A i \in 1..n : front[i] = s[i]
    BY <2>1, <2>2
  <2> QED BY <2>2, <2>3 DEF front
<1>4. ASSUME NEW p \in Seq(S), Len(p) <= Len(s), \A i \in 1..Len(p) : p[i] = s[i]
      PROVE  p \in Prefixes(s)
  <2>1. Len(p) \in 0..Len(s)
    BY <1>1, <1>4, LenProperties
  <2> DEFINE q == SubSeq(s, 1, Len(p))
  <2>2. q \in Seq(S) /\ Len(q) = Len(p) /\ \A i \in 1..Len(p) : q[i] = s[i]
    BY <1>3, <2>1
  <2> HIDE DEF q
  <2>3. p = q
    BY <1>4, <2>2, SeqEqual
  <2> QED BY <2>1, <2>3 DEF q, Prefixes
<1>5. ASSUME NEW p \in Prefixes(Front(s)) PROVE p \in Prefixes(s)
  <2>1. PICK n \in 0..Len(Front(s)) : p = SubSeq(Front(s), 1, n)
    BY DEF Prefixes
  <2>2. n \in 0..Len(s) /\ n \in Nat /\ \A i \in 1..n : i \in 1..(Len(s) - 1)
    BY <1>1, <1>2, <2>1
  <2>3. \A i \in 1..n : Front(s)[i] = s[i]
    <3>1. Len(s) - 1 \in 0..Len(s)
      BY <1>1
    <3> QED BY <1>2, <1>3, <2>2, <3>1
  <2>4. /\ p \in Seq(S) /\ Len(p) = n /\ \A i \in 1..n : p[i] = Front(s)[i]
    <3> DEFINE f == Front(s)
    <3>1. n \in Int /\ \A i \in 1..n : f[i] \in S
      BY <1>1, <2>2, <2>3
    <3> HIDE DEF f
    <3>2. /\ SubSeq(f, 1, n) \in Seq(S)
          /\ Len(SubSeq(f, 1, n)) = IF 1 <= n THEN n - 1 + 1 ELSE 0
          /\ \A i \in 1..(n - 1 + 1) : SubSeq(f, 1, n)[i] = f[1 + i - 1]
      BY <3>1, SubSeqProperties
    <3>3. p = SubSeq(f, 1, n)
      BY <2>1 DEF f
    <3>4. /\ p \in Seq(S)
          /\ Len(p) = IF 1 <= n THEN n - 1 + 1 ELSE 0
          /\ \A i \in 1..(n - 1 + 1) : p[i] = f[1 + i - 1]
      BY <3>2, <3>3
    <3>5. Len(p) = n /\ \A i \in 1..n : p[i] = f[i]
      BY <2>2, <3>4
    <3> QED BY <3>4, <3>5 DEF f
  <2>5. Len(p) <= Len(s)
    BY <1>1, <2>2, <2>4
  <2> QED BY <1>4, <2>3, <2>4, <2>5
<1>6. Prefixes(s) \subseteq Seq(S)
  BY <1>3 DEF Prefixes
<1>7. s \in Prefixes(s)
  BY <1>1, <1>4
<1> QED BY <1>4, <1>5, <1>6, <1>7

\* A walk that takes a component moves it from the way to go to the way it went.
LEMMA OneTaken ==
    ASSUME NEW path \in Seq(Names), NEW at \in Seq(Names), NEW todo \in Seq(Components),
           todo # <<>>, at \o todo = path
    PROVE  /\ todo[1] \in Names
           /\ Append(at, todo[1]) \in Seq(Names) /\ Append(at, todo[1]) \in Prefixes(path)
           /\ Append(at, todo[1]) \o Tail(todo) = path
<1> DEFINE next == Append(at, todo[1])
           way == next \o Tail(todo)
<1>1. /\ Len(todo) \in Nat \ {0} /\ Len(at) \in Nat /\ Tail(todo) \in Seq(Components)
      /\ Len(Tail(todo)) = Len(todo) - 1
      /\ \A i \in 1..Len(Tail(todo)) : Tail(todo)[i] = todo[i + 1]
  BY Ahead, LenProperties
<1>2. at \in Seq(Components) /\ path \in Seq(Components)
  BY SeqMonotonic DEF Components
<1>3. /\ Len(path) = Len(at) + Len(todo)
      /\ \A i \in 1..Len(path) :
            path[i] = IF i <= Len(at) THEN at[i] ELSE todo[i - Len(at)]
  BY <1>2, ConcatProperties
<1>4. todo[1] \in Names /\ path # <<>>
  <2>1. Len(at) + 1 \in 1..Len(path) /\ ~(Len(at) + 1 <= Len(at)) /\ (Len(at) + 1) - Len(at) = 1
    BY <1>1, <1>3
  <2>2. path[Len(at) + 1] \in Names
    BY <2>1, ElementOfSeq
  <2> QED BY <1>3, <2>1, <2>2, EmptySeq
<1>5. /\ next \in Seq(Names) /\ Len(next) = Len(at) + 1
      /\ \A i \in 1..Len(at) : next[i] = at[i]
      /\ next[Len(at) + 1] = todo[1]
  BY <1>4, AppendProperties
<1> HIDE DEF next
<1>6. \A i \in 1..Len(next) : next[i] = path[i]
  BY <1>1, <1>3, <1>5
<1>7. next \in Prefixes(path)
  BY <1>1, <1>3, <1>4, <1>5, <1>6, PrefixesOf
<1>8. next \in Seq(Components)
  BY <1>5, SeqMonotonic DEF Components
<1>9. /\ way \in Seq(Components) /\ Len(way) = Len(next) + Len(Tail(todo))
      /\ \A i \in 1..Len(way) :
            way[i] = IF i <= Len(next) THEN next[i] ELSE Tail(todo)[i - Len(next)]
  BY <1>1, <1>8, ConcatProperties
<1> HIDE DEF way
<1>10. ASSUME NEW i \in 1..Len(way) PROVE way[i] = path[i]
  <2>1. i \in 1..Len(path)
    BY <1>1, <1>3, <1>5, <1>9
  <2>2. CASE i <= Len(next)
    BY <1>1, <1>5, <1>6, <1>9, <2>2
  <2>3. CASE ~(i <= Len(next))
    <3>1. /\ i - Len(next) \in 1..Len(Tail(todo)) /\ (i - Len(next)) + 1 = i - Len(at)
          /\ ~(i <= Len(at))
      BY <1>1, <1>5, <1>9, <2>3
    <3> QED BY <1>1, <1>3, <1>9, <2>1, <2>3, <3>1
  <2> QED BY <2>2, <2>3
<1>11. way = path
  <2>1. Len(way) = Len(path)
    BY <1>1, <1>3, <1>5, <1>9
  <2> QED BY <1>2, <1>9, <1>10, <2>1, SeqEqual
<1> QED BY <1>4, <1>5, <1>7, <1>11 DEF next, way

\* A walk that met no link: what it went and what is left are the path.
Straight(path) == {w \in Walkers : w.at \o w.todo = path}

LEMMA StraightIs ==
    ASSUME NEW path, NEW at, NEW todo, NEW status
    PROVE  Walker(at, todo, status) \in Straight(path) <=>
              /\ at \in Seq(Names) /\ todo \in Seq(Components)
              /\ status \in {"walking", "outside", "missing", "file"}
              /\ at \o todo = path
<1> DEFINE w == Walker(at, todo, status)
<1>1. /\ w.at = at /\ w.todo = todo
      /\ w \in Walkers <=> /\ at \in Seq(Names) /\ todo \in Seq(Components)
                          /\ status \in {"walking", "outside", "missing", "file"}
  BY WalkerFields
<1> HIDE DEF w
<1>2. w \in Straight(path) <=> w \in Walkers /\ w.at \o w.todo = path
  BY DEF Straight
<1> QED BY <1>1, <1>2 DEF w

\* A walk along a path with no link on it, or above it, goes where it is told.
LEMMA StepStaysStraight ==
    ASSUME ExtractionTypes, LinksChecked, NEW path \in Seq(Names),
           Prefixes(path) \cap symlinks = {}, NEW w \in Straight(path)
    PROVE  WalkStep(w) \in Straight(path)
<1>1. w \in Walkers /\ w.at \in Seq(Names) /\ w.todo \in Seq(Components)
      /\ w.at \o w.todo = path
  BY DEF Straight, Walkers
<1>2. CASE ~(w.status = "walking" /\ w.todo # <<>>)
  BY <1>1, <1>2, WalkStepIs
<1>3. CASE w.status = "walking" /\ w.todo # <<>>
  <2> DEFINE ch == w.todo[1]
             next == Append(w.at, ch)
  <2>1. Going(w, WalkStep(w))
    BY <1>1, <1>3, WalkStepIs
  <2>2. /\ ch \in Names /\ next \in Seq(Names) /\ next \in Prefixes(path)
        /\ next \o Tail(w.todo) = path
    BY <1>1, <1>3, OneTaken
  <2>3. Tail(w.todo) \in Seq(Components)
    BY <1>1, <1>3, Ahead
  <2>4. ch # "." /\ ch # ".." /\ ch # "/"
    BY <2>2, ArchiveAssumption
  <2>5. ~(next \in DOMAIN tree /\ tree[next].kind = "symlink")
    BY <2>2 DEF LinksChecked
  <2>6. \/ WalkStep(w) = Walker(w.at, w.todo, "missing")
        \/ WalkStep(w) = Walker(w.at, w.todo, "file")
        \/ WalkStep(w) = Walker(next, Tail(w.todo), "walking")
    BY <2>1, <2>4, <2>5 DEF Going
  <2> HIDE DEF next
  <2>7. /\ Walker(w.at, w.todo, "missing") \in Straight(path)
        /\ Walker(w.at, w.todo, "file") \in Straight(path)
    BY <1>1, StraightIs
  <2>8. Walker(next, Tail(w.todo), "walking") \in Straight(path)
    BY <2>2, <2>3, StraightIs
  <2> QED BY <2>6, <2>7, <2>8
<1> QED BY <1>2, <1>3

\* The filter goes by names, the file system by what it finds: with no recorded
\* link above an entry they agree.
LEMMA LandsWhereNamed ==
    ASSUME ExtractionTypes, LinksChecked, NEW relative \in Seq(Names), relative # <<>>,
           ~IsBelowASymlink(relative), Landing(relative).ok
    PROVE  Landing(relative).dir = Front(relative)
<1> DEFINE path == Front(relative)
           w == Walk(path)
<1>1. path \in Seq(Names) /\ path \in Seq(Components)
  BY FrontOfSeq, SeqMonotonic DEF Components
<1>2. Prefixes(path) \cap symlinks = {}
  BY DEF IsBelowASymlink
<1> HIDE DEF path
<1>3. StartOf(path) \in Straight(path)
  <2>1. StartOf(path) = Walker(<<>>, path, "walking")
    BY DEF StartOf, Walker
  <2>2. <<>> \o path = path /\ <<>> \in Seq(Names)
    BY <1>1, ConcatEmptySeq, EmptySeq
  <2>3. Walker(<<>>, path, "walking") \in Straight(path)
    BY <1>1, <2>2, StraightIs
  <2> QED BY <2>1, <2>3
<1>4. w \in Straight(path)
  BY <1>1, <1>2, <1>3, StepStaysStraight, WalkReaches
<1>5. w.at \in Seq(Names) /\ w.at \o w.todo = path
  BY <1>4 DEF Straight, Walkers
<1>6. /\ Landing(relative).dir = w.at \o (IF w.status = "missing" THEN w.todo ELSE <<>>)
      /\ Landing(relative).ok => w.todo = <<>> \/ w.status = "missing"
  BY DEF Landing, path
<1> HIDE DEF w
<1> QED BY <1>5, <1>6 DEF path

-----------------------------------------------------------------------------
(* What an extraction has made of the entries it read.                     *)

Relative(entries, i) == StrippedPath(entries[i].path)

Kept(entries) == {i \in DOMAIN entries : Relative(entries, i) # <<>>}

Named(entries) == {<<>>} \cup UNION {Prefixes(Relative(entries, i)) : i \in Kept(entries)}

Made(entry) == IF entry.kind = "file" THEN File ELSE Symlink(entry.link)

Latest(entries, i) ==
    \A j \in Kept(entries) : j > i => Relative(entries, j) # Relative(entries, i)

Landed(entries, made) ==
    /\ DOMAIN made \subseteq Named(entries)
    /\ \A i \in Kept(entries) : Latest(entries, i) =>
          /\ Relative(entries, i) \in DOMAIN made
          /\ entries[i].kind # "dir" => made[Relative(entries, i)] = Made(entries[i])

LEMMA LandedIs == EntriesLandWhereNamed <=> (extraction # "failed" => Landed(archive, tree))
BY DEF EntriesLandWhereNamed, Landed, Latest, Named, Kept, Relative, Made, Unpacked

LEMMA LandedNextIs ==
    EntriesLandWhereNamed' <=> (extraction' # "failed" => Landed(archive', tree'))
BY DEF EntriesLandWhereNamed, Landed, Latest, Named, Kept, Relative, Made, Unpacked

\* One entry more: it is kept if it has a path, and hides those before it.
LEMMA OneMoreEntry ==
    ASSUME NEW entries \in Seq(Entries), NEW entry \in Entries
    PROVE  LET more == Append(entries, entry)
               n == Len(entries) + 1
           IN  /\ Len(entries) \in Nat /\ more \in Seq(Entries)
               /\ \A i \in Kept(entries) : i \in 1..Len(entries)
               /\ \A i \in 1..Len(entries) :
                     more[i] = entries[i] /\ Relative(more, i) = Relative(entries, i)
               /\ more[n] = entry /\ Relative(more, n) = StrippedPath(entry.path)
               /\ Kept(entries) = {i \in 1..Len(entries) : Relative(entries, i) # <<>>}
               /\ Kept(more) = Kept(entries) \cup
                                 (IF StrippedPath(entry.path) = <<>> THEN {} ELSE {n})
<1> DEFINE more == Append(entries, entry)
           n == Len(entries) + 1
<1>1. /\ Len(entries) \in Nat /\ DOMAIN entries = 1..Len(entries)
      /\ more \in Seq(Entries) /\ Len(more) = n
      /\ \A i \in 1..Len(entries) : more[i] = entries[i]
      /\ more[n] = entry
  BY AppendProperties, LenProperties
<1>2. DOMAIN more = 1..n
  BY <1>1, LenProperties
<1> HIDE DEF more
<1>3. /\ \A i \in 1..Len(entries) : Relative(more, i) = Relative(entries, i)
      /\ Relative(more, n) = StrippedPath(entry.path)
  BY <1>1 DEF Relative
<1>4. Kept(entries) = {i \in 1..Len(entries) : Relative(entries, i) # <<>>}
  BY <1>1 DEF Kept
<1>5. Kept(more) = {i \in 1..n : Relative(more, i) # <<>>}
  BY <1>2 DEF Kept
<1>6. 1..n = (1..Len(entries)) \cup {n} /\ n \notin 1..Len(entries)
  BY <1>1
<1>7. Kept(more) = Kept(entries) \cup (IF StrippedPath(entry.path) = <<>> THEN {} ELSE {n})
  <2> HIDE DEF n
  <2> QED BY <1>3, <1>4, <1>5, <1>6
<1> QED BY <1>1, <1>3, <1>4, <1>7 DEF more

\* An entry without a path changes nothing of what has landed.
LEMMA SkippedLands ==
    ASSUME NEW entries \in Seq(Entries), NEW entry \in Entries, NEW made,
           StrippedPath(entry.path) = <<>>, Landed(entries, made)
    PROVE  Landed(Append(entries, entry), made)
<1> DEFINE more == Append(entries, entry)
<1>1. /\ \A i \in Kept(entries) : i \in 1..Len(entries)
      /\ \A i \in 1..Len(entries) :
            more[i] = entries[i] /\ Relative(more, i) = Relative(entries, i)
      /\ Kept(more) = Kept(entries)
  BY OneMoreEntry
<1> HIDE DEF more
<1>2. Named(more) = Named(entries)
  BY <1>1 DEF Named
<1>3. ASSUME NEW i \in Kept(more), Latest(more, i)
      PROVE  /\ Relative(more, i) \in DOMAIN made
             /\ more[i].kind # "dir" => made[Relative(more, i)] = Made(more[i])
  <2>1. Latest(entries, i)
    BY <1>1, <1>3 DEF Latest
  <2> QED BY <1>1, <2>1 DEF Landed
<1>4. Landed(more, made)
  BY <1>2, <1>3 DEF Landed
<1> QED BY <1>4 DEF more

\* An entry that is unpacked at its own path hides the earlier ones there.
LEMMA UnpackedLands ==
    ASSUME NEW entries \in Seq(Entries), NEW entry \in Entries, NEW before, NEW made,
           NEW relative \in Seq(Names), relative # <<>>,
           relative = StrippedPath(entry.path),
           Landed(entries, before),
           DOMAIN made = DOMAIN before \cup Prefixes(Front(relative)) \cup {relative},
           \A path \in DOMAIN before \ {relative} : made[path] = before[path],
           entry.kind # "dir" => made[relative] = Made(entry)
    PROVE  Landed(Append(entries, entry), made)
<1> DEFINE more == Append(entries, entry)
           n == Len(entries) + 1
<1>1. /\ Len(entries) \in Nat
      /\ \A i \in Kept(entries) : i \in 1..Len(entries)
      /\ \A i \in 1..Len(entries) :
            more[i] = entries[i] /\ Relative(more, i) = Relative(entries, i)
      /\ more[n] = entry /\ Relative(more, n) = relative
      /\ Kept(more) = Kept(entries) \cup {n}
  BY OneMoreEntry
<1> HIDE DEF more
<1>2. Named(entries) \cup Prefixes(relative) \subseteq Named(more)
  <2>1. ASSUME NEW i \in Kept(entries)
        PROVE  i \in Kept(more) /\ Prefixes(Relative(entries, i)) = Prefixes(Relative(more, i))
    BY <1>1
  <2>2. n \in Kept(more) /\ Prefixes(relative) = Prefixes(Relative(more, n))
    BY <1>1
  <2> HIDE DEF n
  <2> QED BY <2>1, <2>2 DEF Named
<1>3. DOMAIN made \subseteq Named(more)
  <2>1. Prefixes(Front(relative)) \cup {relative} \subseteq Prefixes(relative)
    BY PrefixesOf
  <2>2. DOMAIN before \subseteq Named(entries)
    BY DEF Landed
  <2> QED BY <1>2, <2>1, <2>2
<1>4. ASSUME NEW i \in Kept(more), Latest(more, i)
      PROVE  /\ Relative(more, i) \in DOMAIN made
             /\ more[i].kind # "dir" => made[Relative(more, i)] = Made(more[i])
  <2>1. CASE i = n
    BY <1>1, <2>1
  <2>2. CASE i \in Kept(entries)
    <3>1. i \in 1..Len(entries) /\ n > i /\ n \in Kept(more)
      BY <1>1, <2>2
    <3>2. Relative(entries, i) # relative
      BY <1>1, <1>4, <3>1 DEF Latest
    <3>3. Latest(entries, i)
      BY <1>1, <1>4, <3>1 DEF Latest
    <3>4. /\ Relative(entries, i) \in DOMAIN before
          /\ entries[i].kind # "dir" => before[Relative(entries, i)] = Made(entries[i])
      BY <2>2, <3>3 DEF Landed
    <3> QED BY <1>1, <3>1, <3>2, <3>4
  <2> QED BY <1>1, <2>1, <2>2
<1>5. Landed(more, made)
  BY <1>3, <1>4 DEF Landed
<1> QED BY <1>5 DEF more

\* What the filters make of an entry.
LEMMA EntryTypes ==
    ASSUME NEW entry \in Entries
    PROVE  /\ StrippedPath(entry.path) \in Seq(Names)
           /\ entry.link \in Seq(Components)
           /\ entry.kind \in {"file", "dir", "symlink", "other"}
<1>1. /\ Tail(entry.path) \in Seq(Components) /\ entry.link \in Seq(Components)
      /\ entry.kind \in {"file", "dir", "symlink", "other"}
  BY ArchiveAssumption
<1> DEFINE rest == Tail(entry.path)
<1>2. ASSUME Range(rest) \subseteq Names PROVE rest \in Seq(Names)
  <2>1. Len(rest) \in Nat /\ DOMAIN rest = 1..Len(rest) /\ rest \in [1..Len(rest) -> Components]
    BY <1>1, LenProperties
  <2>2. \A i \in 1..Len(rest) : rest[i] \in Names
    BY <1>2, <2>1 DEF Range
  <2> HIDE DEF rest
  <2>3. rest \in [1..Len(rest) -> Names]
    BY <2>1, <2>2
  <2> QED BY <2>1, <2>3, SeqDef
<1>3. <<>> \in Seq(Names)
  BY EmptySeq
<1> QED BY <1>1, <1>2, <1>3 DEF StrippedPath

LEMMA InitExtraction == ExtractionInit => ExtractionInv
<1> SUFFICES ASSUME ExtractionInit PROVE ExtractionInv
  OBVIOUS
<1>1. archive = <<>> /\ symlinks = {} /\ DOMAIN tree = {<<>>} /\ tree[<<>>] = Dir
      /\ tree = [path \in {<<>>} |-> Dir]
  BY DEF ExtractionInit
<1>2. <<>> \in Seq(Names) /\ <<>> \in Seq(Components) /\ <<>> \in Seq(Entries)
  BY EmptySeq
<1>3. Dir \in Node /\ Dir.kind = "dir"
  BY <1>2 DEF Dir, Node
<1>4. ExtractionTypes
  BY <1>1, <1>2, <1>3 DEF ExtractionTypes
<1>5. LinksChecked
  BY <1>1, <1>3 DEF LinksChecked
<1>6. Kept(archive) = {}
  BY <1>1 DEF Kept
<1>7. Landed(archive, tree)
  BY <1>1, <1>6 DEF Landed, Named
<1> QED BY <1>4, <1>5, <1>7, LandedIs DEF ExtractionInv

LEMMA SkipKeeps ==
    ASSUME ExtractionInv, NEW entry \in Entries, Skip(entry)
    PROVE  ExtractionInv'
<1>1. /\ archive' = Append(archive, entry) /\ UNCHANGED <<tree, symlinks, extraction>>
      /\ StrippedPath(entry.path) = <<>> /\ extraction = "running"
  BY DEF Skip, Read
<1>2. archive \in Seq(Entries) /\ archive' \in Seq(Entries)
  BY <1>1, AppendProperties DEF ExtractionInv, ExtractionTypes
<1>3. ExtractionTypes' /\ LinksChecked'
  BY <1>1, <1>2 DEF ExtractionInv, ExtractionTypes, LinksChecked
<1>4. Landed(archive, tree)
  BY <1>1, LandedIs DEF ExtractionInv
<1>5. Landed(archive', tree')
  BY <1>1, <1>2, <1>4, SkippedLands
<1> QED BY <1>3, <1>5, LandedNextIs DEF ExtractionInv

\* After a refusal nothing more is promised of the tree than its links.
LEMMA RefuseKeeps ==
    ASSUME ExtractionInv, NEW entry \in Entries, Refuse(entry)
    PROVE  ExtractionInv'
<1>1. /\ archive' = Append(archive, entry) /\ UNCHANGED <<tree, symlinks>>
      /\ extraction' = "failed"
  BY DEF Refuse, Read
<1>2. archive' \in Seq(Entries)
  BY <1>1, AppendProperties DEF ExtractionInv, ExtractionTypes
<1>3. ExtractionTypes' /\ LinksChecked'
  BY <1>1, <1>2 DEF ExtractionInv, ExtractionTypes, LinksChecked
<1> QED BY <1>1, <1>3, LandedNextIs DEF ExtractionInv

LEMMA EndKeeps ==
    ASSUME ExtractionInv, EndOfArchive
    PROVE  ExtractionInv'
<1>1. UNCHANGED <<archive, tree, symlinks>> /\ extraction = "running"
  BY DEF EndOfArchive
<1>2. ExtractionTypes' /\ LinksChecked'
  BY <1>1 DEF ExtractionInv, ExtractionTypes, LinksChecked
<1>3. Landed(archive, tree)
  BY <1>1, LandedIs DEF ExtractionInv
<1> QED BY <1>1, <1>2, <1>3, LandedNextIs DEF ExtractionInv

\* What is unpacked lands where it is named, and a link where it was checked.
LEMMA UnpackKeeps ==
    ASSUME ExtractionInv, NEW entry \in Entries, Unpack(entry)
    PROVE  ExtractionInv'
<1> DEFINE relative == StrippedPath(entry.path)
           landing == Landing(relative)
           parents == Prefixes(Front(relative))
           fits == landing.ok /\ CanUnpack(entry, Append(landing.dir, Last(relative)))
<1>1. /\ archive' = Append(archive, entry) /\ extraction = "running"
      /\ relative # <<>> /\ EntryIsSafe(entry, relative) /\ ~IsBelowASymlink(relative)
      /\ symlinks' = symlinks \cup (IF entry.kind = "symlink" THEN {relative} ELSE {})
  BY DEF Unpack, Read
<1>2. /\ relative \in Seq(Names) /\ entry.link \in Seq(Components)
      /\ entry.kind \in {"file", "dir", "symlink", "other"}
  BY EntryTypes
<1>3. /\ archive \in Seq(Entries) /\ archive' \in Seq(Entries)
      /\ symlinks' \subseteq Seq(Names) /\ symlinks \subseteq symlinks'
  BY <1>1, <1>2, AppendProperties DEF ExtractionInv, ExtractionTypes
<1>4. CASE ~fits
  <2>1. extraction' = "failed" /\ UNCHANGED tree
    BY <1>4 DEF Unpack
  <2>2. ExtractionTypes' /\ LinksChecked'
    BY <1>3, <2>1 DEF ExtractionInv, ExtractionTypes, LinksChecked
  <2> QED BY <2>1, <2>2, LandedNextIs DEF ExtractionInv
<1>5. CASE fits
  <2>1. landing.dir = Front(relative)
    BY <1>1, <1>2, <1>5, LandsWhereNamed DEF ExtractionInv
  <2>2. Append(landing.dir, Last(relative)) = relative
    BY <1>1, <1>2, <2>1, FrontOfSeq
  <2>3. /\ tree' = [path \in DOMAIN tree \cup parents \cup {relative} |->
                      IF path = relative THEN Unpacked(entry, relative)
                      ELSE IF path \in DOMAIN tree THEN tree[path] ELSE Dir]
        /\ UNCHANGED extraction
    BY <1>5, <2>1, <2>2 DEF Unpack
  <2> DEFINE new == Unpacked(entry, relative)
  <2>4. entry.kind \in {"file", "dir", "symlink"}
    BY <1>1 DEF EntryIsSafe
  <2>5. /\ new \in Node
        /\ entry.kind # "dir" => new = Made(entry)
        /\ new.kind = "symlink" =>
              \/ relative \in DOMAIN tree /\ new = tree[relative]
              \/ entry.kind = "symlink" /\ new.link = entry.link
    <3>0. <<>> \in Seq(Components)
      BY EmptySeq
    <3>1. CASE entry.kind = "file"
      BY <3>0, <3>1 DEF Unpacked, Made, File, Node
    <3>2. CASE entry.kind = "symlink"
      BY <1>2, <3>2 DEF Unpacked, Made, Symlink, Node
    <3>3. CASE entry.kind = "dir"
      BY <3>0, <3>3 DEF Unpacked, Dir, Node, ExtractionInv, ExtractionTypes
    <3> QED BY <2>4, <3>1, <3>2, <3>3
  <2> HIDE DEF relative, new
  <2>6. Dir \in Node /\ Dir.kind = "dir"
    BY EmptySeq DEF Dir, Node
  <2>7. parents \subseteq Seq(Names)
    <3>1. parents \subseteq Prefixes(relative) /\ Prefixes(relative) \subseteq Seq(Names)
      BY <1>1, <1>2, PrefixesOf
    <3> QED BY <3>1
  <2> HIDE DEF parents
  <2>8. /\ DOMAIN tree' = DOMAIN tree \cup parents \cup {relative}
        /\ tree'[relative] = new
        /\ \A path \in DOMAIN tree' \ {relative} :
              tree'[path] = IF path \in DOMAIN tree THEN tree[path] ELSE Dir
    BY <2>3 DEF new
  <2>9. ExtractionTypes'
    <3>1. DOMAIN tree' \subseteq Seq(Names)
      BY <1>2, <2>7, <2>8 DEF ExtractionInv, ExtractionTypes
    <3>2. tree' \in [DOMAIN tree' -> Node]
      BY <2>3, <2>5, <2>6 DEF ExtractionInv, ExtractionTypes, new
    <3>3. extraction' = extraction
      BY <2>3
    <3> QED BY <1>3, <3>1, <3>2, <3>3 DEF ExtractionTypes
  <2>10. LinksChecked'
    <3>1. ASSUME NEW path \in DOMAIN tree', tree'[path].kind = "symlink"
          PROVE  path \in symlinks' /\ SymlinkStaysInside(path, tree'[path].link)
      <4>1. CASE path \in DOMAIN tree /\ tree'[path] = tree[path]
        BY <1>3, <3>1, <4>1 DEF ExtractionInv, LinksChecked
      <4>2. CASE path = relative /\ entry.kind = "symlink" /\ new.link = entry.link
        <5>1. SymlinkStaysInside(relative, entry.link)
          BY <1>1, <4>2 DEF EntryIsSafe
        <5> QED BY <1>1, <2>8, <4>2, <5>1
      <4>3. CASE path # relative
        BY <2>6, <2>8, <3>1, <4>1, <4>3
      <4>4. CASE path = relative
        BY <2>5, <2>8, <3>1, <4>1, <4>2, <4>4
      <4> QED BY <4>3, <4>4
    <3> QED BY <3>1 DEF LinksChecked
  <2>11. Landed(archive, tree)
    BY <1>1, LandedIs DEF ExtractionInv
  <2>12. Landed(archive', tree')
    <3>1. /\ relative = StrippedPath(entry.path)
          /\ DOMAIN tree' = DOMAIN tree \cup Prefixes(Front(relative)) \cup {relative}
          /\ \A path \in DOMAIN tree \ {relative} : tree'[path] = tree[path]
          /\ entry.kind # "dir" => tree'[relative] = Made(entry)
      BY <2>5, <2>8 DEF relative, parents
    <3> QED BY <1>1, <1>2, <1>3, <2>11, <3>1, UnpackedLands
  <2> QED BY <2>9, <2>10, <2>12, LandedNextIs DEF ExtractionInv
<1> QED BY <1>4, <1>5

LEMMA ExtractionStep == ExtractionInv /\ [ExtractionNext]_extractionVars => ExtractionInv'
<1> SUFFICES ASSUME ExtractionInv, [ExtractionNext]_extractionVars PROVE ExtractionInv'
  OBVIOUS
<1>1. ASSUME NEW entry \in Entries, Skip(entry) \/ Refuse(entry) \/ Unpack(entry)
      PROVE  ExtractionInv'
  BY <1>1, SkipKeeps, RefuseKeeps, UnpackKeeps
<1>2. CASE EndOfArchive
  BY <1>2, EndKeeps
<1>3. CASE UNCHANGED extractionVars
  <2>1. UNCHANGED <<archive, tree, symlinks, extraction>>
    BY <1>3 DEF extractionVars
  <2>2. ExtractionTypes' /\ LinksChecked'
    BY <2>1 DEF ExtractionInv, ExtractionTypes, LinksChecked
  <2> QED BY <2>1, <2>2, LandedIs, LandedNextIs DEF ExtractionInv
<1> QED BY <1>1, <1>2, <1>3 DEF ExtractionNext

\* The names the filters go by are the places in the tree.
THEOREM ExtractionInvAlways == ExtractionSpec => []ExtractionInv
<1> QED BY InitExtraction, ExtractionStep, PTL DEF ExtractionSpec

\* Every entry lands at the path it names (unpack_stripped, build.rs:278).
THEOREM EntriesLandAlways == ExtractionSpec => []EntriesLandWhereNamed
<1>1. ExtractionInv => EntriesLandWhereNamed
  BY DEF ExtractionInv
<1> QED BY <1>1, ExtractionInvAlways, PTL

\* LinksStayInside without its bound on the length of the path.
NoPathLeadsOut == \A path \in Seq(Names) : Walk(path).status # "outside"

\* Every link was checked where it is, and that is enough for all of them.
LEMMA InvKeepsInside == ExtractionInv => NoPathLeadsOut
<1> SUFFICES ASSUME ExtractionInv, NEW path \in Seq(Names)
             PROVE  Walk(path).status # "outside"
  BY DEF NoPathLeadsOut
<1>1. Walk(path) \in Contained
  BY NamesStayInside DEF ExtractionInv
<1> QED BY <1>1 DEF Contained

\* No path leads out of the tree, however long it is and through however many
\* links of the archive (symlink_stays_inside, build.rs:226).
THEOREM NothingLeadsOut == ExtractionSpec => []NoPathLeadsOut
<1> QED BY InvKeepsInside, ExtractionInvAlways, PTL

\* The paths of the checked instance are some of them.
THEOREM LinksContained == ExtractionSpec => []LinksStayInside
<1>1. NoPathLeadsOut => LinksStayInside
  <2> SUFFICES ASSUME NoPathLeadsOut, NEW n \in 1..3, NEW path \in [1..n -> Names]
               PROVE  Walk(path).status # "outside"
    BY DEF LinksStayInside
  <2>1. n \in Nat
    OBVIOUS
  <2>2. path \in Seq(Names)
    BY <2>1, SeqDef
  <2> QED BY <2>2 DEF NoPathLeadsOut
<1> QED BY <1>1, NothingLeadsOut, PTL

=============================================================================
