------------------------ MODULE SourceMaterialization ------------------------
(***************************************************************************)
(* How the build script of espeak-rs-sys puts the espeak-ng source into    *)
(* OUT_DIR (crates/espeak-rs-sys/build.rs): from the commit espeak-ng.lock *)
(* pins, downloaded and checked, or from the directory or archive that     *)
(* ESPEAK_NG_SOURCE names; again and again over the life of one target     *)
(* directory, with builds killed or failing at any point, and the lock and *)
(* the variable changed between them and under them.                       *)
(*                                                                         *)
(* A source tree is abstracted to which source its files come from,        *)
(* whether all of them are there, and its .pinned-sha256 stamp.  A pinned  *)
(* source stands for its commit and the sha256 of its tar stream.          *)
(***************************************************************************)
EXTENDS Naturals

CONSTANTS
    Pins,        \* the sources espeak-ng.lock may pin
    Directories, \* the checkouts ESPEAK_NG_SOURCE may name: they hold no stamp
    Archives,    \* the .tar.gz files it may name
    Missing,     \* a path that is neither a directory nor a file
    Garbage,     \* bytes that are not the tar stream of any pin
    None,        \* no source, no stamp, ESPEAK_NG_SOURCE not set
    Torn,        \* what a half-written stamp file holds
    Attempts,    \* DOWNLOAD_ATTEMPTS
    MaxFaults    \* bound: kills, I/O errors and bad downloads in a behaviour

Overrides == Directories \cup Archives
Sources == Pins \cup Overrides

ASSUME MaterializationAssumption ==
    /\ Pins \cap Overrides = {}
    /\ Directories \cap Archives = {}
    /\ Sources \cap {Missing, Garbage, None, Torn} = {}
    /\ Missing # None /\ Garbage # None /\ Torn # None
    /\ Attempts \in Nat \ {0}
    /\ MaxFaults \in Nat

VARIABLES
    dst,      \* OUT_DIR/espeak-ng
    tmp,      \* OUT_DIR/espeak-ng.tmp
    lock,     \* the pin in espeak-ng.lock; None: a lock with a key missing
    override, \* ESPEAK_NG_SOURCE
    pc,       \* where the build script is, or "idle" when none runs
    build,    \* the inputs and locals of the current or last build
    outcome,  \* how that build's materialisation ended
    faults    \* faults so far

vars == <<dst, tmp, lock, override, pc, build, outcome, faults>>

Tree == [state: {"absent", "partial", "whole"},
         origin: Sources \cup {None, Garbage},
         stamp: Pins \cup {None, Torn}]

NoTree == [state |-> "absent", origin |-> None, stamp |-> None]

\* A tree with none or some of the files of a source.
Filling(source) == [state |-> "partial", origin |-> source, stamp |-> None]

Labels == {"idle", "resolve", "stale", "fetch", "prepare", "fill", "install",
           "stamp", "stamping"}

Builds == [from: Overrides \cup {None, Missing}, pin: Pins \cup {None},
           attempt: 1..Attempts, bytes: Pins \cup {None, Garbage},
           reused: BOOLEAN]

NewBuild(from, pin) ==
    [from |-> from, pin |-> pin, attempt |-> 1, bytes |-> None, reused |-> FALSE]

\* The source the build was asked for, and the one it has in hand.
Wanted == IF build.from = None THEN build.pin ELSE build.from
InHand == IF build.from = None THEN build.bytes ELSE build.from

Init ==
    /\ dst = NoTree
    /\ tmp = NoTree
    /\ lock \in Pins
    /\ override = None
    /\ pc = "idle"
    /\ build = NewBuild(None, None)
    /\ outcome = "none"
    /\ faults = 0

-----------------------------------------------------------------------------
(* Between builds, and under them, somebody edits the inputs.              *)

\* update_espeak.py, a checkout of another revision, a damaged lock.
Repin(pin) ==
    /\ lock' = pin
    /\ UNCHANGED <<dst, tmp, override, pc, build, outcome, faults>>

SetOverride(path) ==
    /\ override' = path
    /\ UNCHANGED <<dst, tmp, lock, pc, build, outcome, faults>>

-----------------------------------------------------------------------------
(* The build script.                                                       *)

End(how) == pc' = "idle" /\ outcome' = how

Fault == faults < MaxFaults /\ faults' = faults + 1

\* main reads the lock and the variable once.
Begin ==
    /\ pc = "idle"
    /\ pc' = "resolve"
    /\ build' = NewBuild(override, lock)
    /\ outcome' = "none"
    /\ UNCHANGED <<dst, tmp, lock, override, faults>>

\* Faulty variant: any stamp will do.
StampExists == dst.stamp # None

StampMatches == dst.stamp = build.pin

Resolve ==
    /\ pc = "resolve"
    /\ \/ /\ build.from = Missing \/ (build.from = None /\ build.pin = None)
          /\ End("failed")
          /\ UNCHANGED build
       \/ /\ build.from = None /\ build.pin # None /\ StampMatches
          /\ build' = [build EXCEPT !.reused = TRUE]
          /\ End("ok")
       \/ /\ build.from = None /\ build.pin # None /\ ~StampMatches
          /\ pc' = "stale"
          /\ UNCHANGED <<build, outcome>>
       \/ /\ build.from \in Overrides
          /\ pc' = "stale"
          /\ UNCHANGED <<build, outcome>>
    /\ UNCHANGED <<dst, tmp, lock, override, faults>>

\* remove_dir_all takes the files away one by one, the stamp among them.
RemoveStale ==
    /\ pc = "stale"
    /\ \/ /\ dst' = NoTree
          /\ pc' = IF build.from = None THEN "fetch" ELSE "prepare"
       \/ /\ dst.state # "absent"
          /\ dst' \in {[dst EXCEPT !.state = "partial"],
                       [dst EXCEPT !.state = "partial", !.stamp = None]}
          /\ UNCHANGED pc
    /\ UNCHANGED <<tmp, lock, override, build, outcome, faults>>

\* The sha256 of the tar stream is the one in the lock.
Verified(bytes) == bytes = build.pin

LastAttempt == build.attempt = Attempts

\* fetch_pinned_archive: up to Attempts downloads, then the checksum.  Bytes
\* that fail it are not asked for again.
Fetch ==
    /\ pc = "fetch"
    /\ \/ \E bytes \in Pins \cup {Garbage} :
             \/ /\ Verified(bytes)
                /\ build' = [build EXCEPT !.bytes = bytes]
                /\ pc' = "prepare"
                /\ UNCHANGED <<outcome, faults>>
             \/ /\ ~Verified(bytes)
                /\ Fault
                /\ End("failed")
                /\ UNCHANGED build
       \/ /\ ~LastAttempt
          /\ Fault
          /\ build' = [build EXCEPT !.attempt = @ + 1]
          /\ UNCHANGED <<pc, outcome>>
       \/ /\ LastAttempt
          /\ Fault
          /\ End("failed")
          /\ UNCHANGED build
    /\ UNCHANGED <<dst, tmp, lock, override>>

\* Faulty variant: what an earlier build left in the temporary directory is
\* not removed, and the assertion about it fails.
RefuseStaleTmp ==
    /\ pc = "prepare"
    /\ \/ /\ tmp.state # "absent"
          /\ End("failed")
          /\ UNCHANGED tmp
       \/ /\ tmp.state = "absent"
          /\ tmp' = Filling(InHand)
          /\ pc' = "fill"
          /\ UNCHANGED outcome
    /\ UNCHANGED <<dst, lock, override, build, faults>>

\* extract_tar_gz and copy_folder start by clearing the temporary directory.
Prepare ==
    /\ pc = "prepare"
    /\ \/ /\ tmp' = Filling(InHand)
          /\ pc' = "fill"
       \/ /\ tmp.state = "whole"
          /\ tmp' = [tmp EXCEPT !.state = "partial"]
          /\ UNCHANGED pc
    /\ UNCHANGED <<dst, lock, override, build, outcome, faults>>

Fill ==
    /\ pc = "fill"
    /\ tmp' = [tmp EXCEPT !.state = "whole"]
    /\ pc' = "install"
    /\ UNCHANGED <<dst, lock, override, build, outcome, faults>>

\* Unpacking fails half way: the temporary directory goes, if it can.
UnpackFails ==
    /\ pc = "fill"
    /\ build.from \notin Directories
    /\ Fault
    /\ End("failed")
    /\ tmp' = NoTree
    /\ UNCHANGED <<dst, lock, override, build>>

Finish == IF build.from = None
          THEN pc' = "stamp" /\ UNCHANGED outcome
          ELSE End("ok")

\* Faulty variant: the tree is moved into place before it is filled.
InstallEarly ==
    /\ pc = "fill"
    /\ dst.state = "absent"
    /\ dst' = tmp
    /\ tmp' = NoTree
    /\ Finish
    /\ UNCHANGED <<lock, override, build, faults>>

\* rename does not replace a directory that holds anything.
Install ==
    /\ pc = "install"
    /\ dst.state = "absent"
    /\ dst' = tmp
    /\ tmp' = NoTree
    /\ Finish
    /\ UNCHANGED <<lock, override, build, faults>>

\* fs::write truncates the stamp file, and then writes it.
TruncateStamp ==
    /\ pc = "stamp"
    /\ dst' = [dst EXCEPT !.stamp = Torn]
    /\ pc' = "stamping"
    /\ UNCHANGED <<tmp, lock, override, build, outcome, faults>>

\* Faulty variant: the stamp is taken from the lock as it is by now.
WriteLatestStamp ==
    /\ pc = "stamping"
    /\ dst' = [dst EXCEPT !.stamp = lock]
    /\ End("ok")
    /\ UNCHANGED <<tmp, lock, override, build, faults>>

WriteStamp ==
    /\ pc = "stamping"
    /\ dst' = [dst EXCEPT !.stamp = build.pin]
    /\ End("ok")
    /\ UNCHANGED <<tmp, lock, override, build, faults>>

\* The build is killed, or an I/O error ends it with a panic: what is on disk
\* stays as it is.
Interrupt ==
    /\ pc # "idle"
    /\ Fault
    /\ End("failed")
    /\ UNCHANGED <<dst, tmp, lock, override, build>>

-----------------------------------------------------------------------------

BuildStep ==
    \/ Resolve \/ RemoveStale \/ Fetch \/ Prepare \/ Fill \/ Install
    \/ TruncateStamp \/ WriteStamp

Edit ==
    \/ \E pin \in Pins \cup {None} : Repin(pin)
    \/ \E path \in Overrides \cup {None, Missing} : SetOverride(path)

Next == Edit \/ Begin \/ BuildStep \/ UnpackFails \/ Interrupt

Spec == Init /\ [][Next]_vars

\* A build script that was started runs on.
FairSpec == Spec /\ WF_vars(BuildStep)

-----------------------------------------------------------------------------
(* Properties.                                                             *)

\* Every variable has its type.
TypeOK ==
    /\ dst \in Tree
    /\ tmp \in Tree
    /\ lock \in Pins \cup {None}
    /\ override \in Overrides \cup {None, Missing}
    /\ pc \in Labels
    /\ build \in Builds
    /\ outcome \in {"none", "ok", "failed"}
    /\ faults \in 0..MaxFaults

\* A stamp never vouches for another source: a tree stamped with a pin, in
\* whatever state builds and kills left it, holds files of that pin only, also
\* when the lock or the variable was edited while the build ran.
StampNamesOrigin == dst.stamp \in Pins => dst.origin = dst.stamp

\* A build that goes on to compile found, or put, the source it was asked for
\* in OUT_DIR, never that of an earlier pin or override.
RightSource == outcome = "ok" => dst.origin = Wanted

\* What a build put there itself is all of the source: no kill or failure of
\* this or an earlier build can make extraction pass off a part for the whole.
FreshIsWhole == outcome = "ok" /\ ~build.reused => dst.state = "whole"

\* The destination only ever gains files by the rename that fills an absent one
\* with a complete tree.
InstalledWhole ==
    [][dst'.state # "absent" /\ dst.state = "absent" => dst'.state = "whole"]_vars

\* The inductive invariant behind StampNamesOrigin, RightSource and
\* FreshIsWhole.
IndInv ==
    /\ TypeOK
    /\ StampNamesOrigin
    /\ RightSource
    /\ FreshIsWhole
    /\ tmp.stamp = None
    /\ pc # "idle" => outcome = "none" /\ ~build.reused
    /\ pc \in {"stale", "fetch", "prepare", "fill", "install", "stamp", "stamping"} =>
          /\ build.from # Missing
          /\ build.from = None => build.pin # None
    /\ pc \in {"fetch", "stamp", "stamping"} => build.from = None
    /\ pc \in {"prepare", "fill", "install"} => InHand = Wanted
    /\ pc \in {"fill", "install"} => tmp.origin = Wanted
    /\ pc = "install" => tmp.state = "whole"
    /\ pc \in {"stamp", "stamping"} => dst.state = "whole" /\ dst.origin = Wanted

\* The build script recovers from whatever was left on disk: once nothing goes
\* wrong any more, a build with usable inputs comes to a good end.
Recovers ==
    /\ faults = MaxFaults
    /\ pc = "resolve"
    /\ build.from \in Overrides \/ (build.from = None /\ build.pin \in Pins)
    ~> outcome = "ok"

\* crates/espeak-rs-sys/README.md:3: what is built is the pinned commit, as
\* downloaded and checked: all of it.
PinnedIsWhole ==
    outcome = "ok" /\ build.from = None => dst.state = "whole"

=============================================================================
