-------------------------- MODULE BuildScriptProofs --------------------------
(***************************************************************************)
(* What the build script of espeak-rs-sys links, proved for any hosts,     *)
(* environments and versions, and any number of edits and failures.        *)
(*                                                                         *)
(* A run builds up what the properties say step by step: the tree is of    *)
(* the wanted version, then the bindings are of the tree, then there is a  *)
(* CMake configuration, the files it builds, objects that are no older     *)
(* than the tree, the library made of them.  Between two builds a run that *)
(* has succeeded stays at its last stage, for only Start leaves it.        *)
(***************************************************************************)
EXTENDS BuildScript, TLAPS

Profiles == {Profile(e) : e \in host.environments}

\* What a library or a cache can have been configured with.
Configs ==
    [shared : BOOLEAN, profile : Profiles, staticCrt : BOOLEAN,
     pcaudio : {host.os # "macos"}, bundle : BOOLEAN,
     android : {<<>>} \cup {<<AndroidAbi(host.arch), AndroidApiLevel(e), AndroidNdkHome(e)>> :
                               e \in host.environments}]

Libraries == [version : Versions, config : Configs, uses : SUBSET SystemLibs]

Installable ==
    {LibFile(<<"lib">>, StaticExt, "espeak-ng", "static"),
     LibFile(<<"lib">>, SharedExt, "espeak-ng", "dylib"),
     LibFile(<<"lib">>, "lib", "espeak-ng", "dylib"),
     LibFile(<<"bin">>, "dll", "espeak-ng", "dylib")}

\* Outside Visual Studio nothing is called lib or dll.
FilesOfHost ==
    {f \in Installable : host.os # "windows" => f.ext \in {StaticExt, SharedExt}}
      \cup {LibFile(<<name>>, StaticExt, name, "static") : name \in {"speechPlayer", "ucd"}}
      \cup {LibFile(<<name, p>>, StaticExt, name, "static") :
               name \in {"speechPlayer", "ucd"}, p \in Profiles}

Outs ==
    [tree : [version : Versions \cup {None}, pinned : BOOLEAN],
     stale : SUBSET Profiles,
     bindings : Versions \cup {None, "docs.rs"},
     dataDir : {None, "share"},
     cache : [config : Configs, generated : BOOLEAN] \cup {NoCache},
     objects : UNION {[P -> Versions] : P \in SUBSET Profiles},
     library : Libraries \cup {None},
     files : SUBSET FilesOfHost,
     share : Versions \cup {None}]

\* Type invariant.
TypeOK ==
    /\ host \in Hosts
    /\ env \in host.environments
    /\ lock \in Versions /\ checkout \in Versions
    /\ touched \subseteq {"lock", "checkout", "headers"}
    /\ run \in [pc : {"idle", "docs", "materialize", "bindgen", "configure",
                      "compile", "install", "emit"},
                env : host.environments, pin : Versions \cup {None}]
    /\ out \in Outs
    /\ placed \in Versions \cup {None}
    /\ edits \in Nat /\ faults \in Nat

\* A run under way, or one that has succeeded, has come as far as these steps.
Ended == last # None /\ ~IsSet(run.env, "DOCS_RS")
At(steps) == run.pc \in steps \/ Ended

\* A run is known by its record, and read the pin that still is in the lock if
\* that has not been touched.
Recorded ==
    /\ last # None => run.pc = "idle" /\ last.env = run.env
    /\ Ended => last.links = LinkDirectives(run.env)
    /\ run.pc = "docs" => IsSet(run.env, "DOCS_RS")
    /\ run.pc # "idle" \/ last # None =>
          run.pin \in Versions /\ ("lock" \notin touched => run.pin = lock)

\* The tree is the one this run was asked for.
TreeWanted ==
    At({"bindgen", "configure", "compile", "install", "emit"}) =>
       /\ out.tree.version \in Versions
       /\ out.tree.pinned = ~Overrides(run.env)
       /\ ~Overrides(run.env) => out.tree.version = run.pin
       /\ Overrides(run.env) /\ "checkout" \notin touched => out.tree.version = checkout

\* Objects of a tree whose files have the time they were written at.
KeepsNoTimes == out.tree.pinned \/ host.machine \notin {"macos", "windows"}

ObjectsFollow ==
    KeepsNoTimes /\ out.tree.version # None =>
       \A p \in DOMAIN out.objects \ out.stale : out.objects[p] = out.tree.version

\* The stages.
BindingsFollow ==
    At({"configure", "compile", "install", "emit"}) => out.bindings = out.tree.version

CacheThere == At({"compile", "install", "emit"}) => out.cache # NoCache

CompiledNow ==
    At({"install", "emit"}) =>
       /\ BuildProfile \in DOMAIN out.objects \ out.stale
       /\ BuiltFiles \subseteq out.files

InstalledNow ==
    At({"emit"}) =>
       /\ out.library = Compiled
       /\ out.share = out.library.version
       /\ InstalledFiles \subseteq out.files

EmittedNow ==
    Ended => /\ CanEmit
             /\ out.dataDir = "share"
             /\ BuildsShared(run.env) /\ ExtractLibAssets # {} => placed # None

IndInv ==
    /\ TypeOK
    /\ Recorded
    /\ TreeWanted
    /\ ObjectsFollow
    /\ BindingsFollow
    /\ CacheThere
    /\ CompiledNow
    /\ InstalledNow
    /\ EmittedNow

-----------------------------------------------------------------------------
(* Types.                                                                  *)

LEMMA ConfigIsOne ==
  ASSUME NEW e \in host.environments
  PROVE  Config(e) \in Configs
<1>1. Profile(e) \in Profiles
  BY DEF Profiles
<1>. QED
  BY <1>1 DEF Config, Configs, BuildsShared

LEMMA ConfigProfile ==
  ASSUME NEW c \in Configs, NEW p \in Profiles
  PROVE  /\ [c EXCEPT !.profile = p] \in Configs
         /\ [c EXCEPT !.profile = p].shared = c.shared
  BY DEF Configs

LEMMA OutFields ==
  ASSUME TypeOK
  PROVE  /\ out.tree \in [version : Versions \cup {None}, pinned : BOOLEAN]
         /\ out.stale \subseteq Profiles
         /\ out.cache # NoCache => out.cache \in [config : Configs, generated : BOOLEAN]
         /\ out.objects \in [DOMAIN out.objects -> Versions]
         /\ DOMAIN out.objects \subseteq Profiles
         /\ out.library \in Libraries \cup {None}
         /\ out.files \subseteq FilesOfHost
         /\ out.share \in Versions \cup {None}
  BY DEF TypeOK, Outs

LEMMA ProfileOfBuild ==
  ASSUME TypeOK, out.cache # NoCache
  PROVE  BuildProfile \in Profiles
<1>1. out.cache.config \in Configs
  BY OutFields
<1>2. Profile(run.env) \in Profiles
  BY DEF TypeOK, Profiles
<1>. QED
  BY <1>1, <1>2 DEF BuildProfile, Configs

LEMMA CompiledIsLibrary ==
  ASSUME TypeOK, out.cache # NoCache, BuildProfile \in DOMAIN out.objects
  PROVE  Compiled \in Libraries
<1>1. out.cache.config \in Configs
  BY OutFields
<1>2. [out.cache.config EXCEPT !.profile = BuildProfile] \in Configs
  BY <1>1, ProfileOfBuild, ConfigProfile
<1>3. out.objects[BuildProfile] \in Versions
  BY OutFields
<1>. QED
  BY <1>2, <1>3 DEF Compiled, Libraries

LEMMA FilesAreOfHost ==
  ASSUME TypeOK
  PROVE  InstalledFiles \subseteq FilesOfHost /\ BuiltFiles \subseteq FilesOfHost
<1>1. InstalledFiles \subseteq FilesOfHost
  BY DEF InstalledFiles, FilesOfHost, Installable, LibFile
<1>2. CASE host.os = "windows"
  <2>1. BuildProfile \in Profiles
    BY <1>2 DEF BuildProfile, TypeOK, Profiles
  <2>2. ASSUME NEW name \in {"speechPlayer", "ucd"}
        PROVE  LibFile(<<name, BuildProfile>>, StaticExt, name, "static") \in FilesOfHost
    BY <2>1 DEF FilesOfHost
  <2>. QED
    BY <1>1, <1>2, <2>2 DEF BuiltFiles
<1>3. CASE host.os # "windows"
  BY <1>1, <1>3 DEF BuiltFiles, FilesOfHost
<1>. QED
  BY <1>2, <1>3

LEMMA SameHost ==
  ASSUME host' = host
  PROVE  Outs' = Outs
  BY DEF Outs, Libraries, Configs, Profiles, FilesOfHost, Installable, StaticExt, SharedExt

\* Changes of one field of OUT_DIR.
LEMMA FieldType ==
  ASSUME NEW o \in Outs
  PROVE  /\ \A b \in Versions \cup {None, "docs.rs"} : [o EXCEPT !.bindings = b] \in Outs
         /\ \A d \in {None, "share"} : [o EXCEPT !.dataDir = d] \in Outs
         /\ \A c \in [config : Configs, generated : BOOLEAN] : [o EXCEPT !.cache = c] \in Outs
         /\ \A t \in [version : Versions \cup {None}, pinned : BOOLEAN] :
               [o EXCEPT !.tree = t] \in Outs
         /\ \A P \in SUBSET Profiles : [o EXCEPT !.stale = P] \in Outs
         /\ \A f \in UNION {[P -> Versions] : P \in SUBSET Profiles} :
               [o EXCEPT !.objects = f] \in Outs
         /\ \A l \in Libraries : [o EXCEPT !.library = l] \in Outs
         /\ \A F \in SUBSET FilesOfHost : [o EXCEPT !.files = F] \in Outs
         /\ \A v \in Versions : [o EXCEPT !.share = v] \in Outs
  BY DEF Outs

\* A step of the script leaves the world as it is.
LEMMA WorldStays ==
  ASSUME TypeOK, UNCHANGED world
  PROVE  /\ Outs' = Outs
         /\ host' \in Hosts /\ env' \in host'.environments
         /\ lock' \in Versions /\ checkout' \in Versions /\ edits' \in Nat
  BY SameHost DEF TypeOK, world

LEMMA GotoType ==
  ASSUME TypeOK, UNCHANGED world, NEW pc, Goto(pc),
         pc \in {"idle", "docs", "materialize", "bindgen", "configure", "compile",
                "install", "emit"}
  PROVE  /\ run' = [pc |-> pc, env |-> run.env, pin |-> run.pin]
         /\ run' \in [pc : {"idle", "docs", "materialize", "bindgen", "configure",
                            "compile", "install", "emit"},
                      env : host'.environments, pin : Versions \cup {None}]
  BY DEF TypeOK, world, Goto

LEMMA EditType ==
  ASSUME TypeOK, Edit
  PROVE  TypeOK'
<1>1. host' = host /\ Outs' = Outs
  BY SameHost DEF Edit
<1>2. env' \in host.environments /\ lock' \in Versions /\ checkout' \in Versions
  BY DEF TypeOK, Edit
<1>3. touched' \subseteq {"lock", "checkout", "headers"}
  BY DEF TypeOK, Edit
<1>4. edits' \in Nat /\ UNCHANGED <<run, out, placed, faults>>
  BY DEF TypeOK, Edit
<1>. QED
  BY <1>1, <1>2, <1>3, <1>4 DEF TypeOK

LEMMA StartType ==
  ASSUME TypeOK, Start
  PROVE  TypeOK'
<1>1. Outs' = Outs /\ UNCHANGED <<world, out, placed, faults>>
  BY SameHost DEF Start, world
<1>2. run' \in [pc : {"idle", "docs", "materialize", "bindgen", "configure", "compile",
                     "install", "emit"},
               env : host.environments, pin : Versions \cup {None}]
  BY DEF TypeOK, Start
<1>3. touched' = {}
  BY DEF Start
<1>. QED
  BY <1>1, <1>2, <1>3 DEF TypeOK, world

LEMMA MaterializeType ==
  ASSUME TypeOK, Materialize
  PROVE  TypeOK'
<1>1. UNCHANGED <<world, placed, last, faults>> /\ Goto("bindgen")
  BY DEF Materialize
<1>2. touched' \subseteq {"lock", "checkout", "headers"}
  BY DEF Materialize, TypeOK
<1>3. NewTree \in [version : Versions \cup {None}, pinned : BOOLEAN]
  BY DEF NewTree, WantedSource, TypeOK, Overrides, IsSet
<1>4. out' \in Outs
  <2>1. [out EXCEPT !.tree = NewTree] \in Outs
    BY <1>3, FieldType DEF TypeOK
  <2>2. [[out EXCEPT !.tree = NewTree] EXCEPT !.stale = DOMAIN out.objects] \in Outs
    BY <2>1, OutFields, FieldType, Zenon
  <2>. QED
    BY <2>1, <2>2 DEF Materialize, TypeOK
<1>. QED
  BY <1>1, <1>2, <1>4, WorldStays, GotoType DEF TypeOK

LEMMA CompileType ==
  ASSUME TypeOK, Compile, out.cache # NoCache, out.tree.version \in Versions
  PROVE  TypeOK'
<1>1. UNCHANGED <<world, touched, placed, last, faults>> /\ Goto("install")
  BY DEF Compile
<1>. DEFINE p == BuildProfile
            made == IF p \in DOMAIN out.objects /\ p \notin out.stale
                    THEN out.objects[p] ELSE out.tree.version
            objects == [q \in DOMAIN out.objects \cup {p} |->
                           IF q = p THEN made ELSE out.objects[q]]
<1>2. p \in Profiles /\ made \in Versions
  BY ProfileOfBuild, OutFields
<1>3. objects \in [DOMAIN out.objects \cup {p} -> Versions]
  BY <1>2, OutFields
<1>4. objects \in UNION {[P -> Versions] : P \in SUBSET Profiles}
  <2>1. DOMAIN out.objects \cup {p} \in SUBSET Profiles
    BY <1>2, OutFields
  <2>. QED
    BY <1>3, <2>1
<1>5. out' = [out EXCEPT !.objects = objects, !.stale = out.stale \ {p},
                         !.files = out.files \cup BuiltFiles]
  BY DEF Compile
<1>6. out' \in Outs
  <2>. HIDE DEF p, objects
  <2>1. out.stale \ {p} \subseteq Profiles /\ out.files \cup BuiltFiles \subseteq FilesOfHost
    BY OutFields, FilesAreOfHost
  <2>2. [out EXCEPT !.objects = objects] \in Outs
    BY <1>4, FieldType DEF TypeOK
  <2>3. [out EXCEPT !.objects = objects, !.stale = out.stale \ {p}] \in Outs
    BY <2>1, <2>2, FieldType, Zenon
  <2>4. [[out EXCEPT !.objects = objects, !.stale = out.stale \ {p}]
           EXCEPT !.files = out.files \cup BuiltFiles] \in Outs
    BY <2>1, <2>3, FieldType, Zenon
  <2>. QED
    BY <1>5, <2>4, Zenon
<1>. QED
  BY <1>1, <1>6, WorldStays, GotoType DEF TypeOK

-----------------------------------------------------------------------------
(* Steps.                                                                  *)

\* What is made of OUT_DIR and the environment of the run stays with them.
LEMMA SameBuild ==
  ASSUME host' = host, run'.env = run.env, out'.cache = out.cache, out'.objects = out.objects
  PROVE  /\ BuildProfile' = BuildProfile
         /\ Compiled' = Compiled
         /\ InstalledFiles' = InstalledFiles
         /\ BuiltFiles' = BuiltFiles
<1>1. BuildProfile' = BuildProfile
  BY DEF BuildProfile, Profile, IsSet
<1>2. \A lib : UsesSystem(lib)' = UsesSystem(lib)
  BY DEF UsesSystem
<1>3. Compiled' = Compiled
  BY <1>1, <1>2 DEF Compiled
<1>4. InstalledFiles' = InstalledFiles
  BY DEF InstalledFiles, StaticExt, SharedExt, LibFile
<1>5. BuiltFiles' = BuiltFiles
  BY <1>1 DEF BuiltFiles, StaticExt, LibFile
<1>. QED
  BY <1>1, <1>3, <1>4, <1>5

LEMMA SameLinks ==
  ASSUME host' = host, run'.env = run.env, out'.files = out.files
  PROVE  /\ LinkDirectives(run.env)' = LinkDirectives(run.env)
         /\ ExtractLibAssets' = ExtractLibAssets
         /\ CanEmit' = CanEmit
<1>1. \A shared : ExtractLibNames(shared)' = ExtractLibNames(shared)
  BY DEF ExtractLibNames
<1>2. PlatformDirectives' = PlatformDirectives
  BY DEF PlatformDirectives, Directive, FindsClangRuntime, SystemLibDirectives,
         ResolvedSystemLib
<1>3. \A e : LinkDirectives(e)' = LinkDirectives(e)
  BY <1>1, <1>2 DEF LinkDirectives, Directive
<1>4. ExtractLibAssets' = ExtractLibAssets
  BY DEF ExtractLibAssets
<1>5. CanEmit' = CanEmit
  BY <1>1 DEF CanEmit, GetCargoTargetDir, BuildsShared
<1>. QED
  BY <1>3, <1>4, <1>5

LEMMA NoneUnderWay ==
  ASSUME Recorded, run.pc # "idle"
  PROVE  last = None /\ ~Ended
  BY DEF Recorded, Ended

\* Before a run has its tree, and after one has failed.
LEMMA NothingReached ==
  ASSUME TypeOK', Recorded', ObjectsFollow', ~Ended', run'.pc \in {"idle", "docs", "materialize"}
  PROVE  IndInv'
  BY DEF IndInv, TreeWanted, BindingsFollow, CacheThere, CompiledNow, InstalledNow, EmittedNow, At

LEMMA EditStep ==
  ASSUME IndInv, Edit
  PROVE  IndInv'
<1>1. UNCHANGED <<host, run, out, placed, last>>
  BY DEF Edit
<1>2. /\ "lock" \notin touched' => "lock" \notin touched /\ lock' = lock
      /\ "checkout" \notin touched' => "checkout" \notin touched /\ checkout' = checkout
  BY DEF Edit, IndInv, TypeOK
<1>3. TypeOK'
  BY EditType DEF IndInv
<1>4. UNCHANGED <<BuildProfile, Compiled, InstalledFiles, BuiltFiles, ExtractLibAssets, CanEmit>>
  BY <1>1, SameBuild, SameLinks
<1>5. Recorded'
  BY <1>1, <1>2, SameLinks DEF IndInv, Recorded, Ended
<1>6. TreeWanted'
  BY <1>1, <1>2 DEF IndInv, TreeWanted, At, Ended
<1>7. ObjectsFollow' /\ BindingsFollow' /\ CacheThere'
  BY <1>1 DEF IndInv, ObjectsFollow, KeepsNoTimes, BindingsFollow, CacheThere, NoCache, At, Ended
<1>8. CompiledNow' /\ InstalledNow' /\ EmittedNow'
  BY <1>1, <1>4 DEF IndInv, CompiledNow, InstalledNow, EmittedNow, At, Ended
<1>. QED
  BY <1>3, <1>5, <1>6, <1>7, <1>8 DEF IndInv

LEMMA StartStep ==
  ASSUME IndInv, Start
  PROVE  IndInv'
<1>1. TypeOK'
  BY StartType DEF IndInv
<1>2. UNCHANGED <<host, lock, out>> /\ last' = None
  BY DEF Start, world
<1>3. /\ run'.pc = IF IsSet(env, "DOCS_RS") THEN "docs" ELSE "materialize"
      /\ run'.env = env /\ run'.pin = lock
  BY DEF Start
<1>4. ~Ended'
  BY <1>2 DEF Ended
<1>5. Recorded'
  BY <1>2, <1>3, <1>4 DEF Recorded, IsSet, IndInv, TypeOK
<1>6. ObjectsFollow'
  BY <1>2 DEF IndInv, ObjectsFollow, KeepsNoTimes
<1>. QED
  BY <1>1, <1>3, <1>4, <1>5, <1>6, NothingReached

\* A step within a run.
LEMMA OnItsWay ==
  ASSUME IndInv, run.pc # "idle", UNCHANGED <<world, last>>, touched \subseteq touched',
         NEW pc, Goto(pc), pc # "docs"
  PROVE  /\ Recorded' /\ ~Ended /\ ~Ended' /\ last' = None
         /\ run'.pc = pc /\ run'.env = run.env /\ run'.pin = run.pin
         /\ UNCHANGED <<host, lock, checkout>>
<1>1. last = None /\ ~Ended
  BY NoneUnderWay DEF IndInv
<1>2. run' = [pc |-> pc, env |-> run.env, pin |-> run.pin]
  BY DEF IndInv, TypeOK, Goto
<1>3. ~Ended' /\ last' = None
  BY <1>1 DEF Ended
<1>4. UNCHANGED <<host, lock, checkout>>
  BY DEF world
<1>5. Recorded'
  BY <1>2, <1>3, <1>4 DEF IndInv, Recorded
<1>. QED
  BY <1>1, <1>2, <1>3, <1>4, <1>5

LEMMA MaterializeStep ==
  ASSUME IndInv, Materialize
  PROVE  IndInv'
<1>1. TypeOK'
  BY MaterializeType DEF IndInv
<1>2. run.pc = "materialize" /\ UNCHANGED <<world, placed, last>> /\ Goto("bindgen")
  BY DEF Materialize
<1>3. touched \subseteq touched' /\ ("checkout" \in touched' => "checkout" \in touched)
  BY DEF Materialize
<1>4. /\ Recorded' /\ ~Ended' /\ run'.pc = "bindgen" /\ run'.env = run.env
      /\ run'.pin = run.pin /\ UNCHANGED <<host, lock, checkout>>
  BY <1>2, <1>3, OnItsWay
<1>5. run.pin \in Versions /\ checkout \in Versions
  BY <1>2 DEF IndInv, Recorded, TypeOK
<1>6. /\ out'.tree.pinned = ~Overrides(run.env)
      /\ out'.tree.version = IF Overrides(run.env) THEN checkout ELSE run.pin
  <2>1. CASE Reused /\ UNCHANGED out
    <3>1. ~Overrides(run.env) /\ out.tree.version = run.pin /\ out.tree.pinned = TRUE
      BY <2>1 DEF Reused
    <3>. QED
      BY <2>1, <3>1 DEF Overrides, IsSet
  <2>2. CASE out'.tree = NewTree
    <3>1. /\ NewTree.pinned = ~Overrides(run.env)
          /\ NewTree.version = IF Overrides(run.env) THEN checkout ELSE run.pin
      BY Zenon DEF NewTree, WantedSource
    <3>. QED
      BY <2>2, <3>1, Zenon
  <2>3. (Reused /\ UNCHANGED out) \/ out'.tree = NewTree
    BY DEF Materialize, IndInv, TypeOK, Outs
  <2>. QED
    BY <2>1, <2>2, <2>3
<1>7. TreeWanted'
  BY <1>4, <1>5, <1>6 DEF TreeWanted, At
<1>8. ObjectsFollow'
  <2>1. CASE UNCHANGED out
    BY <1>4, <2>1 DEF IndInv, ObjectsFollow, KeepsNoTimes
  <2>2. CASE out' = [out EXCEPT !.tree = NewTree, !.stale = DOMAIN out.objects]
    <3>1. DOMAIN out'.objects \ out'.stale = {}
      BY <2>2 DEF IndInv, TypeOK, Outs
    <3>. QED
      BY <3>1 DEF ObjectsFollow
  <2>3. CASE MayKeepTimes(run.env)
    BY <1>4, <1>6, <2>3 DEF ObjectsFollow, KeepsNoTimes, MayKeepTimes
  <2>. QED
    BY <2>1, <2>2, <2>3 DEF Materialize
<1>. QED
  BY <1>1, <1>4, <1>7, <1>8
  DEF IndInv, BindingsFollow, CacheThere, CompiledNow, InstalledNow, EmittedNow, At

LEMMA BindgenStep ==
  ASSUME IndInv, Bindgen
  PROVE  IndInv'
<1>1. /\ run.pc = "bindgen" /\ UNCHANGED <<world, touched, placed, last, faults>>
      /\ Goto("configure") /\ out' = [out EXCEPT !.bindings = out.tree.version]
  BY DEF Bindgen
<1>2. out' \in Outs
  BY <1>1, FieldType, OutFields DEF IndInv, TypeOK
<1>3. TypeOK'
  BY <1>1, <1>2, WorldStays, GotoType DEF IndInv, TypeOK
<1>4. /\ Recorded' /\ ~Ended' /\ run'.pc = "configure" /\ run'.env = run.env
      /\ run'.pin = run.pin /\ UNCHANGED <<host, lock, checkout>>
  BY <1>1, OnItsWay
<1>5. /\ UNCHANGED <<out.tree, out.objects, out.stale, out.cache>>
      /\ out'.bindings = out'.tree.version
  BY <1>1 DEF IndInv, TypeOK, Outs
<1>6. TreeWanted'
  BY <1>1, <1>4, <1>5 DEF IndInv, TreeWanted, At
<1>7. ObjectsFollow'
  BY <1>4, <1>5 DEF IndInv, ObjectsFollow, KeepsNoTimes
<1>. QED
  BY <1>3, <1>4, <1>5, <1>6, <1>7
  DEF IndInv, BindingsFollow, CacheThere, CompiledNow, InstalledNow, EmittedNow, At

LEMMA ConfigureStep ==
  ASSUME IndInv, Configure
  PROVE  IndInv'
<1>1. /\ run.pc = "configure" /\ UNCHANGED <<world, touched, placed, last, faults>>
      /\ Goto("compile")
  BY DEF Configure
<1>. DEFINE new == [config |-> Config(run.env), generated |-> TRUE]
<1>2. new \in [config : Configs, generated : BOOLEAN] /\ new # NoCache
  BY ConfigIsOne DEF IndInv, TypeOK, NoCache
<1>3. \/ out' = out /\ out.cache # NoCache
      \/ out' = [out EXCEPT !.cache = new]
  BY DEF Configure
<1>4. out' \in Outs
  <2>. HIDE DEF new
  <2>. QED
    BY <1>2, <1>3, FieldType, Zenon DEF IndInv, TypeOK
<1>5. TypeOK'
  BY <1>1, <1>4, WorldStays, GotoType DEF IndInv, TypeOK
<1>6. /\ Recorded' /\ ~Ended' /\ run'.pc = "compile" /\ run'.env = run.env
      /\ run'.pin = run.pin /\ UNCHANGED <<host, lock, checkout>>
  BY <1>1, OnItsWay
<1>7. /\ UNCHANGED <<out.tree, out.objects, out.stale, out.bindings>>
      /\ out'.cache # NoCache
  BY <1>2, <1>3 DEF IndInv, TypeOK, Outs
<1>8. TreeWanted' /\ BindingsFollow'
  BY <1>1, <1>6, <1>7 DEF IndInv, TreeWanted, BindingsFollow, At
<1>9. ObjectsFollow'
  BY <1>6, <1>7 DEF IndInv, ObjectsFollow, KeepsNoTimes
<1>. QED
  BY <1>5, <1>6, <1>7, <1>8, <1>9
  DEF IndInv, CacheThere, CompiledNow, InstalledNow, EmittedNow, At, NoCache

LEMMA CompileStep ==
  ASSUME IndInv, Compile
  PROVE  IndInv'
<1>1. /\ run.pc = "compile" /\ UNCHANGED <<world, touched, placed, last, faults>>
      /\ Goto("install")
  BY DEF Compile
<1>2. out.cache # NoCache
  BY <1>1 DEF IndInv, CacheThere, At
<1>3. out.tree.version \in Versions
  BY <1>1 DEF IndInv, TreeWanted, At
<1>4. TypeOK'
  BY <1>2, <1>3, CompileType DEF IndInv
<1>5. /\ Recorded' /\ ~Ended' /\ run'.pc = "install" /\ run'.env = run.env
      /\ run'.pin = run.pin /\ UNCHANGED <<host, lock, checkout>>
  BY <1>1, OnItsWay
<1>. DEFINE p == BuildProfile
            made == IF p \in DOMAIN out.objects /\ p \notin out.stale
                    THEN out.objects[p] ELSE out.tree.version
            objects == [q \in DOMAIN out.objects \cup {p} |->
                           IF q = p THEN made ELSE out.objects[q]]
<1>6. /\ UNCHANGED <<out.tree, out.bindings, out.cache>>
      /\ out'.objects = objects /\ out'.stale = out.stale \ {p}
      /\ out'.files = out.files \cup BuiltFiles
  BY DEF IndInv, TypeOK, Outs, Compile
<1>7. TreeWanted' /\ BindingsFollow' /\ CacheThere'
  BY <1>1, <1>2, <1>5, <1>6 DEF IndInv, TreeWanted, BindingsFollow, CacheThere, At, NoCache
<1>8. ObjectsFollow'
  <2>. SUFFICES ASSUME KeepsNoTimes, out.tree.version # None,
                       NEW q \in DOMAIN objects \ (out.stale \ {p})
                PROVE  objects[q] = out.tree.version
    BY <1>5, <1>6 DEF ObjectsFollow, KeepsNoTimes
  <2>. QED
    BY DEF IndInv, ObjectsFollow
<1>9. CompiledNow'
  <2>1. BuildProfile' = p /\ BuiltFiles' = BuiltFiles
    BY <1>5, <1>6 DEF BuildProfile, Profile, IsSet, BuiltFiles, StaticExt, LibFile
  <2>2. p \in DOMAIN objects \ (out.stale \ {p})
    OBVIOUS
  <2>. QED
    BY <1>6, <2>1, <2>2 DEF CompiledNow
<1>. QED
  BY <1>4, <1>5, <1>7, <1>8, <1>9 DEF IndInv, InstalledNow, EmittedNow, At

\* What cmake --install leaves, whether it gets to the data or not.
LEMMA InstallType ==
  ASSUME IndInv, run.pc = "install"
  PROVE  /\ Compiled \in Libraries
         /\ [out EXCEPT !.library = Compiled, !.files = out.files \cup InstalledFiles] \in Outs
         /\ [out EXCEPT !.library = Compiled, !.files = out.files \cup InstalledFiles,
                        !.share = out.objects[BuildProfile]] \in Outs
<1>. DEFINE files == out.files \cup InstalledFiles
<1>1. Compiled \in Libraries /\ out.objects[BuildProfile] \in Versions
  BY CompiledIsLibrary, OutFields DEF IndInv, CacheThere, CompiledNow, At
<1>2. files \in SUBSET FilesOfHost
  BY OutFields, FilesAreOfHost DEF IndInv
<1>. HIDE DEF files
<1>3. [out EXCEPT !.library = Compiled] \in Outs
  BY <1>1, FieldType, Zenon DEF IndInv, TypeOK
<1>4. [[out EXCEPT !.library = Compiled] EXCEPT !.files = files] \in Outs
  BY <1>2, <1>3, FieldType, Zenon
<1>5. [[out EXCEPT !.library = Compiled, !.files = files]
         EXCEPT !.share = out.objects[BuildProfile]] \in Outs
  BY <1>1, <1>4, FieldType, Zenon
<1>. QED
  BY <1>1, <1>4, <1>5, Zenon DEF files

LEMMA InstallStep ==
  ASSUME IndInv, Install
  PROVE  IndInv'
<1>1. /\ run.pc = "install" /\ UNCHANGED <<world, touched, placed, last, faults>>
      /\ Goto("emit")
  BY DEF Install
<1>2. out' = [out EXCEPT !.library = Compiled, !.files = out.files \cup InstalledFiles,
                         !.share = out.objects[BuildProfile]]
  BY DEF Install
<1>3. out' \in Outs
  BY <1>1, <1>2, InstallType
<1>4. TypeOK'
  BY <1>1, <1>3, WorldStays, GotoType DEF IndInv, TypeOK
<1>5. /\ Recorded' /\ ~Ended' /\ run'.pc = "emit" /\ run'.env = run.env
      /\ run'.pin = run.pin /\ UNCHANGED <<host, lock, checkout>>
  BY <1>1, OnItsWay
<1>6. /\ UNCHANGED <<out.tree, out.bindings, out.cache, out.objects, out.stale>>
      /\ out'.library = Compiled /\ out'.share = out.objects[BuildProfile]
      /\ out'.files = out.files \cup InstalledFiles
  BY <1>2 DEF IndInv, TypeOK, Outs
<1>7. UNCHANGED <<BuildProfile, Compiled, InstalledFiles, BuiltFiles>>
  BY <1>5, <1>6, SameBuild
<1>8. TreeWanted' /\ BindingsFollow' /\ CacheThere'
  BY <1>1, <1>5, <1>6 DEF IndInv, TreeWanted, BindingsFollow, CacheThere, At, NoCache
<1>9. ObjectsFollow'
  BY <1>5, <1>6 DEF IndInv, ObjectsFollow, KeepsNoTimes
<1>10. CompiledNow'
  BY <1>1, <1>6, <1>7 DEF IndInv, CompiledNow, At
<1>11. InstalledNow'
  <2>1. Compiled.version = out.objects[BuildProfile]
    BY DEF Compiled
  <2>. QED
    BY <1>6, <1>7, <2>1 DEF InstalledNow
<1>. QED
  BY <1>4, <1>5, <1>8, <1>9, <1>10, <1>11 DEF IndInv, EmittedNow

LEMMA EmitStep ==
  ASSUME IndInv, Emit
  PROVE  IndInv'
<1>1. /\ run.pc = "emit" /\ CanEmit /\ UNCHANGED <<world, touched, faults>> /\ Goto("idle")
      /\ out' = [out EXCEPT !.dataDir = DataDirConst]
      /\ last' = [env |-> run.env, links |-> LinkDirectives(run.env)]
  BY DEF Emit, Succeed
<1>2. /\ out.library = Compiled /\ out.share = out.library.version
      /\ out.library.version \in Versions
  <2>1. BuildProfile \in DOMAIN out.objects /\ out.cache # NoCache
    BY <1>1 DEF IndInv, CompiledNow, CacheThere, At
  <2>2. Compiled \in Libraries
    BY <2>1, CompiledIsLibrary DEF IndInv
  <2>. QED
    BY <1>1, <2>2 DEF IndInv, InstalledNow, At, Libraries
<1>3. DataDirConst = "share"
  BY <1>2, BuildAssumption DEF DataDirConst
<1>4. placed' \in Versions \cup {None}
  BY <1>2 DEF Emit, IndInv, TypeOK
<1>5. out' \in Outs
  BY <1>1, <1>3, FieldType DEF IndInv, TypeOK
<1>6. TypeOK'
  BY <1>1, <1>4, <1>5, WorldStays, GotoType DEF IndInv, TypeOK
<1>7. /\ UNCHANGED <<out.tree, out.bindings, out.cache, out.objects, out.stale, out.files,
                     out.library, out.share>>
      /\ out'.dataDir = "share"
  BY <1>1, <1>3 DEF IndInv, TypeOK, Outs
<1>8. /\ run' = [pc |-> "idle", env |-> run.env, pin |-> run.pin]
      /\ UNCHANGED <<host, lock, checkout>>
  BY <1>1, GotoType DEF IndInv, world
<1>9. UNCHANGED <<BuildProfile, Compiled, InstalledFiles, BuiltFiles>>
  BY <1>7, <1>8, SameBuild
<1>10. /\ UNCHANGED <<CanEmit, ExtractLibAssets>>
       /\ LinkDirectives(run.env)' = LinkDirectives(run.env)
  BY <1>7, <1>8, SameLinks
<1>11. Recorded'
  BY <1>1, <1>8, <1>10 DEF IndInv, Recorded, Ended
<1>12. TreeWanted'
  BY <1>1, <1>7, <1>8 DEF IndInv, TreeWanted, At
<1>13. BindingsFollow' /\ CacheThere'
  BY <1>1, <1>7 DEF IndInv, BindingsFollow, CacheThere, At, NoCache
<1>14. ObjectsFollow'
  BY <1>7, <1>8 DEF IndInv, ObjectsFollow, KeepsNoTimes
<1>15. CompiledNow' /\ InstalledNow'
  BY <1>1, <1>7, <1>9 DEF IndInv, CompiledNow, InstalledNow, At
<1>16. EmittedNow'
  <2>1. BuildsShared(run.env) /\ ExtractLibAssets # {} => placed' # None
    BY <1>2, BuildAssumption DEF Emit
  <2>. QED
    BY <1>1, <1>7, <1>8, <1>10, <2>1 DEF EmittedNow, BuildsShared
<1>. QED
  BY <1>6, <1>11, <1>12, <1>13, <1>14, <1>15, <1>16 DEF IndInv

LEMMA DocsStep ==
  ASSUME IndInv, UseDocsrsBindings
  PROVE  IndInv'
<1>1. /\ run.pc = "docs" /\ UNCHANGED <<world, touched, placed, faults>> /\ Goto("idle")
      /\ out' = [out EXCEPT !.bindings = "docs.rs", !.dataDir = None]
      /\ last' = [env |-> run.env, links |-> {}]
  BY DEF UseDocsrsBindings, Succeed
<1>2. out' \in Outs
  <2>1. [out EXCEPT !.bindings = "docs.rs"] \in Outs
    BY FieldType DEF IndInv, TypeOK
  <2>2. [[out EXCEPT !.bindings = "docs.rs"] EXCEPT !.dataDir = None] \in Outs
    BY <2>1, FieldType
  <2>. QED
    BY <1>1, <2>2
<1>3. TypeOK'
  BY <1>1, <1>2, WorldStays, GotoType DEF IndInv, TypeOK
<1>4. /\ run' = [pc |-> "idle", env |-> run.env, pin |-> run.pin]
      /\ UNCHANGED <<host, lock>>
  BY <1>1, GotoType DEF IndInv, world
<1>5. ~Ended'
  BY <1>1, <1>4 DEF IndInv, Recorded, Ended, IsSet
<1>6. Recorded'
  BY <1>1, <1>4, <1>5 DEF IndInv, Recorded
<1>7. UNCHANGED <<out.tree, out.objects, out.stale>>
  BY <1>1 DEF IndInv, TypeOK, Outs
<1>8. ObjectsFollow'
  BY <1>4, <1>7 DEF IndInv, ObjectsFollow, KeepsNoTimes
<1>. QED
  BY <1>3, <1>4, <1>5, <1>6, <1>8, NothingReached

\* A run that has come to nothing is over.
LEMMA GivenUp ==
  ASSUME IndInv, run.pc # "idle", UNCHANGED <<world, touched, placed, last>>, Goto("idle"),
         faults' \in Nat, out' \in Outs,
         \/ out'.tree.version = None
         \/ UNCHANGED <<out.tree, out.objects, out.stale>>
  PROVE  IndInv'
<1>1. TypeOK'
  BY WorldStays, GotoType DEF IndInv, TypeOK
<1>2. Recorded' /\ ~Ended' /\ run'.pc = "idle" /\ UNCHANGED host
  BY OnItsWay
<1>3. ObjectsFollow'
  BY <1>2 DEF IndInv, ObjectsFollow, KeepsNoTimes
<1>. QED
  BY <1>1, <1>2, <1>3, NothingReached

LEMMA PanicStep ==
  ASSUME IndInv, Panic
  PROVE  IndInv'
<1>1. /\ run.pc # "idle" /\ UNCHANGED <<world, touched, placed, last, faults>> /\ Goto("idle")
      /\ out' = out \/ out' = [out EXCEPT !.dataDir = DataDirConst]
  BY DEF Panic
<1>2. DataDirConst \in {None, "share"}
  BY DEF DataDirConst
<1>3. out' \in Outs
  <2>1. [out EXCEPT !.dataDir = DataDirConst] \in Outs
    BY <1>2, FieldType, Zenon DEF IndInv, TypeOK
  <2>. QED
    BY <1>1, <2>1, Zenon DEF IndInv, TypeOK
<1>4. UNCHANGED <<out.tree, out.objects, out.stale>> /\ faults' \in Nat
  BY <1>1 DEF IndInv, TypeOK, Outs
<1>. QED
  BY <1>1, <1>3, <1>4, GivenUp

LEMMA FailStep ==
  ASSUME IndInv, Fail
  PROVE  IndInv'
<1>1. /\ run.pc # "idle" /\ UNCHANGED <<world, touched, placed, last>> /\ Goto("idle")
      /\ faults' \in Nat
  BY DEF Fail, IndInv, TypeOK
<1>2. CASE UNCHANGED out
  BY <1>1, <1>2, GivenUp DEF IndInv, TypeOK
<1>3. CASE out' = [out EXCEPT !.tree = NoTree]
  <2>1. NoTree \in [version : Versions \cup {None}, pinned : BOOLEAN]
    BY DEF NoTree
  <2>2. out' \in Outs
    BY <1>3, <2>1, FieldType DEF IndInv, TypeOK
  <2>3. out'.tree.version = None
    BY <1>3 DEF IndInv, TypeOK, Outs, NoTree
  <2>. QED
    BY <1>1, <2>2, <2>3, GivenUp
<1>4. CASE out' = [out EXCEPT !.cache = [config |-> Config(run.env), generated |-> FALSE]]
  <2>. DEFINE half == [config |-> Config(run.env), generated |-> FALSE]
  <2>1. half \in [config : Configs, generated : BOOLEAN]
    BY ConfigIsOne DEF IndInv, TypeOK
  <2>2. out' = [out EXCEPT !.cache = half]
    BY <1>4
  <2>. HIDE DEF half
  <2>3. out' \in Outs
    BY <2>1, <2>2, FieldType, Zenon DEF IndInv, TypeOK
  <2>4. UNCHANGED <<out.tree, out.objects, out.stale>>
    BY <2>2 DEF IndInv, TypeOK, Outs
  <2>. QED
    BY <1>1, <2>3, <2>4, GivenUp
<1>5. CASE /\ run.pc = "install"
           /\ out' = [out EXCEPT !.library = Compiled, !.files = out.files \cup InstalledFiles]
  <2>1. out' \in Outs
    BY <1>5, InstallType
  <2>2. UNCHANGED <<out.tree, out.objects, out.stale>>
    BY <1>5 DEF IndInv, TypeOK, Outs
  <2>. QED
    BY <1>1, <2>1, <2>2, GivenUp
<1>. QED
  BY <1>2, <1>3, <1>4, <1>5 DEF Fail

LEMMA InitHolds == Init => IndInv
<1>. SUFFICES ASSUME Init PROVE IndInv
  OBVIOUS
<1>1. EmptyOut \in Outs
  <2>1. <<>> \in [{} -> Versions]
    OBVIOUS
  <2>2. <<>> \in UNION {[P -> Versions] : P \in SUBSET Profiles}
    BY <2>1
  <2>. QED
    BY <2>2 DEF EmptyOut, Outs, NoTree
<1>2. TypeOK
  BY <1>1 DEF Init, TypeOK
<1>3. last = None /\ run.pc = "idle" /\ out.tree.version = None
  BY DEF Init, EmptyOut, NoTree
<1>. QED
  BY <1>2, <1>3 DEF IndInv, Recorded, ObjectsFollow, TreeWanted, BindingsFollow, CacheThere,
    CompiledNow, InstalledNow, EmittedNow, At, Ended

LEMMA StepHolds == IndInv /\ [Next]_vars => IndInv'
<1>. SUFFICES ASSUME IndInv, [Next]_vars PROVE IndInv'
  OBVIOUS
<1>1. CASE Next
  BY <1>1, EditStep, StartStep, DocsStep, MaterializeStep, BindgenStep, ConfigureStep, CompileStep,
     InstallStep, EmitStep, PanicStep, FailStep DEF Next, Step
<1>2. CASE UNCHANGED vars
  <2>1. UNCHANGED <<host, env, lock, checkout, edits, touched, run, out, placed, last, faults>>
    BY <1>2 DEF vars, world
  <2>2. TypeOK'
    BY <2>1, SameHost DEF IndInv, TypeOK
  <2>3. UNCHANGED <<BuildProfile, Compiled, InstalledFiles, BuiltFiles, ExtractLibAssets, CanEmit>>
    BY <2>1, SameBuild, SameLinks
  <2>4. Recorded'
    BY <2>1, SameLinks DEF IndInv, Recorded, Ended
  <2>. QED
    BY <2>1, <2>2, <2>3, <2>4 DEF IndInv, ObjectsFollow, KeepsNoTimes, TreeWanted, BindingsFollow,
      CacheThere, CompiledNow, InstalledNow, EmittedNow, At, Ended, NoCache
<1>. QED
  BY <1>1, <1>2

\* The inductive invariant, whatever is edited and whatever fails.
THEOREM IndInvAlways == Spec => []IndInv
BY InitHolds, StepHolds, PTL DEF Spec

-----------------------------------------------------------------------------
(* What is linked.                                                         *)

\* What cargo links is what its last run, which read the environment that is
\* there now and the pin that still is in the lock, has got ready.
LEMMA LinkableIsEnded ==
  ASSUME IndInv, Linkable
  PROVE  /\ Ended /\ last.links = LinkDirectives(run.env)
         /\ \A var \in BuildConfigEnvVars : env[var] = run.env[var]
         /\ run.pin = lock
         /\ IsSet(env, "ESPEAK_NG_SOURCE") => "checkout" \notin touched
<1>1. last # None /\ last.env = run.env /\ ~IsSet(run.env, "DOCS_RS")
  BY DEF IndInv, Recorded, Linkable, Unedited
<1>2. Ended
  BY <1>1 DEF Ended
<1>3. \A var \in BuildConfigEnvVars : env[var] = run.env[var]
  BY <1>1 DEF Linkable, Unedited, RerunVars
<1>4. "lock" \notin touched
  BY DEF Linkable, Unedited, RerunFiles
<1>5. ASSUME IsSet(env, "ESPEAK_NG_SOURCE") PROVE "checkout" \notin touched
  <2>1. Overrides(run.env)
    BY <1>3, <1>5 DEF Overrides, IsSet, BuildConfigEnvVars
  <2>. QED
    BY <1>1, <2>1 DEF Linkable, Unedited, RerunFiles
<1>. QED
  BY <1>1, <1>2, <1>3, <1>4, <1>5 DEF IndInv, Recorded

LEMMA SameReading ==
  ASSUME IndInv, Linkable
  PROVE  /\ Overrides(env) <=> Overrides(run.env)
         /\ BuildsShared(env) <=> BuildsShared(run.env)
         /\ Profile(env) = Profile(run.env)
<1>1. {"ESPEAK_NG_SOURCE", "ESPEAK_BUILD_SHARED_LIBS", "ESPEAK_LIB_PROFILE"}
         \subseteq BuildConfigEnvVars
  BY DEF BuildConfigEnvVars
<1>. QED
  BY <1>1, LinkableIsEnded DEF Overrides, BuildsShared, Profile, IsSet

LEMMA EndedLibrary ==
  ASSUME IndInv, Ended
  PROVE  /\ out.library = Compiled /\ Compiled \in Libraries
         /\ out.share = out.library.version /\ out.share \in Versions
         /\ BuildProfile \in DOMAIN out.objects \ out.stale
         /\ out.cache \in [config : Configs, generated : BOOLEAN]
         /\ BuiltFiles \subseteq out.files /\ InstalledFiles \subseteq out.files
<1>1. /\ BuildProfile \in DOMAIN out.objects \ out.stale /\ out.cache # NoCache
      /\ BuiltFiles \subseteq out.files
  BY DEF IndInv, CompiledNow, CacheThere, At
<1>2. /\ out.library = Compiled /\ out.share = out.library.version
      /\ InstalledFiles \subseteq out.files
  BY DEF IndInv, InstalledNow, At
<1>3. Compiled \in Libraries
  BY <1>1, CompiledIsLibrary DEF IndInv
<1>. QED
  BY <1>1, <1>2, <1>3, OutFields DEF IndInv, Libraries

LEMMA CurrentHolds == IndInv => LinkedIsCurrent
<1>. SUFFICES ASSUME IndInv, Linkable
              PROVE  LET wanted == IF Overrides(env) THEN checkout ELSE lock
                     IN  /\ out.bindings = wanted
                         /\ ~MayKeepTimes(env) =>
                               out.library.version = wanted /\ out.share = wanted
  BY DEF LinkedIsCurrent
<1>. DEFINE wanted == IF Overrides(env) THEN checkout ELSE lock
<1>1. Ended
  BY LinkableIsEnded
<1>2. /\ out.tree.version \in Versions /\ out.tree.pinned = ~Overrides(run.env)
      /\ ~Overrides(run.env) => out.tree.version = run.pin
      /\ Overrides(run.env) /\ "checkout" \notin touched => out.tree.version = checkout
  BY <1>1 DEF IndInv, TreeWanted, At
<1>3. out.tree.version = wanted
  BY <1>2, LinkableIsEnded, SameReading DEF Overrides
<1>4. out.bindings = wanted
  BY <1>1, <1>3 DEF IndInv, BindingsFollow, At
<1>5. ASSUME ~MayKeepTimes(env)
      PROVE  out.library.version = wanted /\ out.share = wanted
  <2>1. KeepsNoTimes
    BY <1>2, <1>5, SameReading DEF KeepsNoTimes, MayKeepTimes, Overrides, IsSet
  <2>2. out.objects[BuildProfile] = wanted
    BY <1>1, <1>2, <1>3, <2>1, EndedLibrary, BuildAssumption DEF IndInv, ObjectsFollow
  <2>. QED
    BY <1>1, <2>2, EndedLibrary DEF Compiled
<1>. QED
  BY <1>4, <1>5

LEMMA RunsHolds == IndInv => RunsWhereBuilt
<1>. SUFFICES ASSUME IndInv, Linkable
              PROVE  /\ \A cwd, exe \in Versions \cup {None} :
                           LocateEspeakData(None, cwd, exe) = out.library.version
                     /\ BuildsShared(env) /\ out.library.config.shared => placed # None
  BY DEF RunsWhereBuilt
<1>1. Ended
  BY LinkableIsEnded
<1>2. out.dataDir = "share" /\ out.share = out.library.version /\ out.share # None /\ out.dataDir # None
  BY <1>1, EndedLibrary, BuildAssumption DEF IndInv, EmittedNow
<1>3. ASSUME NEW cwd, NEW exe
      PROVE  LocateEspeakData(None, cwd, exe) = out.library.version
  <2>. DEFINE places == <<None, out.share, cwd, exe>>
              there == {i \in DOMAIN places : places[i] # None}
  <2>1. 2 \in there /\ 1 \notin there /\ there \subseteq 1..4
    BY <1>2
  <2>2. (CHOOSE i \in there : \A j \in there : i <= j) = 2
    BY <2>1
  <2>3. FirstThere(places, None) = out.share
    BY <2>1, <2>2 DEF FirstThere
  <2>. QED
    BY <1>2, <2>3 DEF LocateEspeakData
<1>4. ASSUME BuildsShared(env), out.library.config.shared
      PROVE  placed # None
  <2>1. BuildsShared(run.env) = TRUE /\ out.cache.config.shared
    <3>1. out.library.config.shared = out.cache.config.shared
      BY <1>1, EndedLibrary DEF Compiled, Configs
    <3>. QED
      BY <1>4, <3>1, SameReading DEF BuildsShared
  <2>2. ExtractLibNames(TRUE) # {}
    BY <1>1, <2>1 DEF IndInv, EmittedNow, CanEmit
  <2>3. host.os # "ios"
    BY <2>2, OutFields DEF ExtractLibNames, IndInv, FilesOfHost, Installable, LibFile, StaticExt, SharedExt
  <2>4. LibFile(IF host.os = "windows" THEN <<"bin">> ELSE <<"lib">>,
                SharedExt, "espeak-ng", "dylib") \in out.files
    BY <1>1, <2>1, EndedLibrary DEF InstalledFiles, SharedExt, LibFile
  <2>5. ExtractLibAssets # {}
    BY <2>3, <2>4 DEF ExtractLibAssets, LibFile, SharedExt
  <2>. QED
    BY <1>1, <2>1, <2>5 DEF IndInv, EmittedNow
<1>. QED
  BY <1>3, <1>4

\* The espeak-ng library on disk: extract_lib_names only finds what has been
\* installed, and where the extension tells the kind, it is the kind asked for.
LEMMA NamesFound ==
  ASSUME IndInv, NEW shared \in BOOLEAN, NEW name \in ExtractLibNames(shared)
  PROVE  /\ name = "espeak-ng"
         /\ \E f \in out.files :
               /\ f.name = name /\ f.dir = <<"lib">>
               /\ host.os # "windows" => f.kind = IF shared THEN "dylib" ELSE "static"
<1>. DEFINE ext == CASE host.os = "windows" -> "lib"
                     [] host.os = "macos" -> IF shared THEN "dylib" ELSE "a"
                     [] OTHER -> IF shared THEN "so" ELSE "a"
<1>1. PICK f \in out.files : f.name = name /\ f.dir = <<"lib">> /\ f.ext = ext
  BY DEF ExtractLibNames
<1>2. f \in FilesOfHost
  BY OutFields DEF IndInv
<1>3. ASSUME NEW n, NEW p PROVE LibFile(<<n, p>>, StaticExt, n, "static").dir # <<"lib">>
  BY DEF LibFile
<1>4. f \in Installable /\ (host.os # "windows" => f.ext \in {StaticExt, SharedExt})
  BY <1>1, <1>2, <1>3 DEF FilesOfHost, LibFile
<1>5. name = "espeak-ng"
  BY <1>1, <1>4 DEF Installable, LibFile
<1>6. ASSUME host.os # "windows" PROVE f.kind = IF shared THEN "dylib" ELSE "static"
  BY <1>1, <1>4, <1>6 DEF Installable, LibFile, SharedExt, StaticExt
<1>. QED
  BY <1>1, <1>5, <1>6

LEMMA PlatformNames ==
  ASSUME NEW d \in PlatformDirectives
  PROVE  d.name \notin {"espeak-ng", "speechPlayer", "ucd"}
<1>1. ASSUME NEW s \in SystemLibDirectives PROVE s.name \in SystemLibs
  BY DEF SystemLibDirectives, Directive
<1>2. SystemLibs = {"pcaudio", "sonic"}
  BY DEF SystemLibs
<1>. QED
  BY <1>1, <1>2 DEF PlatformDirectives, Directive

\* On Linux the linker is told of the libraries of the system that the script
\* resolves, and of no other.
LEMMA NamedAreResolved ==
  ASSUME IndInv, host.os = "linux"
  PROVE  {d.name : d \in LinkDirectives(run.env)} \cap SystemLibs
            = {lib \in SystemLibs : ResolvedSystemLib(lib)}
<1>1. SystemLibs = {"pcaudio", "sonic"}
  BY DEF SystemLibs
<1>2. PlatformDirectives = {Directive("dylib", "stdc++")} \cup SystemLibDirectives
  BY DEF PlatformDirectives
<1>3. ASSUME NEW d \in LinkDirectives(run.env), d.name \in SystemLibs
      PROVE  ResolvedSystemLib(d.name)
  <2>1. d \in SystemLibDirectives
    <3>1. BuildsShared(run.env) \in BOOLEAN
      BY DEF BuildsShared
    <3>2. \A name \in ExtractLibNames(BuildsShared(run.env)) : name = "espeak-ng"
      BY <3>1, NamesFound
    <3>. QED
      BY <1>1, <1>2, <1>3, <3>2 DEF LinkDirectives, Directive
  <2>. QED
    BY <2>1 DEF SystemLibDirectives, Directive
<1>4. ASSUME NEW lib \in SystemLibs, ResolvedSystemLib(lib)
      PROVE  \E d \in LinkDirectives(run.env) : d.name = lib
  <2>. DEFINE d == Directive(IF host.found[lib].lib = "a" THEN "static" ELSE "dylib", lib)
  <2>1. d \in SystemLibDirectives
    BY <1>4 DEF SystemLibDirectives
  <2>2. d \in LinkDirectives(run.env)
    BY <1>2, <2>1 DEF LinkDirectives
  <2>. QED
    BY <2>2 DEF Directive
<1>. QED
  BY <1>3, <1>4

\* What cmake_bool_is_true takes for true CMake does, too; the converse fails
\* for text that is no constant of CMake.
LEMMA ReadingsOfCmake ==
  ASSUME NEW value \in CmakeValues
  PROVE  /\ CmakeBoolIsTrue(value) => CmakeIsTrue(value)
         /\ CmakeIsTrue(value) /\ value # "other" => CmakeBoolIsTrue(value)
BY DEF CmakeValues, CmakeFalse, CmakeBoolIsTrue, CmakeIsTrue

LEMMA SystemLibsHold == IndInv => SystemLibsNamed
<1>. SUFFICES ASSUME IndInv, Linkable, host.os = "linux"
              PROVE  LET named == {d.name : d \in last.links} \cap SystemLibs
                     IN  /\ named \subseteq out.library.uses
                         /\ \A lib \in out.library.uses :
                               host.found[lib].use # "other" => lib \in named
  BY DEF SystemLibsNamed
<1>1. Ended /\ last.links = LinkDirectives(run.env)
  BY LinkableIsEnded
<1>2. {d.name : d \in last.links} \cap SystemLibs
        = {lib \in SystemLibs : ResolvedSystemLib(lib)}
  BY <1>1, NamedAreResolved
<1>3. out.library.uses = {lib \in SystemLibs : UsesSystem(lib)}
  BY <1>1, EndedLibrary DEF Compiled
<1>4. ASSUME NEW lib \in SystemLibs
      PROVE  /\ ResolvedSystemLib(lib) => UsesSystem(lib)
             /\ UsesSystem(lib) /\ host.found[lib].use # "other" => ResolvedSystemLib(lib)
  <2>1. out.cache.config.pcaudio
    BY <1>1, EndedLibrary DEF Configs
  <2>2. host.found[lib].use \in CmakeValues
    BY BuildAssumption DEF IndInv, TypeOK
  <2>. QED
    BY <2>1, <2>2, ReadingsOfCmake DEF ResolvedSystemLib, UsesSystem
<1>. QED
  BY <1>2, <1>3, <1>4

LEMMA MatchHolds == IndInv => LinkMatchesLibrary
<1>. SUFFICES ASSUME IndInv, Linkable, host.os = "windows" => Profile(env) = "Release",
                     NEW d \in last.links, d.name \in {"espeak-ng", "speechPlayer", "ucd"}
              PROVE  \E f \in out.files :
                        /\ f.name = d.name /\ f.dir \in LinkSearch
                        /\ \/ d.kind \in {"any", f.kind}
                           \/ host.os = "windows" /\ OfAnotherKind
  BY DEF LinkMatchesLibrary
<1>1. Ended /\ last.links = LinkDirectives(run.env)
  BY LinkableIsEnded
<1>. DEFINE shared == BuildsShared(run.env)
            asked == IF shared THEN "dylib" ELSE "static"
<1>2. shared \in BOOLEAN
  BY DEF BuildsShared
<1>3. CASE d.name \in {"speechPlayer", "ucd"}
  <2>1. d.kind = "static"
    BY <1>1, <1>2, <1>3, NamesFound, PlatformNames DEF LinkDirectives, Directive
  <2>. DEFINE f == LibFile(IF host.os = "windows" THEN <<d.name, BuildProfile>> ELSE <<d.name>>,
                           StaticExt, d.name, "static")
  <2>2. f \in out.files
    BY <1>1, <1>3, EndedLibrary DEF BuiltFiles
  <2>3. f.dir \in LinkSearch
    <3>1. host.os = "windows" => BuildProfile = "Release"
      BY SameReading DEF BuildProfile
    <3>. QED
      BY <1>3, <3>1 DEF LinkSearch, LibFile
  <2>4. f.name = d.name /\ f.kind = "static"
    BY DEF LibFile
  <2>. QED
    BY <2>1, <2>2, <2>3, <2>4
<1>4. CASE d.name = "espeak-ng"
  <2>1. d.kind \in {"any", asked}
    BY <1>1, <1>4, PlatformNames DEF LinkDirectives, Directive
  <2>2. \E f \in out.files :
           /\ f.name = "espeak-ng" /\ f.dir = <<"lib">>
           /\ f.kind = asked \/ (host.os = "windows" /\ OfAnotherKind)
    <3>1. CASE host.os # "windows"
      BY <1>1, <1>2, <3>1, NamesFound DEF IndInv, EmittedNow, CanEmit
    <3>2. CASE host.os = "windows"
      <4>. DEFINE kept == out.cache.config.shared
                  f == LibFile(<<"lib">>, "lib", "espeak-ng", IF kept THEN "dylib" ELSE "static")
      <4>1. f \in out.files
        BY <1>1, <3>2, EndedLibrary DEF InstalledFiles, StaticExt
      <4>2. kept \in BOOLEAN /\ out.library.config.shared = kept
        BY <1>1, EndedLibrary DEF Compiled, Configs
      <4>3. OfAnotherKind \/ kept = shared
        BY <1>2, <4>2, SameReading DEF OfAnotherKind, BuildsShared
      <4>4. f.name = "espeak-ng" /\ f.dir = <<"lib">> /\ f.kind = IF kept THEN "dylib" ELSE "static"
        BY DEF LibFile
      <4>. QED
        BY <3>2, <4>1, <4>3, <4>4
    <3>. QED
      BY <3>1, <3>2
  <2>. QED
    BY <1>4, <2>1, <2>2 DEF LinkSearch
<1>. QED
  BY <1>3, <1>4

\* For any targets, build machines, environments and versions, edits at any time
\* and failures of any step, a program is only linked with the version that is
\* asked for now, its bindings and its data; where a directory is copied with
\* its times, this is claimed of the bindings alone.
THEOREM AlwaysCurrent == Spec => []LinkedIsCurrent
BY IndInvAlways, CurrentHolds, PTL

\* The directives printed name libraries that are there, of the kind that is
\* there, whatever kind CMake was configured for before; on Windows the kind is
\* right if it has not been changed.
THEOREM DirectivesFit == Spec => []LinkMatchesLibrary
BY IndInvAlways, MatchHolds, PTL

\* The libraries of the system that are named are those CMake decided on, for
\* every value of its variables but text that is no constant of CMake; and no
\* library is ever named that it did not decide on.
THEOREM SystemLibsFit == Spec => []SystemLibsNamed
BY IndInvAlways, SystemLibsHold, PTL

\* The data of the very library that is linked is found, wherever the program
\* is started, and a shared library is in the target directory.
THEOREM FindsItsData == Spec => []RunsWhereBuilt
BY IndInvAlways, RunsHolds, PTL

=============================================================================
