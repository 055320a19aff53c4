----------------------------- MODULE BuildScript -----------------------------
(***************************************************************************)
(* The build script of espeak-rs-sys (main in crates/espeak-rs-sys/        *)
(* build.rs) over the life of one OUT_DIR, which outlives every change of  *)
(* the environment, the lock and the checkout: cargo decides whether it    *)
(* runs, the source is materialised, bindings are generated, CMake         *)
(* configures, compiles and installs, and directives for the linker are    *)
(* printed.  Any step can fail, and leaves what it has done.               *)
(*                                                                         *)
(* A version of espeak-ng stands for its source, and for what is made of   *)
(* it.  How the source gets into OUT_DIR is module SourceMaterialization;  *)
(* here it is there, all of it, or not.                                    *)
(***************************************************************************)
EXTENDS Naturals, Sequences, SequencesExt, FiniteSets

CONSTANTS
    Hosts,      \* targets, layouts and environments a script may run in
    Versions,   \* of espeak-ng
    None,
    MaxEdits,   \* bound: edits of the environment, the lock, the checkout
    MaxFaults   \* bound: failures of a step that could have succeeded

SystemLibs == {"pcaudio", "sonic"}
NdkVars == <<"ANDROID_NDK_HOME", "ANDROID_NDK_ROOT", "NDK_HOME">>

BuildConfigEnvVars ==
    {"ESPEAK_BUILD_SHARED_LIBS", "ESPEAK_LIB_PROFILE", "ESPEAK_STATIC_CRT",
     "ESPEAK_NG_SOURCE", "ANDROID_PLATFORM"} \cup Range(NdkVars)

EnvVars == BuildConfigEnvVars \cup {"DOCS_RS"}

\* What a variable in CMake's cache can hold: ON and the like, integers (2 stands
\* for those but 0 and 1), the constants CMake calls false, and all other text,
\* which CMake calls true if it is the value of a variable: 1.5, 00, auto.
CmakeFalse == {"OFF", "NO", "FALSE", "N", "IGNORE", "NOTFOUND", "-NOTFOUND", "", "0"}
CmakeValues == {"ON", "YES", "TRUE", "Y", "1", "2", "other"} \cup CmakeFalse

\* A host: the target, the machine the script runs on, OUT_DIR and PROFILE, what
\* CMake finds of each system library, whether clang names its runtime, and the
\* environments in use.
ASSUME BuildAssumption ==
    /\ None \notin Versions \cup {"share"}
    /\ MaxEdits \in Nat /\ MaxFaults \in Nat
    /\ \A h \in Hosts :
          /\ h.os \in {"linux", "macos", "windows", "ios", "android"}
          /\ h.machine \in {"linux", "macos", "windows"}
          /\ DOMAIN h.found = SystemLibs
          /\ \A lib \in SystemLibs : h.found[lib].use \in CmakeValues
          /\ \A e \in h.environments : DOMAIN e = EnvVars

VARIABLES
    host,      \* never changes
    env,       \* the environment of the next build; "unset" for a variable not set
    lock,      \* the version espeak-ng.lock pins
    checkout,  \* the version ESPEAK_NG_SOURCE leads to when it is set
    touched,   \* the files changed since the last start of the script: the lock,
               \* the checkout, the headers of the tree in OUT_DIR
    run,       \* the run of the script: where it is, and what it read
    out,       \* OUT_DIR
    placed,    \* the version of the shared library in the target directory
    last,      \* what cargo recorded of the last run, if it succeeded
    edits, faults

world == <<host, env, lock, checkout, edits>>
vars == <<world, touched, run, out, placed, last, faults>>

-----------------------------------------------------------------------------
(* Inputs.                                                                 *)

IsSet(e, var) == e[var] # "unset"

\* The first of these that is there.
FirstThere(places, missing) ==
    LET there == {i \in DOMAIN places : places[i] # missing}
    IN  IF there = {} THEN None
        ELSE places[CHOOSE i \in there : \A j \in there : i <= j]

BuildsShared(e) == e["ESPEAK_BUILD_SHARED_LIBS"] = "1"
Profile(e) == IF IsSet(e, "ESPEAK_LIB_PROFILE") THEN e["ESPEAK_LIB_PROFILE"] ELSE "Release"
Overrides(e) == IsSet(e, "ESPEAK_NG_SOURCE")

\* get_cargo_target_dir: the nearest directory above OUT_DIR named like PROFILE.
GetCargoTargetDir ==
    LET named == {n \in 1..Len(host.outDir) - 1 : host.outDir[n] = host.profile}
    IN  IF named = {} THEN None
        ELSE SubSeq(host.outDir, 1, CHOOSE n \in named : \A k \in named : k <= n)

\* android_ndk_home: the first variable that is set counts, whatever it holds.
AndroidNdkHome(e) == FirstThere([i \in 1..3 |-> e[NdkVars[i]]], "unset")

\* android_sysroot and android_toolchain_file assert that these exist.
HasSysroot(home) == home \in {"ndk", "ndk without toolchain file"}
HasToolchainFile(home) == home \in {"ndk", "ndk without sysroot"}

AndroidAbi(arch) ==
    CASE arch = "aarch64" -> "arm64-v8a"
      [] arch = "arm" -> "armeabi-v7a"
      [] arch \in {"x86", "x86_64"} -> arch
      [] OTHER -> None

\* android_api_level: 21 unless there is a number to be read.
AndroidApiLevel(e) ==
    IF e["ANDROID_PLATFORM"] \in {"unset", "android-latest"} THEN 21
    ELSE IF e["ANDROID_PLATFORM"] \in {"24", "android-24"} THEN 24 ELSE 30

\* What main defines for CMake.
Config(e) ==
    [shared |-> BuildsShared(e),
     profile |-> Profile(e),
     staticCrt |-> host.os = "windows" /\ e["ESPEAK_STATIC_CRT"] = "1",
     pcaudio |-> host.os # "macos",
     bundle |-> host.os # "ios",
     android |-> IF host.os = "android"
                 THEN <<AndroidAbi(host.arch), AndroidApiLevel(e), AndroidNdkHome(e)>>
                 ELSE <<>>]

\* What the script tells cargo to watch.  Of a run that prints nothing cargo
\* watches the files of the package.
RerunVars(e) == IF IsSet(e, "DOCS_RS") THEN {} ELSE BuildConfigEnvVars

RerunFiles(e) ==
    {"lock"} \cup IF ~IsSet(e, "DOCS_RS") /\ Overrides(e) THEN {"checkout"} ELSE {}

\* The last run succeeded, and nothing it was told has been edited since.
Unedited ==
    /\ last # None
    /\ \A var \in RerunVars(last.env) : env[var] = last.env[var]
    /\ touched \cap RerunFiles(last.env) = {}

\* cargo runs the script again unless this holds.  CargoCallbacks of bindgen has
\* it watch the headers, too: a run that has made them anew is run again.
Fresh ==
    /\ Unedited
    /\ IsSet(last.env, "DOCS_RS") \/ "headers" \notin touched

-----------------------------------------------------------------------------
(* What is in OUT_DIR.                                                     *)

NoTree == [version |-> None, pinned |-> FALSE]
NoCache == [config |-> None, generated |-> FALSE]

EmptyOut ==
    [tree |-> NoTree,          \* OUT_DIR/espeak-ng, and whether it is stamped
     stale |-> {},             \* the profiles whose objects are older than the tree
     bindings |-> None,
     dataDir |-> None,         \* ESPEAK_NG_DATA_DIR
     cache |-> NoCache,        \* build/CMakeCache.txt
     objects |-> <<>>,         \* of each profile built: the version
     library |-> None,         \* the installed library
     files |-> {},             \* libraries in lib, bin and build/src
     share |-> None]           \* share/espeak-ng-data

\* Visual Studio builds the profile it is asked for; elsewhere the profile is
\* one of the things CMake was configured with.
BuildProfile ==
    IF host.os = "windows" THEN Profile(run.env) ELSE out.cache.config.profile

\* A library on disk, and what is in it: code, or with a shared library or its
\* import library the reference to code elsewhere.
LibFile(dir, ext, name, kind) == [dir |-> dir, ext |-> ext, name |-> name, kind |-> kind]

StaticExt == IF host.os = "windows" THEN "lib" ELSE "a"
SharedExt ==
    CASE host.os = "windows" -> "dll" [] host.os \in {"macos", "ios"} -> "dylib" [] OTHER -> "so"

\* speechPlayer and ucd stay in the build directory.
BuiltFiles ==
    {LibFile(IF host.os = "windows" THEN <<name, BuildProfile>> ELSE <<name>>,
             StaticExt, name, "static") :
        name \in {"speechPlayer", "ucd"}}

\* CMAKE_INSTALL_LIBDIR is lib; a DLL goes to bin and its import library to lib.
InstalledFiles ==
    IF ~out.cache.config.shared THEN {LibFile(<<"lib">>, StaticExt, "espeak-ng", "static")}
    ELSE IF host.os = "windows" THEN {LibFile(<<"lib">>, "lib", "espeak-ng", "dylib"),
                                      LibFile(<<"bin">>, "dll", "espeak-ng", "dylib")}
    ELSE {LibFile(<<"lib">>, SharedExt, "espeak-ng", "dylib")}

\* What CMake makes of a cached variable that is tested with if().
CmakeIsTrue(value) == value \notin CmakeFalse

\* espeak-ng builds a library of its own unless it uses one of the system.
UsesSystem(lib) ==
    /\ lib = "pcaudio" => out.cache.config.pcaudio
    /\ CmakeIsTrue(host.found[lib].use)
    /\ host.found[lib].lib # "NOTFOUND" /\ host.found[lib].inc # "NOTFOUND"

-----------------------------------------------------------------------------
(* What the script makes of it.                                            *)

Directive(kind, name) == [kind |-> kind, name |-> name]

\* Faulty variant: a library of any kind will do.
ExtractLibNamesOfAnyKind(shared) ==
    {f.name : f \in {f \in out.files : f.dir = <<"lib">> /\ f.ext \in {StaticExt, SharedExt}}}

\* extract_lib_names
ExtractLibNames(shared) ==
    LET ext == CASE host.os = "windows" -> "lib"
                 [] host.os = "macos" -> IF shared THEN "dylib" ELSE "a"
                 [] OTHER -> IF shared THEN "so" ELSE "a"
    IN  {f.name : f \in {f \in out.files : f.dir = <<"lib">> /\ f.ext = ext}}

\* extract_lib_assets
ExtractLibAssets ==
    LET ext == CASE host.os = "windows" -> "dll" [] host.os = "macos" -> "dylib" [] OTHER -> "so"
        dirs == IF host.os = "windows" THEN {<<"lib">>, <<"bin">>} ELSE {<<"lib">>}
    IN  {f \in out.files : f.dir \in dirs /\ f.ext = ext}

\* Faulty variant: whatever is not OFF.
TrueUnlessOff(value) == value # "OFF"

\* cmake_bool_is_true: ON, YES, TRUE, Y, and integers but zero.
CmakeBoolIsTrue(value) ==
    value \in {"ON", "YES", "TRUE", "Y"} \/ value \in {"1", "2"}

\* resolved_system_lib, on the cache
ResolvedSystemLib(lib) ==
    /\ CmakeBoolIsTrue(host.found[lib].use)
    /\ host.found[lib].lib # "NOTFOUND" /\ host.found[lib].inc # "NOTFOUND"

SystemLibDirectives ==
    {Directive(IF host.found[lib].lib = "a" THEN "static" ELSE "dylib", lib) :
        lib \in {lib \in SystemLibs : ResolvedSystemLib(lib)}}

\* macos_link_search_path: clang runs, and names the directory of its runtime.
FindsClangRuntime == host.os = "macos" /\ host.clangRuntime

PlatformDirectives ==
    CASE host.os = "macos" ->
           {Directive("framework", "Foundation"), Directive("dylib", "c++")}
             \cup IF FindsClangRuntime THEN {Directive("dylib", "clang_rt.osx")} ELSE {}
      [] host.os = "android" -> {Directive("dylib", "c++_shared")}
      [] host.os = "windows" ->
           {Directive("dylib", "advapi32")}
             \cup IF host.debugAssertions THEN {Directive("dylib", "msvcrtd")} ELSE {}
      [] host.os = "linux" -> {Directive("dylib", "stdc++")} \cup SystemLibDirectives
      [] OTHER -> {}

LinkDirectives(e) ==
    {Directive("static", "speechPlayer"), Directive("any", "espeak-ng"), Directive("static", "ucd")}
      \cup {Directive(IF BuildsShared(e) THEN "dylib" ELSE "static", name) :
               name \in ExtractLibNames(BuildsShared(e))}
      \cup PlatformDirectives

\* Below OUT_DIR, or OUT_DIR/build/src for the two that are not installed.
LinkSearch ==
    {<<"lib">>, <<"speechPlayer">>, <<"ucd">>}
      \cup IF host.os = "windows" THEN {<<"speechPlayer", "Release">>, <<"ucd", "Release">>}
           ELSE {}

-----------------------------------------------------------------------------

Init ==
    /\ host \in Hosts
    /\ env \in host.environments
    /\ lock \in Versions
    /\ checkout \in Versions
    /\ touched = {}
    /\ run = [pc |-> "idle", env |-> env, pin |-> None]
    /\ out = EmptyOut
    /\ placed = None
    /\ last = None
    /\ edits = 0 /\ faults = 0

\* Somebody sets variables, re-pins, or edits the checkout, at any time.
Edit ==
    /\ edits < MaxEdits
    /\ edits' = edits + 1
    /\ \/ env' \in host.environments \ {env} /\ UNCHANGED <<lock, checkout, touched>>
       \/ /\ lock' \in Versions \ {lock} /\ touched' = touched \cup {"lock"}
          /\ UNCHANGED <<env, checkout>>
       \/ /\ checkout' \in Versions \ {checkout} /\ touched' = touched \cup {"checkout"}
          /\ UNCHANGED <<env, lock>>
    /\ UNCHANGED <<host, run, out, placed, last, faults>>

Goto(pc) == run' = [run EXCEPT !.pc = pc]

\* `cargo build`: the record of the last run goes, whatever comes of this one.
Start ==
    /\ run.pc = "idle" /\ ~Fresh
    /\ run' = [pc |-> IF IsSet(env, "DOCS_RS") THEN "docs" ELSE "materialize",
               env |-> env, pin |-> lock]
    /\ last' = None
    /\ touched' = {}
    /\ UNCHANGED <<world, out, placed, faults>>

Succeed(links) == last' = [env |-> run.env, links |-> links]

UseDocsrsBindings ==
    /\ run.pc = "docs"
    /\ out' = [out EXCEPT !.bindings = "docs.rs", !.dataDir = None]
    /\ Succeed({}) /\ Goto("idle")
    /\ UNCHANGED <<world, touched, placed, faults>>

\* Of the pinned version a stamped tree is reused; every other tree is new.
Reused == ~Overrides(run.env) /\ out.tree = [version |-> run.pin, pinned |-> TRUE]
WantedSource == IF Overrides(run.env) THEN checkout ELSE run.pin

\* std::fs::copy keeps the time of a file where it clones (on a Mac) or calls
\* CopyFileEx (on Windows), whatever the target; an archive is unpacked with
\* set_preserve_mtime(false).
MayKeepTimes(e) == Overrides(e) /\ host.machine \in {"macos", "windows"}

NewTree == [version |-> WantedSource, pinned |-> ~Overrides(run.env)]

\* Faulty variant: files keep the times they have in the archive.
MaterializeKeepingTimes ==
    /\ run.pc = "materialize"
    /\ out' = IF Reused THEN out ELSE [out EXCEPT !.tree = NewTree]
    /\ Goto("bindgen")
    /\ UNCHANGED <<world, touched, placed, last, faults>>

\* Faulty variant: a tree that is not reused is in the way of the new one.
MaterializeOverNothing ==
    /\ run.pc = "materialize"
    /\ Reused \/ out.tree = NoTree
    /\ IF Reused THEN UNCHANGED <<out, touched>>
       ELSE /\ out' = [out EXCEPT !.tree = NewTree, !.stale = DOMAIN out.objects]
            /\ touched' = touched \cup {"headers"}
    /\ Goto("bindgen")
    /\ UNCHANGED <<world, placed, last, faults>>

\* All objects are older than the files of a new tree, and so is the start of
\* this run, unless the files have kept their times.
Materialize ==
    /\ run.pc = "materialize"
    /\ \/ Reused /\ UNCHANGED <<out, touched>>
       \/ /\ ~Reused
          /\ out' = [out EXCEPT !.tree = NewTree, !.stale = DOMAIN out.objects]
          /\ touched' = touched \cup {"headers"}
       \/ /\ ~Reused /\ MayKeepTimes(run.env)
          /\ out' = [out EXCEPT !.tree = NewTree]
          /\ UNCHANGED touched
    /\ Goto("bindgen")
    /\ UNCHANGED <<world, placed, last, faults>>

\* The conditions a step asserts or expects.
CanBindgen == host.os = "android" => HasSysroot(AndroidNdkHome(run.env))
CanConfigure ==
    host.os = "android" => /\ HasToolchainFile(AndroidNdkHome(run.env))
                           /\ AndroidAbi(host.arch) # None
CanEmit ==
    /\ ExtractLibNames(BuildsShared(run.env)) # {}
    /\ BuildsShared(run.env) => GetCargoTargetDir # None

Bindgen ==
    /\ run.pc = "bindgen" /\ CanBindgen
    /\ out' = [out EXCEPT !.bindings = out.tree.version]
    /\ Goto("configure")
    /\ UNCHANGED <<world, touched, placed, last, faults>>

\* always_configure(false): not if there is a cache, whatever is in it.
Configure ==
    /\ run.pc = "configure" /\ CanConfigure
    /\ out' = IF out.cache # NoCache THEN out
              ELSE [out EXCEPT !.cache = [config |-> Config(run.env), generated |-> TRUE]]
    /\ Goto("compile")
    /\ UNCHANGED <<world, touched, placed, last, faults>>

\* Objects are made when there are none, or older ones than the sources.
Compile ==
    /\ run.pc = "compile" /\ out.cache.generated
    /\ LET p == BuildProfile
           made == IF p \in DOMAIN out.objects /\ p \notin out.stale
                   THEN out.objects[p] ELSE out.tree.version
       IN  out' = [out EXCEPT !.objects = [q \in DOMAIN @ \cup {p} |-> IF q = p THEN made ELSE @[q]],
                              !.stale = @ \ {p},
                              !.files = @ \cup BuiltFiles]
    /\ Goto("install")
    /\ UNCHANGED <<world, touched, placed, last, faults>>

\* The library as it was compiled.
Compiled ==
    [version |-> out.objects[BuildProfile],
     config |-> [out.cache.config EXCEPT !.profile = BuildProfile],
     uses |-> {lib \in SystemLibs : UsesSystem(lib)}]

Install ==
    /\ run.pc = "install"
    /\ out' = [out EXCEPT !.library = Compiled, !.files = @ \cup InstalledFiles,
                          !.share = out.objects[BuildProfile]]
    /\ Goto("emit")
    /\ UNCHANGED <<world, touched, placed, last, faults>>

DataDirConst == IF out.share = None THEN None ELSE "share"

\* The constant and the directives.  A shared library is linked into the target
\* directory, unless something of its name is there.
Emit ==
    /\ run.pc = "emit" /\ CanEmit
    /\ out' = [out EXCEPT !.dataDir = DataDirConst]
    /\ placed' = IF BuildsShared(run.env) /\ placed = None /\ ExtractLibAssets # {}
                 THEN out.library.version ELSE placed
    /\ Succeed(LinkDirectives(run.env)) /\ Goto("idle")
    /\ UNCHANGED <<world, touched, faults>>

\* The script panics where it asserts, and CMake builds nothing of a directory
\* it has not generated.
Panic ==
    /\ \/ run.pc = "bindgen" /\ ~CanBindgen
       \/ run.pc = "configure" /\ ~CanConfigure
       \/ run.pc = "compile" /\ ~out.cache.generated
       \/ run.pc = "emit" /\ ~CanEmit
    /\ Goto("idle")
    /\ out' = IF run.pc = "emit" THEN [out EXCEPT !.dataDir = DataDirConst] ELSE out
    /\ UNCHANGED <<world, touched, placed, last, faults>>

\* A step that could have succeeded fails, or the build is killed.  What is left:
\* no tree, for the old one was removed first; a cache of a configuration that
\* did not end; a library without its data.
Fail ==
    /\ run.pc # "idle" /\ faults < MaxFaults
    /\ faults' = faults + 1
    /\ \/ UNCHANGED out
       \/ /\ run.pc = "materialize" /\ ~Reused
          /\ out' = [out EXCEPT !.tree = NoTree]
       \/ /\ run.pc = "configure" /\ CanConfigure /\ out.cache = NoCache
          /\ out' = [out EXCEPT !.cache = [config |-> Config(run.env), generated |-> FALSE]]
       \/ /\ run.pc = "install"
          /\ out' = [out EXCEPT !.library = Compiled, !.files = @ \cup InstalledFiles]
    /\ Goto("idle")
    /\ UNCHANGED <<world, touched, placed, last>>

Step ==
    \/ UseDocsrsBindings \/ Materialize \/ Bindgen \/ Configure \/ Compile \/ Install
    \/ Emit \/ Panic

Next == Edit \/ Start \/ Step \/ Fail

Spec == Init /\ [][Next]_vars

\* A build that runs goes on, and somebody builds again.
FairSpec == Spec /\ WF_vars(Start) /\ WF_vars(Step)

-----------------------------------------------------------------------------
(* The program that is linked, at run time.                                *)

\* Faulty variant: the working directory comes first.
LocateFromCwd(variable, cwd, exe) ==
    FirstThere(<<variable, cwd, IF out.dataDir = None THEN None ELSE out.share, exe>>, None)

\* locate_espeak_data: each place by the version of the data in it, if any.
LocateEspeakData(variable, cwd, exe) ==
    FirstThere(<<variable, IF out.dataDir = None THEN None ELSE out.share, cwd, exe>>, None)

-----------------------------------------------------------------------------
(* Properties.                                                             *)

\* What cargo links a program with, and is not built for docs.rs.
Linkable == Unedited /\ ~IsSet(last.env, "DOCS_RS")

\* Whenever a build has succeeded and nothing has been edited since it started,
\* the library, its bindings and its data are of one version, the one the lock
\* or ESPEAK_NG_SOURCE now asks for: whatever was built in the same OUT_DIR
\* before, failed, or was edited under a running build (the rerun-if directives,
\* build.rs:677-725; the times of extracted files, 303-305).  Of a directory that
\* is copied with its times only the bindings are: its files may be older than
\* the objects at hand, which then are not made again.
LinkedIsCurrent ==
    Linkable =>
       LET wanted == IF Overrides(env) THEN checkout ELSE lock
       IN  /\ out.bindings = wanted
           /\ ~MayKeepTimes(env) => out.library.version = wanted /\ out.share = wanted

\* CMake's cache has kept the kind of library an earlier build asked for.
OfAnotherKind == out.library.config.shared # BuildsShared(env)

\* The directives fit what is on disk: every espeak-ng library that is named is
\* in a directory that is searched, and of the kind that is named, although CMake
\* keeps to the kind it was first configured for (ensure_libs_installed stops
\* the others, build.rs:351-364).  On Windows an import library passes for a
\* static one, so there the kind is right only if it has never been changed;
\* and Visual Studio's directories are searched for Release only (build.rs:806).
LinkMatchesLibrary ==
    Linkable /\ (host.os = "windows" => Profile(env) = "Release") =>
       \A d \in last.links :
          d.name \in {"espeak-ng", "speechPlayer", "ucd"} =>
             \E f \in out.files :
                /\ f.name = d.name /\ f.dir \in LinkSearch
                /\ d.kind \in {"any", f.kind} \/ (host.os = "windows" /\ OfAnotherKind)

\* The linker is told of a library of the system only if the espeak-ng library
\* calls it, and of all it calls: the script reads CMake's cache after CMake, by
\* a rule of its own (build.rs:532-595).  Of a variable that is neither one of
\* CMake's names for true and false nor an integer CMake thinks otherwise.
SystemLibsNamed ==
    Linkable /\ host.os = "linux" =>
       LET named == {d.name : d \in last.links} \cap SystemLibs
       IN  /\ named \subseteq out.library.uses
           /\ \A lib \in out.library.uses : host.found[lib].use # "other" => lib \in named

\* A program finds the data of the very library it is linked with, in whatever
\* directory it is started and whatever lies next to it, as long as
\* PIPER_ESPEAKNG_DATA_DIRECTORY is not set or leads nowhere; and the shared
\* library is in the target directory (building.adoc:18-29).
RunsWhereBuilt ==
    Linkable =>
       /\ \A cwd, exe \in Versions \cup {None} :
             LocateEspeakData(None, cwd, exe) = out.library.version
       /\ BuildsShared(env) /\ out.library.config.shared => placed # None

\* The ends no further build gets out of without another environment or an
\* empty OUT_DIR: a configuration that did not end stays in the cache, and so
\* does the kind of library; extract_lib_names knows no dylib on iOS; an NDK or
\* a target directory is missing.
Stuck ==
    \/ out.cache # NoCache /\ ~out.cache.generated
    \/ /\ host.os # "windows" /\ out.cache # NoCache
       /\ out.cache.config.shared # BuildsShared(env)
    \/ host.os = "ios" /\ BuildsShared(env)
    \/ host.os = "android" /\ LET home == AndroidNdkHome(env)
                              IN  ~HasSysroot(home) \/ ~HasToolchainFile(home)
                                    \/ AndroidAbi(host.arch) = None
    \/ BuildsShared(env) /\ GetCargoTargetDir = None

\* Once nothing is edited and nothing fails any more, the build succeeds from
\* whatever the failures left behind, but for the ends named above, and cargo
\* sees nothing left to do.  With ESPEAK_NG_SOURCE set it may build again and
\* again, for each run copies the headers anew; each of these builds succeeds.
Recovers ==
    /\ []<>(Unedited \/ Stuck)
    /\ <>[](Fresh \/ Stuck \/ Overrides(env))

=============================================================================
