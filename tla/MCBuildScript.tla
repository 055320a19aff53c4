---------------------------- MODULE MCBuildScript ----------------------------
(* TLC instance of BuildScript: a host of each kind, with the settings that  *)
(* matter to it, two versions of espeak-ng.                                  *)
EXTENDS BuildScript, TLC

CONSTANTS v1, v2

MCVersions == {v1, v2}

\* An environment with these variables set.
Env(set) == set @@ [var \in EnvVars |-> "unset"]
Set(var, value) == var :> value

Plain == Env(<<>>)
Shared == Env(Set("ESPEAK_BUILD_SHARED_LIBS", "1"))
Zero == Env(Set("ESPEAK_BUILD_SHARED_LIBS", "0"))
Debug == Env(Set("ESPEAK_LIB_PROFILE", "Debug"))
Local == Env(Set("ESPEAK_NG_SOURCE", "checkout"))
LocalShared == Env(Set("ESPEAK_NG_SOURCE", "checkout") @@ Set("ESPEAK_BUILD_SHARED_LIBS", "1"))
Docs == Env(Set("DOCS_RS", "1"))
StaticCrt == Env(Set("ESPEAK_STATIC_CRT", "1"))
NdkLocal == Env(Set("ANDROID_NDK_ROOT", "ndk") @@ Set("ESPEAK_NG_SOURCE", "checkout"))
Ndk == Env(Set("ANDROID_NDK_ROOT", "ndk"))
Ndk24 == Env(Set("ANDROID_NDK_ROOT", "ndk") @@ Set("ANDROID_PLATFORM", "android-24"))
NdkHidden == Env(Set("ANDROID_NDK_HOME", "ndk without toolchain file") @@ Set("NDK_HOME", "ndk"))
NoSysroot == Env(Set("NDK_HOME", "ndk without sysroot"))

Found(use, lib, inc) == [use |-> use, lib |-> lib, inc |-> inc]
Nothing == Found("ON", "NOTFOUND", "NOTFOUND")

Host(os, machine, dir, pcaudio, sonic, environments) ==
    [os |-> os, machine |-> machine, arch |-> "aarch64", outDir |-> <<"target", dir, "build", "out">>,
     profile |-> "release", found |-> [lib \in SystemLibs |->
                                        IF lib = "pcaudio" THEN pcaudio ELSE sonic],
     clangRuntime |-> TRUE, debugAssertions |-> FALSE, environments |-> environments]

MCHosts ==
    {Host("linux", "linux", "release", Found("TRUE", "so", "usr"), Found("2", "a", "usr"),
          {Plain, Debug, Local, Shared, Docs}),
     Host("linux", "linux", "release-lto", Found("0", "so", "usr"), Found("other", "so", "usr"),
          {Plain, Zero, Shared}),
     Host("linux", "linux", "release", Found("NO", "so", "usr"), Found("ON", "so", "NOTFOUND"),
          {Plain}),
     Host("macos", "macos", "release", Found("ON", "so", "usr"), Nothing,
          {Plain, Local, LocalShared}),
     Host("windows", "windows", "release", Nothing, Nothing, {Plain, Shared, Debug, StaticCrt}),
     Host("ios", "macos", "release", Nothing, Nothing, {Plain, Shared, Local}),
     Host("android", "macos", "release", Nothing, Nothing,
          {Ndk, Ndk24, NdkLocal, NdkHidden, NoSysroot, Plain}),
     [Host("android", "linux", "release", Nothing, Nothing, {Ndk}) EXCEPT !.arch = "riscv64"]}

=============================================================================
