# Formal models of dengjen-piper-rs

TLA+ specifications of the parts of `dengjen-piper-rs` that keep state, run concurrently or have to
survive failures, the TLC configurations that check them on small instances, and TLAPS proofs of
their main safety properties for every value of the constants. `PROJECT.json` is the machine-readable
index: components, runs, mutants, the map from definitions to source lines, hazards, theorems.

Run `tlc -config X.cfg MCModule.tla` for a model and `tlapm XProofs.tla` for a proof.

## 1. Inventory of the system

A program calls `Piper::create` (root crate) or the hexagonal use cases of `piper-core`. Text goes to a
`Phonemizer`, which yields sentences of phonemes; these are encoded to ids with the voice's map and run
through an ONNX session.

| Component | State | Operations | Correct when |
|---|---|---|---|
| **espeak-rs** (`crates/espeak-rs/src/lib.rs`) | `ESPEAK_LOCK` over `initialized`, `current_language`; its poison flag; the C library's global state | `text_to_phonemes` | one thread in espeak-ng; the cached language is the active voice; an answer is whole and in the caller's language; the lock is released; nothing is used after a panic |
| **espeak-rs-adapter** (`worker.rs`, `lib.rs`) | bounded channel, one worker thread, a response channel per call | `phonemize`, the worker loop, drop | every accepted call is answered exactly once, also when the worker panics; full and broken are told apart; nobody is forgotten |
| **espeak-rs-sys `build.rs`** | `OUT_DIR`: the tree, its `.tmp`, the stamp, CMake's cache, objects, the installed library, bindings; hard links in the target directory | `materialize_espeak_ng_source`, archive extraction, bindings, CMake, link directives | what is linked is the source that was asked for, all of it, built as the directives say, whatever earlier builds left behind |
| **piper-core** domain, registry, use cases | `VoiceRegistry` | `encode_phonemes`, `LoadVoice`, `Phonemize`, `Synthesize` | encodings are framed and warn of everything dropped; a failed load changes nothing; the model gets the tensors it expects |
| **ort-adapter** | process-wide environment, a session | `environment`, `validate_arity`, `infer` | the environment is made once; the number of tensors fits the session |
| **fs-voice-repo** | none | `load` | errors are classified; one file of the base directory is read |
| **stub-adapter** | none | `phonemize` | every character but spaces around sentences is in one of them |
| **root crate** (`src/lib.rs`, `src/model.rs`) | `Piper {voice, engine, phonemizer}` | `new`, `from_session`, `create` | same pipeline, same encoding as `phonemes_to_ids` |
| **release workflows and scripts** | crates.io, its index, tags | publish in tiers, wait, bump, compute the next version | a re-run completes a partial publish; no tier before its dependencies |

Interactions. `Piper` and `Phonemize` call the port `Phonemizer::phonemize`. `EspeakRsPhonemizer`
implements it with `try_send` into the channel and a blocking `recv` on a response channel; its worker
calls `espeak_rs::text_to_phonemes`. Every other user of `espeak-rs` in the process shares
`ESPEAK_LOCK` and the C library with it. With the feature `espeak-ng` the root crate uses another
crate instead (`EspeakNgPhonemizer`), which shares nothing.

Hard behaviours: threads at the lock; state cached about a C library that can fail, loop or hang;
panics that poison the lock or end the worker with jobs queued; a queue at its limit; a build killed between any two file operations, downloads that fail or lie, a lock file that
is edited and reverted; an `OUT_DIR` that outlives every change of variables, pin and checkout; workflow
runs that overlap and are run again half way. `PROJECT.json` lists them as hazards at their lines.

## 2. Modules

| Module | Models | Used by |
|---|---|---|
| `Espeak` | `text_to_phonemes` and what it calls | `MCEspeak`, `EspeakProofs`, `PhonemizerSystem` |
| `PhonemizerPort` | what a phonemizer promises its callers (abstract) | refined by `PhonemizerWorker` |
| `PhonemizerWorker` | channel, worker thread, response channels | `MCPhonemizerWorker`, `PhonemizerWorkerProofs`, `PhonemizerSystem` |
| `PhonemizerSystem` | the two composed: the worker's processor *is* a call of `Espeak` | `MCPhonemizerSystem`, `PhonemizerSystemProofs` |
| `SourceMaterialization` | `materialize_espeak_ng_source` over the life of a target directory | `MCSourceMaterialization`, `SourceMaterializationProofs` |
| `SpeechService` | what a program gets from a collection of voices (abstract) | refined by `VoicePipeline` and `PiperLifecycle` |
| `OrtAdapter` | environment, arity check and tensors of `ort-adapter` | `VoicePipeline`, `PiperLifecycle` |
| `VoicePipeline` | the use cases of `piper-core` over registry, `fs-voice-repo` and `ort-adapter` | `MCVoicePipeline`, `VoicePipelineProofs` |
| `PiperLifecycle` | `Piper` of the root crate, loaded, used, swapped, unloaded | `MCPiperLifecycle`, `PiperLifecycleProofs` |
| `PhonemizerText` | what each phonemizer makes of characters: clauses to sentences, the stub's splitter | `PhonemeEncoding` |
| `PhonemeEncoding` | `encode_phonemes` on joined sentences, and `phonemes_to_ids` | `MCPureAlgorithms`, `PhonemizerSystemProofs` |
| `ArchiveExtraction` | `unpack_stripped` on a file system with links | `MCPureAlgorithms` |
| `BuildScript` | `main` of `build.rs` over the life of an `OUT_DIR` | `MCBuildScript`, `BuildScriptProofs` |
| `PublishPipeline` | `release.yaml`, `publish-crates.yaml` and their scripts, for one version | `MCPublishPipeline`, `PublishPipelineProofs` |

Definitions marked *Faulty variant* are not part of the specifications: they are plausible bugs
(a dropped guard, a missing reset, a swapped order) that replace the definition next to them, to show that each
property notices.

### Espeak

`holder` and `poisoned` are the mutex, `state` the `EspeakState` inside it, `engine` the C library.
`pc[t]` is where thread `t` is; the labels are the points where another thread, the clock or a panic
can come in, among them the two gaps between a C call that succeeded and the assignment that records
it (`initialized`, `switched`). `call[t]` holds arguments and locals, `result[t]` what was returned.

| Action | Code |
|---|---|
| `Acquire` | `acquire_or_fail`, then the check at the top of `ensure_initialized` |
| `InitEspeak`, `RecordInitialized` | `init_espeak`; line 117 |
| `EnsureVoice`, `SetVoiceByName`, `RecordVoice` | lines 125-129; 130-135; 136 |
| `ChooseMode` | the separator check, after the switch, as in the code |
| `NextLine`, `BeginClause`, `EndLine` | the `for` over lines, the first deadline check, the flush |
| `FfiReturn` = `ReturnLate`, `ReturnNull`, `ReturnClause` | the return of the C call, second deadline check, NULL and cursor checks, sentence assembly |
| `Tick` | `started_at.elapsed()` grows |
| `Panic` | unwinding drops the guard: released and poisoned |

A clause is abstracted to a *piece* (voice it was spoken in, line, serial number): that is all the
properties tell apart. Whether a clause's text is empty, ends a sentence, and what became of the
cursor are free choices of the environment. The C library is external; two things are assumed of it:
a failing `espeak_SetVoiceByName` leaves the active voice alone (the code relies on that when it keeps
`current_language` after a failure), and it does not unwind into Rust.

### PhonemizerWorker and PhonemizerPort

A job is named by its caller, which waits on exactly one. `queue` is the channel, `worker` the thread's
state (`unwinding` is the time between a panic in the processor and the drop of the receiver, when the
channel still accepts jobs), `job` the one in hand, `reply[c]` the response channel (`hung_up`: its
sender is gone), `handle` whether the phonemizer still exists. `QueueCapacity` 0 counts as 1
(`queue_capacity.max(1)`). Assumed of `std::sync::mpsc`: dropping a `Receiver` drops the messages in the
channel, and with them their response senders.

`PhonemizerPort` knows calls that are rejected at once or pending until answered, and a breakdown
after which nothing is answered Ok any more. `ImplementsPort` (`Port!Spec` under the mapping at the end of
`PhonemizerWorker`) is checked by TLC and proved.

### PhonemizerSystem

`StartJob` is `Receive` together with the call of `text_to_phonemes`; `FinishJob` and `AbandonJob` are
its return and its panic. Other threads call `text_to_phonemes` too. `want` and `got` record what a
caller asked for and what it was given, so that an answer can be compared with its question.

### SourceMaterialization

A tree is `[state, origin, stamp]`: how much of it is there, where its files came from, and what
`.pinned-sha256` holds. `pc` is the point the build script has reached. `RemoveStale` removes a tree
file by file (any of the remaining files may be the stamp), `Fetch` is the retry loop and the checksum,
`Prepare`/`Fill`/`Install` are the temporary directory, the extraction or copy, and the rename,
`TruncateStamp`/`WriteStamp` the two halves of `fs::write`. `Interrupt` ends a build anywhere, leaving
the disk as it is: a kill, a full disk, a file in use. `Repin` and `SetOverride` may happen at any time,
under a running build too. Cargo runs one build script per `OUT_DIR` at a time, so there is one builder.
An override directory is a checkout and holds no stamp; a copy of another build's `OUT_DIR/espeak-ng`
would bring one along, and is outside the model.

### SpeechService

`voices` holds the voice of each name and `answer` what each client was last told. Installing replaces a voice
in one go, a refusal changes nothing, and what is heard names the language, map and speaker of the voice
installed last. It knows nothing of registries, engines, borrows or of loading in steps.

### VoicePipeline and OrtAdapter

`registry` is the `VoiceRegistry`; `checked[id]` is a history variable: the number of inputs against which
`LoadVoice` checked the voice registered under `id`, or `None` after a direct `register`. Each thread owns an
`engine` (its number of inputs, and whether it was made from a file), `environment` is the `OnceLock`.

| Action | Code |
|---|---|
| `NewEngine`, `FromSession` | `OrtInferenceEngine::new`, `from_session` |
| `LoadVoice` | `FsVoiceRepository::load` of a file with any content, `validate_arity`, `register` |
| `RegisterDirectly` | `register` of a voice the program got elsewhere |
| `Synthesize`, `Phonemize` = `Lookup` | `registry.lookup` at the start of a use case |
| `AskPhonemizer` | `Phonemize::execute`, with a lookup of its own, and the conversion of its errors |
| `Infer` | `encode_phonemes`, `resolve_inference_params`, `infer` |

A use case runs in steps, for other threads run meanwhile; it borrows the registry, so `LoadVoice`
(`&mut VoiceRegistry`) waits until no use case is under way (`RegistryIsFree`). That is what Rust enforces, whether
by ownership or by the `RwLock` a program puts around the registry.

### PiperLifecycle

`config` and `model` say which release the two files hold; anybody may replace either at any time. `Piper::new`
takes two steps, `OpenConfig` and `LoadModel`, since it reads the two files one after the other. `slot[t]` is the
`Option<Piper>` of a thread (`examples/unload_model.rs`), `opened[t]` the config parsed so far. `steady` and `mated` are history
variables: no file was written during the load, and config and model were of one release. `Layer` in the refinement
mapping translates `PiperError` to the layer it comes from.

### PhonemizerText and PhonemeEncoding

`PhonemizerText` holds no state. `TextToPhonemes` makes sentences of the clauses espeak-ng reports (`strip_lang_switches`,
`terminator_char`, the pushes of the clause loop), `SplitIntoSentences` is the stub's, and `Answers` dispatches on
the phonemizer a program was built with; `"port"` stands for any other implementation. `Espeak` models when and
whether that text is computed, this module what it is. `Loop` is the `for` loop of all of them, written as a recursive
function, which can be proved about.

In `PhonemeEncoding` the loop of `encode_phonemes` runs one character per step on what a phonemizer answered
(`spoken`), after the lookup of the sentinels; `phonemes_to_ids` is written as a definition and is the reference. So
is `Outside`, which says from the outside what `strip_lang_switches` keeps. `Decomposition` and `CombiningClass` are
parameters, `NFD` is what the `unicode-normalization` crate does with them: decompose, then order the marks stably
by class. `Said`, `Solid` and `Trimmed` say what sentences ought to be without the loops of the code. `Reordered` says so by places: each character goes where as many come before it as `Precedes` it, by the
starters up to it, then its class, then where it was.

### ArchiveExtraction

`archive` is what has been read of an archive, `tree` the destination as a function from paths to files, directories
and links, `symlinks` the set of that name. The filters (`StrippedPath`, `EntryIsSafe`, `SymlinkStaysInside`,
`IsBelowASymlink`) see names only. `Walk` is the file system: it follows links, and ends inside, at something
missing, or outside. `Landing` and `CanUnpack` are what `create_dir_all` and the tar crate do with an entry that has
passed. `LinksStayInside` and `EntriesLandWhereNamed` compare the two views. `MaxWalk` bounds the
components a walk looks at and stands for the kernel's limit on symbolic links (`ELOOP`): where it cuts a walk off, the
extraction fails.

### BuildScript

`env`, `lock` and `checkout` are the inputs, which change at any time (`Edit`); `run` is the script that runs, with the
variables and the lock text it has read; `out` is `OUT_DIR`, `placed` the hard link in the target directory, `last`
and `touched` what cargo goes by. A version of espeak-ng stands for its source and for all that is made of it, so
`LinkedIsCurrent` can say that library, bindings and data are of the version asked for.

| Action | Code |
|---|---|
| `Start` | cargo finds a watched variable or file changed; variables, lock and override are read |
| `UseDocsrsBindings` | `DOCS_RS`: the checked-in bindings, no directives |
| `Materialize` | `materialize_espeak_ng_source` (in full in `SourceMaterialization`), with what it means for the times of files |
| `Bindgen` | line 695, with the NDK's sysroot for Android |
| `Configure` | the configuration; none if there is a `CMakeCache.txt` (`always_configure(false)`) |
| `Compile`, `Install` | `config.build()`: objects older than their sources are made again |
| `Emit` | the data directory constant, all directives, the hard links |
| `Panic` | the asserts and expects, and CMake without a generated build |
| `Fail` | a tool or a system call fails, or the build is killed: what was done stays |

External, and modelled by how the script uses them: cargo's decision to run a script again (`Fresh`), with the files
that bindgen's `CargoCallbacks` adds; CMake's cache; where libraries are installed, and of which kind each file is (an
import library has the name of a static one); `std::fs::copy`, which keeps times on a Mac and on a Windows machine,
whatever the target (`host.machine`, next to `host.os`). Two readings of a CMake variable stand next to each other:
CMake's `if()` (`CmakeIsTrue`: anything but a constant that is false) and the script's `cmake_bool_is_true`
(`CmakeBoolIsTrue`: four names and the integers but zero); `SystemLibsNamed` compares what comes of them. With `ESPEAK_NG_SOURCE` set the headers are copied anew by each run, so
cargo finds them changed since the run started and builds again each time: `Recovers` says what that allows.

### PublishPipeline

`tag` is the tag on origin, `registry` says from which commit a crate was published, `index` is what cargo can
resolve, `job[r]` where workflow run `r` is: in the crates job it is at a crate of a tier, asking for its status,
publishing it, or waiting for it to be indexed. `Advance` is the order of the steps of `publish-crates.yaml`: each crate
of a tier, then the wait for each of them, then the next tier; the last tier is not waited for. `LookForTag` and `PushTag` are two steps, as another run may come between them; so are `AskStatus` and
`CargoPublish`. `LoseAnswer` is the upload that arrives without its answer, `FailJob` any other end of a job,
`Rerun` the button. `attempts` is a history variable for `NeverTooEarly`.

## 3. Runs

| Run | Instance | Shows |
|---|---|---|
| `espeak_session` | 2 threads, 2 installed languages + 1 unknown + 1 with a NUL, texts of two lines, one with a NUL line | all safety properties of `Espeak`; `HolderReleases` under `FairSpec` |
| `espeak_hung_call` | 1 good language, 1 unknown, 1 clause | **violation**: `HungCallSurfaces` |
| `phonemizer_worker` | 4 callers, 2 slots | safety, refinement of the port; every accepted call returns |
| `phonemizer_system` | 2 callers in 2 languages, 1 other thread | answers reach who asked, in the right voice; poisoning; `phonemize` returns, end to end |
| `source_materialization` | 2 pins, 1 checkout, 1 archive, 3 attempts, 4 faults | stamps are true, fresh trees whole and right; a good build follows, whatever was left behind |
| `source_interrupted_removal` | 1 fault | **violation**: `PinnedIsWhole` |
| `build_script` | 8 hosts (Linux, macOS, Windows; iOS and Android from a Mac, Android from Linux), 2 versions, 3 edits, 1 fault | what is linked is current, fits the directives, names the system libraries it calls and finds its data; builds recover |
| `voice_pipeline` | 2 threads, 1 plain and 1 unsafe id, voices with 0, 1 and 2 speakers, models of 3 and 4 inputs | checked voices fit, a failed environment is final, refinement of `SpeechService` |
| `piper_lifecycle` | 1 thread, releases with 0, 1 and 2 speakers | a failed swap keeps the old voice, matching files fit, refinement of `SpeechService` |
| `pure_algorithms` | 7 maps; sentences, clauses and stub texts of up to 5 characters; archives of 3 entries | text is kept, same ids as `phonemes_to_ids`, every drop is told, sentences stay apart; archives stay in their tree |
| `publish_pipeline` | 6 crates, 4 runs on 2 commits, 1 fault | nothing is published too early or from two commits; a release completes |

`TypeOK` of a module with proofs is a conjunct of the invariant that is proved.

Bounds and why they are enough.
- `MaxPieces` 2: losing, doubling, reordering or joining clauses needs two. Two lines, so that one line
  end lies between them. `Timeout` 1 tick: below, at and above the deadline all occur.
- Two threads: all shared state is one lock and what it guards, and the invariant that carries
  the properties relates the holder with one other thread; the proofs do without the bound.
- Four callers on two slots: one job in hand, two queued, one rejected.
- `MaxFaults` 4 lets a build run out of its three attempts and the next one be killed.

- `VoicePipeline`: 0, 1 and 2 speakers lie on both sides of `num_speakers > 1`, 3 and 4 inputs are the only
  numbers the arity check accepts. Two threads: one in a use case, one that wants to load.
- `PiperLifecycle`: one thread. Threads share the files, which change at any time anyway, and the environment, which
  keeps its first outcome whoever asked for it. The proofs hold for any number of threads.
- `BuildScript`: three edits switch something over, back, and over again, or change a variable, the lock and the
  checkout under one build; one fault, as each failure leaves `OUT_DIR` in one of few ways and the next build
  starts from there. Each host has the variables that matter to it.
- `PublishPipeline`: the tiers of the workflow without `stub-adapter` and `fs-voice-repo`, on which no crate depends.
  Runs: the push, the override path from elsewhere and a dry run on one commit, and one on another commit.
- `ArchiveExtraction`: two names, two levels, links that go up, across, to themselves and to the root. Two links and
  an entry below them are what it takes to get out if a filter is wrong.
- `PhonemizerText`: five characters hold `)((c)`, one parenthesis too many on either side; two lines and three clauses.
- `PhonemeEncoding`: a mark before, after and between letters, two marks of different classes in both orders, a
  composed letter, a character that is also a sentinel; ids none, one and two long.

Fairness. `Espeak!FairSpec`: a thread that can run does, time passes, and C calls return. No fairness
for acquiring the lock (std's `Mutex` gives none), so only its *release* is claimed. `BlockingSpec` drops the
assumption that C calls return. `PhonemizerWorker!FairSpec`: the worker and a caller whose `recv` is ready
run, and the processor returns or panics - what `HolderReleases` justifies. `PhonemizerSystem!FairSpec`
adds that a lock that stays free is acquired in the end, which std gives for an uncontended lock only:
`PhonemizeReturns` is therefore claimed under the condition `OthersLeave`, that the threads outside the worker
leave espeak-rs alone in the end; std's `Mutex` may pass the worker over while they go on.
`SourceMaterialization!FairSpec`: a started build script runs on. `Recovers` speaks of builds that start when
the fault budget is used up, that is, when nothing fails any more. `BuildScript!FairSpec`: a build that runs goes on,
and somebody builds again when cargo has something to do. `PublishPipeline!FairSpec`: GitHub runs its jobs, somebody
runs failed ones again, and the index catches up with the registry; faults and edits are bounded and never fair.
The other modules claim no liveness and need no fairness.

## 4. Two disagreements, and what else was seen

- **A hung call does not time out** (`espeak_hung_call`). `crates/espeak-rs/README.md:3` promises a
  timeout "so a hung call surfaces as an error instead of blocking forever". The deadline is
  looked at between C calls; one that blocks is never interrupted, as the comment at `lib.rs:47` says.
- **An interrupted removal can be taken for a finished tree** (`source_interrupted_removal`). The
  stamp lies in the tree that `remove_stale` takes apart; a build killed there may leave the stamp and part
  of the files, and going back to the old pin then builds that part, unchecked. `RightSource` and
  `StampNamesOrigin` still hold: the files that are there are of the right pin.

Seen while modelling, claimed nowhere in the repository, and kept in the models as the code has it:
- A CMake configuration that was interrupted leaves a `CMakeCache.txt` that no later build replaces; `Stuck` names this
  and the other ends that only another environment or an empty `OUT_DIR` leads out of.
- CMake is configured once per `OUT_DIR` (`always_configure(false)`, `build.rs:777`). A changed `ESPEAK_LIB_PROFILE`
  (but with Visual Studio), `ESPEAK_STATIC_CRT`, NDK or `ANDROID_PLATFORM` runs the script again and links the library of
  the old configuration. A changed `ESPEAK_BUILD_SHARED_LIBS` ends in the panic of `ensure_libs_installed`, except on
  Windows, where the import library of the DLL passes for the static library (`OfAnotherKind`).
- A directory given as `ESPEAK_NG_SOURCE` is copied with its times on a Mac and on a Windows machine, whatever the
  target: an iOS build copies them always. Objects that are newer than the files are not made again, and then the
  library is one of another version, or a mixture. `LinkedIsCurrent` claims only the bindings there.
- A `USE_LIBSONIC` that holds neither one of CMake's constants nor an integer (`auto`, `1.5`) is true for CMake and false
  for `cmake_bool_is_true` (`build.rs:532`): the library calls sonic and the linker is not told. `SystemLibsNamed`
  claims for such values only that nothing is named in vain.
- Hard links of a shared library are never renewed (`build.rs:877`), and on iOS shared libraries are looked for as `*.so`.
- On Windows the build directories are searched under `Release` whatever the profile (`build.rs:806`);
  `LinkMatchesLibrary` says so.
- A dry run of the release still pushes the tag, and its later tiers cannot be resolved until the earlier ones are
  published by another run.

## 5. Proofs

Eight modules hold theorems: `EspeakProofs`, `PhonemizerWorkerProofs`, `PhonemizerSystemProofs`,
`SourceMaterializationProofs`, `BuildScriptProofs`, `VoicePipelineProofs`, `PiperLifecycleProofs` and
`PublishPipelineProofs`. Each proves an invariant of its component and, as consequences, the properties listed in
`PROJECT.json`, for any sets and bounds that satisfy the named `ASSUME` of the component. The argument is the same in
each: the initial states satisfy the invariant, one lemma per action says that the action keeps it, and PTL takes the last
step. Every property a theorem states is an invariant, action property or refinement of a run of section 3 as well.

- *Espeak*. `MutualExclusion` and `VoiceCacheCoherent` are not inductive alone: what keeps the cache coherent is
  that only the holder touches `state` and `engine`, and that `switched` is the one label at which
  they may differ. `IndInv` adds what each label implies (`switch`: the cached language differs; from `switched`
  on: the active voice is the caller's), that a poisoned lock is free, and that all pieces collected so far are
  in the caller's language. `PoisonIsFinal` is an action property over the same invariant.
  `OutputInv` carries `NoClauseLost` and `SentenceWithinLine` for any number of clauses: the finished sentences and the
  pending one, put together, are the clauses 1 to n in order, every finished sentence is of one line, and the pending one
  is of the current line.
- *PhonemizerWorker*. `NoOrphan` needs `JobsAwaited` (a job's caller waits and has no reply yet), that the worker has
  a job exactly while processing, and that a channel without receiver is empty. The refinement
  `Spec => Port!Spec` is proved step by step: each action maps to a step of the port or a stutter.
- *PhonemizerSystem*. A step of the system is, for each of its two components, a step of that component or none, so the
  components keep the invariants proved of them in `EspeakProofs` and `PhonemizerWorkerProofs`, whose lemmas are cited
  through the instances `EP` and `WP`. `SystemInv` adds what ties the two together: the worker is inside
  `text_to_phonemes` only while it has a job, with that job's text and voice (`WorkerServes`); a caller that came after
  the lock was poisoned gets no Ok (`late`); sentences handed to a caller answer what it asked for (`CallerInv`).
  `AnswerIsOwn`, `PoisonReachesCallers` and `WorkerOutlivesPoison` follow. `SystemIsWorker` shows that the system
  implements `PhonemizerWorker`, and with that the port, with espeak-rs as the processor.
- *PhonemeEncoding* (second half of `PhonemizerSystemProofs`: what becomes of an answer). For any map of a voice, any
  answer and any tables of Unicode that satisfy `EncodingAssumption`. `Encoding` says that what was seen and what is left
  make up the text, and that ids and warnings are those of what was seen; `TwinsAgree` and `NothingDroppedSilently`
  follow. `SentencesStayApart` needs more: `NFDAroundSpace`, that the NFD of a text with a space in it is the NFD of what
  is before the space, the space, and the NFD of what comes after. `Reordered` puts each character at its place, the
  number of characters up to it in the order of `Precedes`; places are taken once each (`PlacesTaken`), and as a space
  is a starter, all before it precedes it and all after it follows, so places before and after do not mix. The assumption
  this rests on, that a space decomposes to itself and has class 0, is what Unicode says of U+0020.
- *PhonemizerText* (there as well). `PhonemizersKeepText`, for clauses, lines and texts of any length. A `Loop` is a
  function chosen by CHOOSE; `LoopRuns` says that there is one, `LoopKeeps` that what each turn keeps holds at the end. The
  invariants of the four loops: the depth of `strip_lang_switches` is the largest number of parentheses still open at the end
  of what was seen (`DepthIs`), so a character is kept exactly where `Outside` keeps it; sentences and pending text of
  `text_to_phonemes`, put together, are what the clauses so far say (`Pending`), across the ends of sentences and of lines; the
  stub's sentences and the rest are the text so far but for spaces, no terminator is in the rest, and each sentence has
  one at its end only (`Split`). The latter needs that `Trim` takes away spaces and nothing else (`TrimKeeps`).
- *SourceMaterialization*. A stamp is true because it is written only at `stamping`, where the tree came from
  `build.pin`, and every other step keeps origin and stamp together or drops the stamp. That the
  invariant says nothing about the completeness of a *reused* tree is the second finding.
- *ArchiveExtraction* (second half of `SourceMaterializationProofs`), for any names, any archives of any length and any
  limit on a walk. The two properties depend on each other, and `ExtractionInv` proves them together: every link in the tree
  is where the filter recorded it, and its target was checked from there (`LinksChecked`); what was read has landed where it
  was named. A walk is a recursive function; what each of its steps keeps holds at its end (`WalkReaches`). Two things are
  kept: with `LinksChecked`, a walk has no more ".." ahead than it is deep (`WithinReach`), for a link's target replaces the
  link by at most as many ".." as there are directories above it - this is why ".." may only stand before any name; and a
  walk along a path on which no link was recorded goes straight (`Straight`), so that an entry that passed
  `is_below_a_symlink` is unpacked at its own path - there the names of the filter and the places of the file system
  agree, and a new link is where its target was checked from. `NothingLeadsOut` is stronger than
  `LinksStayInside`: it is about paths of every length.
- *BuildScript*. `IndInv` goes stage by stage: what the run has read is still recorded (`Recorded`), the tree is the wanted
  one once it is materialised (`TreeWanted`), bindings, objects and library follow from the stage before
  (`BindingsFollow`, `CompiledNow`, `InstalledNow`, `EmittedNow`); a run that succeeded stays at its last stage until
  cargo starts another. `ObjectsFollow` is the part that makes it inductive: objects that no file of the tree is newer than are
  of the tree's version, except where copied files keep their times. `LinkedIsCurrent`,
  `LinkMatchesLibrary` and `RunsWhereBuilt` follow, for a build that succeeded and until something is edited (`Linkable`).
  `SystemLibsNamed` rests on `ReadingsOfCmake`: every value the script takes for true CMake does too, and the other way
  round for all but text that is no constant.
- *VoicePipeline*. What makes `CheckedVoicesFit` inductive is `ChecksAgree`: a recorded check still holds of the voice
  registered now, because every way to register a voice also replaces the record. `VoiceStaysPut` - a call's
  voice is the registered one - carries the refinement: `AskPhonemizer` reads the registry, `Infer` the voice
  looked up before, and `SpeechService` allows only the voice of the moment. `VoiceStaysPut` is preserved because
  `LoadVoice` needs every thread idle. The refinement is proved action by action.
- *PiperLifecycle*. `IndInv` says that a mated Piper's session has the inputs its voice's release calls for;
  `ResolveSpeaker` then gives as many tensors. `SwapKeeps` and the refinement follow action by action.
- *PublishPipeline*. `OneCommitPerVersion` needs that a run in the crates job is on the tagged commit, whatever failed
  and was run again: `LookForTag` and `PushTag` let no other run through, and no step moves a tag (`TagIsFinal`). When the
  tag is first pushed, no run is past it and nothing is published, for `None` is nobody's commit. `NeverTooEarly` follows
  from `InOrder`: the crates of the tiers a run has left are indexed, as are the crates of its tier it has
  already waited for; together with `TierAssumption` (a crate needs only crates of earlier tiers) the next upload finds
  all it needs.

The library's induction theorems take an operator as a parameter and cannot be instantiated by the installed provers.
What `FlattenSeq` computes is proved without them: `SetInduction` (a set of numbers that has 0 and every successor has them
all) comes from the existence of a least counterexample, `WFMin`, and is applied to sets written out in the lemma.
`FlattenAppend` and `ConcatAppend` are what the other proofs use; `SpeltConcat` and `LaidAppend` say the same of a text
that is replaced character by character and of sentences with something in between.

Only model-checked:
- liveness under fairness (`HolderReleases`, `PhonemizeReturns`, `Recovers` and the like) and whatever needs ENABLED,
  which this prover does not handle. Every invariant and action property, and every refinement, of a passing run is proved.

The two runs that expect a violation state what does not hold, and no theorem is about them.

## 6. Plan

What is left: `next-version.sh` and `bump-version.sh`, the next version as a function of the tags and the commits.

## 7. Not modelled, and why

Generated bindings (declarations only); CI, docs, examples, benches and fuzz targets (drivers); the scripts that choose
and commit the next version (text processing on the history, no concurrency); the ONNX Runtime, espeak-ng, CMake, bindgen
and cargo themselves (external: what their interfaces allow); messages and logs (no property is about them);
floating-point parameters (passed through).
