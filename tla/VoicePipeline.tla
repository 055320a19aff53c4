---------------------------- MODULE VoicePipeline ----------------------------
(***************************************************************************)
(* The use cases of piper-core over the ort adapter and the voice          *)
(* repository: threads that each own an engine share one VoiceRegistry and *)
(* one Phonemizer; voices are loaded and loaded again while the config     *)
(* files change; text is synthesised, or only phonemised.                  *)
(*                                                                         *)
(* A voice is abstracted to its espeak language, its phoneme_id_map and    *)
(* its num_speakers; the floats are passed through and left out.  The      *)
(* config file may be rewritten at any time, so each read of it yields any *)
(* content.  Rust lends the registry to one writer or to many readers: a   *)
(* Synthesize or Phonemize in progress keeps LoadVoice out.  The errors of *)
(* the phonemizer are passed on as they are, wrapped in Phonemization.     *)
(***************************************************************************)
EXTENDS OrtAdapter

CONSTANTS
    Threads,
    VoiceIds,    \* the ids a program asks for
    UnsafeIds,   \* those that are no plain file name
    Configs,     \* the voices a well-formed config file can describe
    Speakers,    \* the speaker ids a program passes
    Inputs,      \* numbers of input tensors a model file may have
    Missing, Unreadable, Malformed  \* config files that describe none

ASSUME PipelineAssumption ==
    /\ UnsafeIds \subseteq VoiceIds
    /\ None \notin Configs /\ None \notin Speakers
    /\ {Missing, Unreadable, Malformed} \cap Configs = {}
    /\ Missing # Unreadable /\ Missing # Malformed /\ Unreadable # Malformed
    /\ \A c \in Configs : c.speakers \in Nat
    /\ Inputs \subseteq Nat /\ None \notin Nat
    /\ Speakers \subseteq Nat

VARIABLES
    registry,  \* VoiceRegistry: the voice registered under each id, or None
    checked,   \* inputs of the session its arity was checked against, or None
    engine,    \* each thread's OrtInferenceEngine, or None
    pc,        \* of each thread: "idle", or what a use case does next
    call,      \* its arguments and locals
    answer     \* what each thread's last call returned

vars == <<registry, checked, engine, environment, pc, call, answer>>

Languages == {c.language : c \in Configs}
Maps == {c.map : c \in Configs}
Heard == [language: Languages, map: Maps \cup {None},
          speaker: Speakers \cup {None, 0}]

LoadErrors == {"NotFound", "MalformedConfig", "IoFailure", "ModelLoadFailure"}
Errors == LoadErrors \cup {"VoiceNotFound", "Phonemization", "RuntimeFailure"}

Answers == [kind: Errors \cup {"none", "loaded", "sentences", "audio"},
            heard: Heard \cup {None}]

Engines == [inputs: Inputs, origin: {"new", "from_session"}]

Calls == [use: {"synthesize", "phonemize"}, id: VoiceIds, voice: Configs,
          wanted: Speakers \cup {None}, language: Languages \cup {None}]

\* None is not a record.
ASSUME NoneAssumption == None \notin Calls /\ None \notin Engines

Returned(kind) == [kind |-> kind, heard |-> None]

Answer(t, returned) == answer' = [answer EXCEPT ![t] = returned]

\* A use case returns: its borrows end.
Return(t, returned) ==
    /\ Answer(t, returned)
    /\ pc' = [pc EXCEPT ![t] = "idle"]
    /\ call' = [call EXCEPT ![t] = None]

Init ==
    /\ registry = [id \in VoiceIds |-> None]
    /\ checked = [id \in VoiceIds |-> None]
    /\ engine = [t \in Threads |-> None]
    /\ environment = "unset"
    /\ pc = [t \in Threads |-> "idle"]
    /\ call = [t \in Threads |-> None]
    /\ answer = [t \in Threads |-> Returned("none")]

-----------------------------------------------------------------------------
(* Engines.                                                                *)

\* OrtInferenceEngine::new, on a file with a model in it or without.
NewEngine(t) ==
    /\ pc[t] = "idle"
    /\ \E outcome \in {"ready", "failed"} : GetOrInit(outcome)
    /\ \/ /\ environment' = "ready"
          /\ \E n \in Inputs :
                engine' = [engine EXCEPT ![t] = [inputs |-> n, origin |-> "new"]]
          /\ UNCHANGED answer
       \/ Answer(t, Returned("RuntimeFailure")) /\ UNCHANGED engine
    /\ UNCHANGED <<registry, checked, pc, call>>

FromSession(t) ==
    /\ pc[t] = "idle"
    /\ \E n \in Inputs :
          engine' = [engine EXCEPT ![t] = [inputs |-> n, origin |-> "from_session"]]
    /\ UNCHANGED <<registry, checked, environment, pc, call, answer>>

-----------------------------------------------------------------------------
(* FsVoiceRepository::load and LoadVoice.                                  *)

LoadError(id, content) ==
    CASE id \in UnsafeIds \/ content = Missing           -> "NotFound"
      [] id \notin UnsafeIds /\ content = Unreadable     -> "IoFailure"
      [] id \notin UnsafeIds /\ content = Malformed      -> "MalformedConfig"

Describes(id, content) == id \notin UnsafeIds /\ content \in Configs

MultiSpeaker(voice) == voice.speakers > 1

\* &mut VoiceRegistry: nobody holds a &VoiceRegistry.
RegistryIsFree == \A t \in Threads : pc[t] = "idle"

Register(id, voice, inputs) ==
    /\ registry' = [registry EXCEPT ![id] = voice]
    /\ checked' = [checked EXCEPT ![id] = inputs]

LoadVoice(t, id, content) ==
    /\ pc[t] = "idle" /\ RegistryIsFree
    /\ engine[t] # None
    /\ \/ /\ ~Describes(id, content)
          /\ Answer(t, Returned(LoadError(id, content)))
          /\ UNCHANGED <<registry, checked>>
       \/ /\ Describes(id, content)
          /\ ~ValidateArity(engine[t].inputs, MultiSpeaker(content))
          /\ Answer(t, Returned("ModelLoadFailure"))
          /\ UNCHANGED <<registry, checked>>
       \/ /\ Describes(id, content)
          /\ ValidateArity(engine[t].inputs, MultiSpeaker(content))
          /\ Register(id, content, engine[t].inputs)
          /\ Answer(t, Returned("loaded"))
    /\ UNCHANGED <<engine, environment, pc, call>>

\* A voice the program loaded itself and registers without LoadVoice.
RegisterDirectly(t, id, content) ==
    /\ pc[t] = "idle" /\ RegistryIsFree
    /\ Describes(id, content)
    /\ Register(id, content, None)
    /\ Answer(t, Returned("loaded"))
    /\ UNCHANGED <<engine, environment, pc, call>>

-----------------------------------------------------------------------------
(* Phonemize and Synthesize.                                               *)

Lookup(t, use, id, wanted) ==
    /\ pc[t] = "idle"
    /\ \/ /\ registry[id] = None
          /\ Answer(t, Returned("VoiceNotFound"))
          /\ UNCHANGED <<pc, call>>
       \/ /\ registry[id] # None
          /\ pc' = [pc EXCEPT ![t] = "phonemize"]
          /\ call' = [call EXCEPT ![t] =
                        [use |-> use, id |-> id, voice |-> registry[id],
                         wanted |-> wanted, language |-> None]]
          /\ UNCHANGED answer
    /\ UNCHANGED <<registry, checked, engine, environment>>

Synthesize(t, id, wanted) ==
    engine[t] # None /\ Lookup(t, "synthesize", id, wanted)

Phonemize(t, id) == Lookup(t, "phonemize", id, None)

\* Phonemize::execute, on its own or inside Synthesize, looks the voice up by
\* itself, and asks the phonemizer.
AskPhonemizer(t) ==
    /\ pc[t] = "phonemize"
    /\ LET language == registry[call[t].id].language IN
          \/ Return(t, Returned("Phonemization"))
          \/ /\ call[t].use = "phonemize"
             /\ Return(t, [kind |-> "sentences",
                           heard |-> [language |-> language, map |-> None,
                                      speaker |-> None]])
          \/ /\ call[t].use = "synthesize"
             /\ pc' = [pc EXCEPT ![t] = "infer"]
             /\ call' = [call EXCEPT ![t].language = language]
             /\ UNCHANGED answer
    /\ UNCHANGED <<registry, checked, engine, environment>>

\* Faulty variant: the speaker asked for is passed to every model.
SpeakerAsAsked(voice, wanted) ==
    IF wanted = None /\ MultiSpeaker(voice) THEN 0 ELSE wanted

\* resolve_inference_params
ResolveSpeaker(voice, wanted) ==
    IF ~MultiSpeaker(voice) THEN None
    ELSE IF wanted = None THEN 0 ELSE wanted

Speaker(t) == ResolveSpeaker(call[t].voice, call[t].wanted)

\* The phonemes are encoded with the voice's map, and the model is run.
Infer(t) ==
    /\ pc[t] = "infer"
    /\ \E outcome \in InferOutcomes(engine[t].inputs, Speaker(t)) :
          \/ outcome = "RuntimeFailure" /\ Return(t, Returned(outcome))
          \/ /\ outcome = "audio"
             /\ Return(t, [kind |-> outcome,
                           heard |-> [language |-> call[t].language,
                                      map |-> call[t].voice.map,
                                      speaker |-> Speaker(t)]])
    /\ UNCHANGED <<registry, checked, engine, environment>>

-----------------------------------------------------------------------------

Contents == Configs \cup {Missing, Unreadable, Malformed}

Next ==
    \E t \in Threads :
       \/ NewEngine(t) \/ FromSession(t)
       \/ AskPhonemizer(t) \/ Infer(t)
       \/ \E id \in VoiceIds :
             \/ \E content \in Contents :
                   LoadVoice(t, id, content) \/ RegisterDirectly(t, id, content)
             \/ \E wanted \in Speakers \cup {None} : Synthesize(t, id, wanted)
             \/ Phonemize(t, id)

Spec == Init /\ [][Next]_vars

-----------------------------------------------------------------------------
(* Properties.                                                             *)

\* Every variable has its type, and the speaker of what was heard its.
TypeOK ==
    /\ registry \in [VoiceIds -> Configs \cup {None}]
    /\ checked \in [VoiceIds -> Inputs \cup {None}]
    /\ engine \in [Threads -> Engines \cup {None}]
    /\ environment \in Environments
    /\ pc \in [Threads -> {"idle", "phonemize", "infer"}]
    /\ call \in [Threads -> Calls \cup {None}]
    /\ answer \in [Threads -> Answers]

\* A voice whose arity LoadVoice checked is never run with another number of
\* tensors than the session has, if that session has as many inputs as the one it
\* was checked against: the check at load time, the speaker resolved at synthesis,
\* and whatever was loaded or registered under that id in between, agree
\* (load_voice.rs:18, inference.rs:29, ort-adapter lib.rs:98 and 113).
CheckedVoicesFit ==
    \A t \in Threads :
       pc[t] = "infer" /\ checked[call[t].id] = engine[t].inputs
          => TensorCount(Speaker(t)) = engine[t].inputs

\* A use case in progress works with the voice that is registered, in both of its
\* lookups: nothing is registered under it (synthesize.rs:49, phonemize.rs:52).
VoiceStaysPut ==
    \A t \in Threads : pc[t] # "idle" =>
       /\ call[t].voice = registry[call[t].id]
       /\ pc[t] = "infer" => call[t].language = call[t].voice.language

\* Once the environment could not be made, no engine is made from a file any more
\* in this process, whatever the cause of the failure and however often it is tried
\* (ort-adapter lib.rs:60-66, 71); engines from a session made elsewhere still are.
FailureIsFinal ==
    [][environment = "failed" =>
         \A t \in Threads : engine'[t] = engine[t] \/ engine'[t].origin # "new"]_vars

\* An engine made from a file has an environment.
EnvironmentFirst ==
    \A t \in Threads : engine[t] # None /\ engine[t].origin = "new"
                          => environment = "ready"

\* What a checked entry of the registry records.
ChecksAgree ==
    \A id \in VoiceIds : checked[id] # None =>
       registry[id] # None /\ ValidateArity(checked[id], MultiSpeaker(registry[id]))

\* The inductive invariant of the proofs: types, where the threads are, and the
\* agreement of the registry with the checks made and the calls in progress.
IndInv ==
    /\ TypeOK
    /\ ChecksAgree
    /\ VoiceStaysPut
    /\ EnvironmentFirst
    /\ \A t \in Threads :
          /\ pc[t] = "idle" <=> call[t] = None
          /\ pc[t] = "infer" => engine[t] # None /\ call[t].use = "synthesize"
          /\ pc[t] = "phonemize" /\ call[t].use = "synthesize" => engine[t] # None

\* The registry is the collection of voices of SpeechService.
Service == INSTANCE SpeechService
    WITH Clients <- Threads, Names <- VoiceIds, voices <- registry

\* The pipeline implements SpeechService: loading is all or nothing, and speech is
\* that of the voice loaded last, in its language, with its map, as its speaker; an
\* id is "not found" exactly when nothing is registered under it, whatever layer
\* noticed (errors.rs, synthesize.rs:17-34, phonemize.rs:26-39).
ImplementsService == Service!Spec

=============================================================================
