--------------------------- MODULE PiperLifecycle ---------------------------
(***************************************************************************)
(* The root crate (src/lib.rs, src/model.rs) as a program uses it: each    *)
(* thread keeps an Option<Piper>, loads a voice into it from a config and  *)
(* a model file or from a session of its own, speaks, swaps, unloads; and  *)
(* somebody rewrites the two files meanwhile, one after the other.         *)
(*                                                                         *)
(* A release is a config (language, map, speakers) and the model made for  *)
(* it.  Piper::new reads the config, then the model: two steps, because    *)
(* either file may change in between.  Piper::create borrows its Piper     *)
(* exclusively and meets nobody else: one step.                            *)
(***************************************************************************)
EXTENDS OrtAdapter

CONSTANTS
    Threads,
    Releases,           \* records with language, map and speakers
    Speakers,           \* the speaker ids a program passes
    Missing, Malformed  \* files that hold no config or model

ASSUME LifecycleAssumption ==
    /\ {None, Missing, Malformed} \cap Releases = {}
    /\ \A r \in Releases : r.speakers \in Nat
    /\ Speakers \subseteq Nat /\ None \notin Nat

VARIABLES
    config,  \* whose config the config file holds
    model,   \* whose model the model file holds
    slot,    \* each thread's Option<Piper>
    opened,  \* the config Piper::new has parsed, or None outside of it
    steady,  \* no file has been written since it was opened
    answer   \* what each thread's last call returned

vars == <<config, model, environment, slot, opened, steady, answer>>

MultiSpeaker(voice) == voice.speakers > 1

\* The inputs of the model of a release.
InputsOf(release) == IF MultiSpeaker(release) THEN 4 ELSE 3

\* A Piper: the voice made of its config, its session, and where from.
Pipers == [voice: Releases, inputs: {3, 4}, origin: {"new", "from_session"},
           mated: BOOLEAN]

Languages == {r.language : r \in Releases}
Maps == {r.map : r \in Releases}
Heard == [language: Languages \cup {None}, map: Maps, speaker: Speakers \cup {None, 0}]

Errors == {"FailedToLoadResource", "PhonemizationError", "InferenceError"}

Answers == [kind: Errors \cup {"none", "loaded", "audio"}, heard: Heard \cup {None}]

ASSUME NoPiperAssumption == None \notin Pipers

Returned(kind) == [kind |-> kind, heard |-> None]

Answer(t, returned) == answer' = [answer EXCEPT ![t] = returned]

Init ==
    /\ config \in Releases /\ model = config
    /\ environment = "unset"
    /\ slot = [t \in Threads |-> None]
    /\ opened = [t \in Threads |-> None]
    /\ steady = [t \in Threads |-> FALSE]
    /\ answer = [t \in Threads |-> Returned("none")]

-----------------------------------------------------------------------------
(* The files.                                                              *)

WriteConfig(content) ==
    /\ config' = content
    /\ steady' = [t \in Threads |-> FALSE]
    /\ UNCHANGED <<model, environment, slot, opened, answer>>

WriteModel(content) ==
    /\ model' = content
    /\ steady' = [t \in Threads |-> FALSE]
    /\ UNCHANGED <<config, environment, slot, opened, answer>>

-----------------------------------------------------------------------------
(* Piper::new and Piper::from_session, assigned to the thread's slot.      *)

Idle(t) == opened[t] = None

\* Faulty variant: the old voice is given up before the new one is there.
OpenConfigEmptying(t) ==
    /\ Idle(t)
    /\ config \in Releases
    /\ opened' = [opened EXCEPT ![t] = config]
    /\ steady' = [steady EXCEPT ![t] = TRUE]
    /\ slot' = [slot EXCEPT ![t] = None]
    /\ UNCHANGED <<config, model, environment, answer>>

OpenConfig(t) ==
    /\ Idle(t)
    /\ \/ /\ config \notin Releases
          /\ Answer(t, Returned("FailedToLoadResource"))
          /\ UNCHANGED <<opened, steady>>
       \/ /\ config \in Releases
          /\ opened' = [opened EXCEPT ![t] = config]
          /\ steady' = [steady EXCEPT ![t] = TRUE]
          /\ UNCHANGED answer
    /\ UNCHANGED <<config, model, environment, slot>>

\* The assignment drops the Piper that was there.
Assign(t, voice, inputs, origin, mated) ==
    slot' = [slot EXCEPT ![t] =
                [voice |-> voice, inputs |-> inputs, origin |-> origin,
                 mated |-> mated]]

\* The engine is made, or the config parsed before is of no use.
LoadModel(t) ==
    /\ ~Idle(t)
    /\ \E outcome \in {"ready", "failed"} : GetOrInit(outcome)
    /\ \/ /\ environment' = "ready" /\ model \in Releases
          /\ Assign(t, opened[t], InputsOf(model), "new",
                    steady[t] /\ opened[t] = model)
          /\ Answer(t, Returned("loaded"))
       \/ /\ Answer(t, Returned("FailedToLoadResource"))
          /\ UNCHANGED slot
    /\ opened' = [opened EXCEPT ![t] = None]
    /\ steady' = [steady EXCEPT ![t] = FALSE]
    /\ UNCHANGED <<config, model>>

FromSession(t, voice, inputs) ==
    /\ Idle(t)
    /\ Assign(t, voice, inputs, "from_session", inputs = InputsOf(voice))
    /\ Answer(t, Returned("loaded"))
    /\ UNCHANGED <<config, model, environment, opened, steady>>

Unload(t) ==
    /\ Idle(t)
    /\ slot[t] # None
    /\ slot' = [slot EXCEPT ![t] = None]
    /\ UNCHANGED <<config, model, environment, opened, steady, answer>>

-----------------------------------------------------------------------------
(* Piper::create, Piper::voices.                                           *)

\* Faulty variant: a speaker asked for is passed to every model.
SpeakerAsAsked(voice, wanted) ==
    IF wanted = None /\ MultiSpeaker(voice) THEN 0 ELSE wanted

\* resolve_inference_params
ResolveSpeaker(voice, wanted) ==
    IF ~MultiSpeaker(voice) THEN None
    ELSE IF wanted = None THEN 0 ELSE wanted

Speaker(t, wanted) == ResolveSpeaker(slot[t].voice, wanted)

Spoken(t, wanted, isPhonemes) ==
    [language |-> IF isPhonemes THEN None ELSE slot[t].voice.language,
     map |-> slot[t].voice.map, speaker |-> Speaker(t, wanted)]

Create(t, wanted, isPhonemes) ==
    /\ Idle(t) /\ slot[t] # None
    /\ \/ /\ ~isPhonemes
          /\ Answer(t, Returned("PhonemizationError"))
       \/ \E outcome \in InferOutcomes(slot[t].inputs, Speaker(t, wanted)) :
             \/ /\ outcome = "RuntimeFailure"
                /\ Answer(t, Returned("InferenceError"))
             \/ /\ outcome = "audio"
                /\ Answer(t, [kind |-> outcome,
                              heard |-> Spoken(t, wanted, isPhonemes)])
    /\ UNCHANGED <<config, model, environment, slot, opened, steady>>

\* Piper::voices hands out the speaker map.
HasVoices(piper) == MultiSpeaker(piper.voice)

-----------------------------------------------------------------------------

Next ==
    \/ \E content \in Releases \cup {Missing, Malformed} :
          WriteConfig(content) \/ WriteModel(content)
    \/ \E t \in Threads :
          \/ OpenConfig(t) \/ LoadModel(t) \/ Unload(t)
          \/ \E voice \in Releases, inputs \in {3, 4} : FromSession(t, voice, inputs)
          \/ \E wanted \in Speakers \cup {None}, isPhonemes \in BOOLEAN :
                Create(t, wanted, isPhonemes)

Spec == Init /\ [][Next]_vars

-----------------------------------------------------------------------------
(* Properties.                                                             *)

\* Every variable has its type.
TypeOK ==
    /\ config \in Releases \cup {Missing, Malformed}
    /\ model \in Releases \cup {Missing, Malformed}
    /\ environment \in Environments
    /\ slot \in [Threads -> Pipers \cup {None}]
    /\ opened \in [Threads -> Releases \cup {None}]
    /\ steady \in [Threads -> BOOLEAN]
    /\ answer \in [Threads -> Answers]

\* A Piper whose config and model were of one release when Piper::new opened the
\* first, with neither written until it had read the second, runs its session with
\* the tensors it has inputs for, whatever speaker a caller asks for; likewise one
\* made of a matching session.  Piper::new checks no arity (lib.rs:100-124), so
\* nothing but that pairing stands behind it.
MatedPipersFit ==
    \A t \in Threads : slot[t] # None /\ slot[t].mated =>
       \A wanted \in Speakers \cup {None} :
          TensorCount(Speaker(t, wanted)) = slot[t].inputs

\* A voice that is loaded disappears only when it is unloaded: a swap keeps it
\* until the new one is complete, and for good if the new one fails
\* (model-lifecycle.adoc:76-81, lib.rs:100-124).
SwapKeepsTheOldVoice ==
    [][\A t \in Threads : slot[t] # None /\ slot'[t] = None
          => Idle(t) /\ Idle(t)']_vars

\* The inductive invariant of the proofs.
IndInv ==
    /\ TypeOK
    /\ \A t \in Threads : slot[t] # None /\ slot[t].mated =>
          slot[t].inputs = InputsOf(slot[t].voice)

\* The voices of SpeechService are the Pipers of the threads.
Voice == [t \in Threads |-> IF slot[t] = None THEN None ELSE slot[t].voice]

\* Its errors, by the layer they come from.
Layer == [FailedToLoadResource |-> "ModelLoadFailure",
          PhonemizationError |-> "Phonemization",
          InferenceError |-> "RuntimeFailure",
          none |-> "none", loaded |-> "loaded", audio |-> "audio"]

Reply == [t \in Threads |->
            [kind |-> Layer[answer[t].kind], heard |-> answer[t].heard]]

Service == INSTANCE SpeechService
    WITH Clients <- Threads, Names <- Threads, Configs <- Releases,
         voices <- Voice, answer <- Reply

\* A Piper speaks with the voice it was loaded with last, in that voice's language
\* unless it is given phonemes, with its map and as its speaker; a load that fails
\* changes nothing: the root crate, which uses no registry and no use case, keeps
\* the promise the pipeline of piper-core keeps (lib.rs:100-178, model.rs:37-56).
ImplementsService == Service!Spec

=============================================================================
