------------------------ MODULE PiperLifecycleProofs ------------------------
(***************************************************************************)
(* Theorems about PiperLifecycle, for any threads, releases and speakers,  *)
(* and any rewriting of the files under a load.                            *)
(***************************************************************************)
EXTENDS PiperLifecycle, TLAPS

LEMMA ReturnedTyped ==
    ASSUME NEW kind \in Errors \cup {"none", "loaded"}
    PROVE  Returned(kind) \in Answers
BY DEF Returned, Answers

LEMMA InputsTyped ==
    ASSUME NEW release \in Releases
    PROVE  InputsOf(release) \in {3, 4}
BY DEF InputsOf

\* The slot after an assignment, however the Piper was made.
LEMMA AssignTyped ==
    ASSUME NEW t \in Threads, TypeOK, NEW voice \in Releases, NEW inputs \in {3, 4},
           NEW origin \in {"new", "from_session"}, NEW mated,
           mated \in BOOLEAN, Assign(t, voice, inputs, origin, mated)
    PROVE  \E piper \in Pipers :
              /\ piper.voice = voice /\ piper.inputs = inputs
              /\ piper.mated = mated /\ piper # None
              /\ slot' = [slot EXCEPT ![t] = piper]
<1> DEFINE piper == [voice |-> voice, inputs |-> inputs, origin |-> origin,
                     mated |-> mated]
<1>1. piper \in Pipers
  BY DEF Pipers
<1>2. slot' = [slot EXCEPT ![t] = piper]
  BY DEF Assign
<1>3. piper # None
  BY <1>1, NoPiperAssumption
<1> QED BY <1>1, <1>2, <1>3

\* A Piper that Piper::new makes.
LEMMA LoadedPiper ==
    ASSUME IndInv, NEW t \in Threads, LoadModel(t), model \in Releases,
           Assign(t, opened[t], InputsOf(model), "new", steady[t] /\ opened[t] = model)
    PROVE  \E piper \in Pipers :
              /\ piper.inputs = InputsOf(model)
              /\ piper.mated => piper.voice = model
              /\ piper # None /\ slot' = [slot EXCEPT ![t] = piper]
<1>1. opened[t] \in Releases
  BY DEF IndInv, TypeOK, LoadModel, Idle
<1>2. PICK mated \in BOOLEAN : mated <=> steady[t] /\ opened[t] = model
  OBVIOUS
<1>3. mated = (steady[t] /\ opened[t] = model)
  BY <1>2
<1>4. Assign(t, opened[t], InputsOf(model), "new", mated)
  BY <1>3 DEF Assign
<1>5. PICK piper \in Pipers :
         /\ piper.voice = opened[t] /\ piper.inputs = InputsOf(model)
         /\ piper.mated = mated /\ piper # None
         /\ slot' = [slot EXCEPT ![t] = piper]
  BY <1>1, <1>4, InputsTyped, AssignTyped DEF IndInv
<1> QED BY <1>2, <1>5

\* A Piper made of a session.
LEMMA SessionPiper ==
    ASSUME IndInv, NEW t \in Threads, NEW voice \in Releases, NEW inputs \in {3, 4},
           FromSession(t, voice, inputs)
    PROVE  \E piper \in Pipers :
              /\ piper.voice = voice
              /\ piper.mated => piper.inputs = InputsOf(voice)
              /\ piper # None /\ slot' = [slot EXCEPT ![t] = piper]
<1>1. PICK mated \in BOOLEAN : mated <=> inputs = InputsOf(voice)
  OBVIOUS
<1>2. mated = (inputs = InputsOf(voice))
  BY <1>1
<1>3. Assign(t, voice, inputs, "from_session", mated)
  BY <1>2 DEF Assign, FromSession
<1>4. PICK piper \in Pipers :
         /\ piper.voice = voice /\ piper.inputs = inputs
         /\ piper.mated = mated /\ piper # None
         /\ slot' = [slot EXCEPT ![t] = piper]
  BY <1>3, AssignTyped DEF IndInv
<1> QED BY <1>1, <1>4

LEMMA InitIndInv == Init => IndInv
<1> SUFFICES ASSUME Init PROVE IndInv
  OBVIOUS
<1>1. answer \in [Threads -> Answers]
  BY ReturnedTyped DEF Init
<1> QED BY <1>1 DEF Init, IndInv, TypeOK, Environments

LEMMA WriteKeepsIndInv ==
    ASSUME IndInv, NEW content \in Releases \cup {Missing, Malformed},
           WriteConfig(content) \/ WriteModel(content)
    PROVE  IndInv'
<1>1. CASE WriteConfig(content)
  BY <1>1 DEF WriteConfig, IndInv, TypeOK
<1>2. CASE WriteModel(content)
  BY <1>2 DEF WriteModel, IndInv, TypeOK
<1> QED BY <1>1, <1>2

LEMMA OpenConfigKeepsIndInv ==
    ASSUME IndInv, NEW t \in Threads, OpenConfig(t)
    PROVE  IndInv'
<1> USE DEF IndInv, TypeOK, OpenConfig
<1>1. CASE Answer(t, Returned("FailedToLoadResource")) /\ UNCHANGED <<opened, steady>>
  <2>1. answer' \in [Threads -> Answers]
    BY <1>1, ReturnedTyped DEF Answer, Errors
  <2> QED BY <1>1, <2>1
<1>2. CASE /\ config \in Releases
           /\ opened' = [opened EXCEPT ![t] = config]
           /\ steady' = [steady EXCEPT ![t] = TRUE]
           /\ UNCHANGED answer
  BY <1>2
<1> QED BY <1>1, <1>2

LEMMA LoadModelKeepsIndInv ==
    ASSUME IndInv, NEW t \in Threads, LoadModel(t)
    PROVE  IndInv'
<1>1. environment' \in Environments
  BY DEF IndInv, TypeOK, LoadModel, GetOrInit, Environments
<1>2. opened' \in [Threads -> Releases \cup {None}] /\ steady' \in [Threads -> BOOLEAN]
  BY DEF IndInv, TypeOK, LoadModel
<1>3. CASE /\ model \in Releases
           /\ Assign(t, opened[t], InputsOf(model), "new", steady[t] /\ opened[t] = model)
           /\ Answer(t, Returned("loaded"))
  <2>1. answer' \in [Threads -> Answers]
    BY <1>3, ReturnedTyped DEF Answer, IndInv, TypeOK
  <2>2. PICK piper \in Pipers :
           /\ piper.inputs = InputsOf(model)
           /\ piper.mated => piper.voice = model
           /\ piper # None /\ slot' = [slot EXCEPT ![t] = piper]
    BY <1>3, LoadedPiper
  <2> QED
    BY <1>1, <1>2, <2>1, <2>2 DEF IndInv, TypeOK, LoadModel, InputsOf, MultiSpeaker
<1>4. CASE Answer(t, Returned("FailedToLoadResource")) /\ UNCHANGED slot
  <2>1. answer' \in [Threads -> Answers]
    BY <1>4, ReturnedTyped DEF Answer, Errors, IndInv, TypeOK
  <2> QED BY <1>1, <1>2, <1>4, <2>1 DEF IndInv, TypeOK, LoadModel
<1> QED BY <1>3, <1>4 DEF LoadModel

LEMMA FromSessionKeepsIndInv ==
    ASSUME IndInv, NEW t \in Threads, NEW voice \in Releases, NEW inputs \in {3, 4},
           FromSession(t, voice, inputs)
    PROVE  IndInv'
<1>1. answer' \in [Threads -> Answers]
  BY ReturnedTyped DEF FromSession, Answer, IndInv, TypeOK
<1>2. PICK piper \in Pipers :
         /\ piper.voice = voice
         /\ piper.mated => piper.inputs = InputsOf(voice)
         /\ piper # None /\ slot' = [slot EXCEPT ![t] = piper]
  BY SessionPiper
<1> QED BY <1>1, <1>2 DEF FromSession, IndInv, TypeOK, InputsOf, MultiSpeaker

LEMMA UnloadKeepsIndInv ==
    ASSUME IndInv, NEW t \in Threads, Unload(t)
    PROVE  IndInv'
BY DEF IndInv, TypeOK, Unload

LEMMA SpokenTyped ==
    ASSUME IndInv, NEW t \in Threads, slot[t] # None,
           NEW wanted \in Speakers \cup {None}, NEW isPhonemes \in BOOLEAN
    PROVE  [kind |-> "audio", heard |-> Spoken(t, wanted, isPhonemes)] \in Answers
<1>1. slot[t].voice \in Releases
  BY DEF IndInv, TypeOK, Pipers
<1>2. slot[t].voice.language \in Languages /\ slot[t].voice.map \in Maps
  BY <1>1 DEF Languages, Maps
<1>3. Speaker(t, wanted) \in Speakers \cup {None, 0}
  BY DEF Speaker, ResolveSpeaker
<1> QED BY <1>2, <1>3 DEF Spoken, Answers, Heard

LEMMA CreateKeepsIndInv ==
    ASSUME IndInv, NEW t \in Threads, NEW wanted \in Speakers \cup {None},
           NEW isPhonemes \in BOOLEAN, Create(t, wanted, isPhonemes)
    PROVE  IndInv'
<1>1. \E returned \in Answers : Answer(t, returned)
  BY ReturnedTyped, SpokenTyped DEF Create, Errors
<1>2. answer' \in [Threads -> Answers]
  BY <1>1 DEF Answer, IndInv, TypeOK
<1> QED BY <1>2 DEF Create, IndInv, TypeOK, InputsOf, MultiSpeaker

LEMMA NextKeepsIndInv == IndInv /\ [Next]_vars => IndInv'
<1> SUFFICES ASSUME IndInv, [Next]_vars PROVE IndInv'
  OBVIOUS
<1>1. CASE UNCHANGED vars
  BY <1>1 DEF vars, IndInv, TypeOK, InputsOf, MultiSpeaker
<1>2. CASE Next
  BY <1>2, WriteKeepsIndInv, OpenConfigKeepsIndInv, LoadModelKeepsIndInv,
     FromSessionKeepsIndInv, UnloadKeepsIndInv, CreateKeepsIndInv DEF Next
<1> QED BY <1>1, <1>2

\* The invariant of the life of a Piper, for every instance.
THEOREM IndInvAlways == Spec => []IndInv
BY InitIndInv, NextKeepsIndInv, PTL DEF Spec

\* Every reachable state is well typed.
THEOREM TypeCorrect == Spec => []TypeOK
<1>1. IndInv => TypeOK
  BY DEF IndInv
<1> QED BY <1>1, IndInvAlways, PTL

\* A Piper made of a config and a model of one release is never run with the wrong
\* number of tensors.
THEOREM MatedFit == Spec => []MatedPipersFit
<1>1. IndInv => MatedPipersFit
  <2> SUFFICES ASSUME IndInv, NEW t \in Threads, slot[t] # None, slot[t].mated,
                      NEW wanted \in Speakers \cup {None}
               PROVE  TensorCount(Speaker(t, wanted)) = slot[t].inputs
    BY DEF MatedPipersFit
  <2>1. slot[t].inputs = InputsOf(slot[t].voice)
    BY DEF IndInv
  <2> QED
    BY <2>1, LifecycleAssumption DEF TensorCount, Speaker, ResolveSpeaker, InputsOf
<1> QED BY <1>1, IndInvAlways, PTL

\* Loading over a voice never leaves the slot empty, however the load goes.
THEOREM SwapKeeps == Spec => SwapKeepsTheOldVoice
<1> DEFINE Step(t) == slot[t] # None /\ slot'[t] = None => Idle(t) /\ Idle(t)'
<1>1. ASSUME IndInv, [Next]_vars, NEW t \in Threads PROVE Step(t)
  <2>1. CASE UNCHANGED slot
    BY <2>1
  <2>2. ASSUME NEW u \in Threads, Unload(u) PROVE Step(t)
    BY <1>1, <2>2 DEF Unload, Idle, IndInv, TypeOK
  <2>3. ASSUME NEW u \in Threads, LoadModel(u) PROVE Step(t)
    <3>1. CASE UNCHANGED slot
      BY <3>1
    <3>2. CASE model \in Releases
               /\ Assign(u, opened[u], InputsOf(model), "new",
                         steady[u] /\ opened[u] = model)
      <4>1. PICK piper \in Pipers : piper # None /\ slot' = [slot EXCEPT ![u] = piper]
        BY <1>1, <2>3, <3>2, LoadedPiper
      <4> QED BY <1>1, <4>1 DEF IndInv, TypeOK
    <3> QED BY <2>3, <3>1, <3>2 DEF LoadModel
  <2>4. ASSUME NEW u \in Threads, NEW voice \in Releases, NEW inputs \in {3, 4},
               FromSession(u, voice, inputs)
        PROVE  Step(t)
    <3>1. PICK piper \in Pipers : piper # None /\ slot' = [slot EXCEPT ![u] = piper]
      BY <1>1, <2>4, SessionPiper
    <3> QED BY <1>1, <3>1 DEF IndInv, TypeOK
  <2>5. ASSUME NEW u \in Threads, OpenConfig(u) PROVE UNCHANGED slot
    BY <2>5 DEF OpenConfig
  <2>6. ASSUME NEW u \in Threads, NEW wanted, NEW isPhonemes,
               Create(u, wanted, isPhonemes)
        PROVE  UNCHANGED slot
    BY <2>6 DEF Create
  <2>7. ASSUME NEW content, WriteConfig(content) \/ WriteModel(content)
        PROVE  UNCHANGED slot
    BY <2>7 DEF WriteConfig, WriteModel
  <2>8. UNCHANGED vars => UNCHANGED slot
    BY DEF vars
  <2> HIDE DEF Step
  <2> QED BY <1>1, <2>1, <2>2, <2>3, <2>4, <2>5, <2>6, <2>7, <2>8 DEF Next
<1>2. IndInv /\ [Next]_vars => [\A t \in Threads : Step(t)]_vars
  BY <1>1
<1> QED BY <1>2, IndInvAlways, PTL DEF Spec, SwapKeepsTheOldVoice

-----------------------------------------------------------------------------
(* The refinement of SpeechService.                                        *)

\* How an answer of the root crate reads in the service.
LEMMA ReplyAfterAnswer ==
    ASSUME IndInv, NEW t \in Threads, NEW returned \in Answers, Answer(t, returned)
    PROVE  Reply' = [Reply EXCEPT ![t] = [kind |-> Layer[returned.kind],
                                          heard |-> returned.heard]]
BY DEF IndInv, TypeOK, Answer, Reply

LEMMA RefusalImplements ==
    ASSUME IndInv, NEW t \in Threads, NEW error \in Errors,
           Answer(t, Returned(error)), UNCHANGED slot
    PROVE  Service!Next
<1>1. Reply' = [Reply EXCEPT ![t] = [kind |-> Layer[error], heard |-> None]]
  BY ReplyAfterAnswer, ReturnedTyped DEF Returned
<1>2. Voice' = Voice
  BY DEF Voice
<1>3. Layer[error] \in Service!InstallErrors \cup Service!SpeakErrors
  BY DEF Layer, Errors, Service!InstallErrors, Service!SpeakErrors
<1>4. Service!Refuse(t, Layer[error])
  BY <1>1, <1>2 DEF Service!Refuse, Service!Answer, Service!Returned
<1> QED BY <1>3, <1>4 DEF Service!Next

LEMMA InstallImplements ==
    ASSUME IndInv, NEW t \in Threads, NEW piper \in Pipers, piper # None,
           slot' = [slot EXCEPT ![t] = piper], Answer(t, Returned("loaded"))
    PROVE  Service!Next
<1>1. Reply' = [Reply EXCEPT ![t] = Service!Returned("loaded")]
  BY ReplyAfterAnswer, ReturnedTyped DEF Returned, Layer, Service!Returned
<1>2. Voice' = [Voice EXCEPT ![t] = piper.voice]
  BY DEF Voice, IndInv, TypeOK
<1>3. Service!Install(t, t, piper.voice)
  BY <1>1, <1>2 DEF Service!Install, Service!Answer
<1>4. piper.voice \in Releases
  BY DEF Pipers
<1> QED BY <1>3, <1>4 DEF Service!Next

\* The speaker resolved is the one SpeechService speaks of.
LEMMA ResolveIsSpeakerOf ==
    ASSUME NEW voice \in Releases, NEW wanted \in Speakers \cup {None}
    PROVE  ResolveSpeaker(voice, wanted) = Service!SpeakerOf(voice, wanted)
<1>1. voice.speakers \in Nat
  BY LifecycleAssumption
<1>2. CASE voice.speakers <= 1
  BY <1>1, <1>2 DEF ResolveSpeaker, MultiSpeaker, Service!SpeakerOf
<1>3. CASE voice.speakers > 1 /\ wanted # None
  BY <1>1, <1>3 DEF ResolveSpeaker, MultiSpeaker, Service!SpeakerOf
<1>4. CASE voice.speakers > 1 /\ wanted = None
  BY <1>1, <1>4 DEF ResolveSpeaker, MultiSpeaker, Service!SpeakerOf
<1> QED BY <1>1, <1>2, <1>3, <1>4

LEMMA CreateImplements ==
    ASSUME IndInv, NEW t \in Threads, NEW wanted \in Speakers \cup {None},
           NEW isPhonemes \in BOOLEAN, Create(t, wanted, isPhonemes)
    PROVE  Service!Next
<1> DEFINE heard == Spoken(t, wanted, isPhonemes)
           voice == slot[t].voice
<1>1. slot[t] # None /\ UNCHANGED slot
  BY DEF Create
<1>2. voice \in Releases /\ Voice[t] = voice /\ Voice[t] # None
  BY <1>1, LifecycleAssumption DEF IndInv, TypeOK, Pipers, Voice
<1>3. Voice' = Voice
  BY <1>1 DEF Voice
<1>4. CASE Answer(t, Returned("PhonemizationError"))
  BY <1>1, <1>4, RefusalImplements DEF Errors
<1>5. CASE Answer(t, Returned("InferenceError"))
  BY <1>1, <1>5, RefusalImplements DEF Errors
<1>6. CASE Answer(t, [kind |-> "audio", heard |-> heard])
  <2> DEFINE returned == [kind |-> "audio", heard |-> heard]
  <2>1. returned \in Answers
    BY <1>1, SpokenTyped
  <2>2. Reply' = [Reply EXCEPT ![t] = returned]
    BY <1>6, <2>1, ReplyAfterAnswer DEF Layer
  <2>3. Speaker(t, wanted) = Service!SpeakerOf(voice, wanted)
    BY <1>2, ResolveIsSpeakerOf DEF Speaker
  <2>4. CASE isPhonemes
    <3>1. heard = [Service!Audio(voice, wanted) EXCEPT !.language = None]
      BY <2>3, <2>4 DEF Spoken, Service!Audio
    <3>2. Service!Pronounce(t, t, wanted)
      BY <1>2, <1>3, <2>2, <3>1 DEF Service!Pronounce, Service!Answer
    <3> QED BY <3>2 DEF Service!Next
  <2>5. CASE ~isPhonemes
    <3>1. heard = Service!Audio(voice, wanted)
      BY <2>3, <2>5 DEF Spoken, Service!Audio
    <3>2. Service!Speak(t, t, wanted)
      BY <1>2, <1>3, <2>2, <3>1 DEF Service!Speak, Service!Answer
    <3> QED BY <3>2 DEF Service!Next
  <2> QED BY <2>4, <2>5
<1> QED BY <1>4, <1>5, <1>6 DEF Create

LEMMA NextImplements == IndInv /\ [Next]_vars => [Service!Next]_Service!vars
<1> SUFFICES ASSUME IndInv, [Next]_vars
             PROVE  Service!Next \/ UNCHANGED Service!vars
  OBVIOUS
<1>1. ASSUME UNCHANGED <<slot, answer>> PROVE UNCHANGED Service!vars
  BY <1>1 DEF Service!vars, Voice, Reply
<1>2. ASSUME NEW content, WriteConfig(content) \/ WriteModel(content)
      PROVE  UNCHANGED <<slot, answer>>
  BY <1>2 DEF WriteConfig, WriteModel
<1>3. ASSUME NEW t \in Threads, OpenConfig(t)
      PROVE  Service!Next \/ UNCHANGED Service!vars
  BY <1>1, <1>3, RefusalImplements DEF OpenConfig, Errors
<1>4. ASSUME NEW t \in Threads, LoadModel(t) PROVE Service!Next
  <2>1. CASE Answer(t, Returned("FailedToLoadResource")) /\ UNCHANGED slot
    BY <2>1, RefusalImplements DEF Errors
  <2>2. CASE /\ model \in Releases
             /\ Assign(t, opened[t], InputsOf(model), "new",
                       steady[t] /\ opened[t] = model)
             /\ Answer(t, Returned("loaded"))
    BY <1>4, <2>2, LoadedPiper, InstallImplements
  <2> QED BY <1>4, <2>1, <2>2 DEF LoadModel
<1>5. ASSUME NEW t \in Threads, Unload(t) PROVE Service!Next
  <2>1. Voice' = [Voice EXCEPT ![t] = None] /\ Reply' = Reply
    BY <1>5 DEF Unload, Voice, Reply, IndInv, TypeOK
  <2>2. Service!Remove(t)
    BY <2>1 DEF Service!Remove
  <2> QED BY <2>2 DEF Service!Next
<1>6. ASSUME NEW t \in Threads, NEW voice \in Releases, NEW inputs \in {3, 4},
             FromSession(t, voice, inputs)
      PROVE  Service!Next
  BY <1>6, SessionPiper, InstallImplements DEF FromSession
<1>7. UNCHANGED vars => UNCHANGED <<slot, answer>>
  BY DEF vars
<1> QED
  BY <1>1, <1>2, <1>3, <1>4, <1>5, <1>6, <1>7, CreateImplements DEF Next

LEMMA InitImplements == Init => Service!Init
BY DEF Init, Service!Init, Voice, Reply, Layer, Returned, Service!Returned

\* The root crate keeps the promise of SpeechService.
THEOREM PiperImplementsService == Spec => ImplementsService
<1>1. Spec => []IndInv
  BY IndInvAlways
<1> QED
  BY <1>1, InitImplements, NextImplements, PTL
     DEF Spec, ImplementsService, Service!Spec

=============================================================================
