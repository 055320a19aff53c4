------------------------- MODULE VoicePipelineProofs -------------------------
(***************************************************************************)
(* Theorems about VoicePipeline, for any threads, voices, ids and models:  *)
(* IndInv is inductive; the safety properties follow from it; and each     *)
(* step is a step of SpeechService or changes nothing it speaks of.        *)
(***************************************************************************)
EXTENDS VoicePipeline, TLAPS

\* What an answer without anything heard looks like.
LEMMA ReturnedTyped ==
    ASSUME NEW kind \in Errors \cup {"none", "loaded"}
    PROVE  Returned(kind) \in Answers
BY DEF Returned, Answers

LEMMA LoadErrorTyped ==
    ASSUME NEW id \in VoiceIds, NEW content \in Contents, ~Describes(id, content)
    PROVE  LoadError(id, content) \in LoadErrors
<1>1. CASE id \in UnsafeIds \/ content = Missing
  BY <1>1, PipelineAssumption DEF LoadError, LoadErrors
<1>2. CASE id \notin UnsafeIds /\ content = Unreadable
  BY <1>2, PipelineAssumption DEF LoadError, LoadErrors
<1>3. CASE id \notin UnsafeIds /\ content = Malformed
  BY <1>3, PipelineAssumption DEF LoadError, LoadErrors
<1> QED BY <1>1, <1>2, <1>3 DEF Contents, Describes

\* The check at load time and the speaker resolved at synthesis agree.
LEMMA CheckAgreesWithResolve ==
    ASSUME NEW voice \in Configs, NEW wanted \in Speakers \cup {None},
           NEW inputs, ValidateArity(inputs, MultiSpeaker(voice))
    PROVE  TensorCount(ResolveSpeaker(voice, wanted)) = inputs
BY PipelineAssumption DEF ValidateArity, MultiSpeaker, TensorCount, ResolveSpeaker

\* The speaker resolved is the one SpeechService speaks of.
LEMMA ResolveIsSpeakerOf ==
    ASSUME NEW voice \in Configs, NEW wanted \in Speakers \cup {None}
    PROVE  ResolveSpeaker(voice, wanted) = Service!SpeakerOf(voice, wanted)
<1>1. voice.speakers \in Nat
  BY PipelineAssumption
<1>2. CASE voice.speakers <= 1
  BY <1>1, <1>2 DEF ResolveSpeaker, MultiSpeaker, Service!SpeakerOf
<1>3. CASE voice.speakers > 1 /\ wanted # None
  BY <1>1, <1>3 DEF ResolveSpeaker, MultiSpeaker, Service!SpeakerOf
<1>4. CASE voice.speakers > 1 /\ wanted = None
  BY <1>1, <1>4 DEF ResolveSpeaker, MultiSpeaker, Service!SpeakerOf
<1> QED BY <1>1, <1>2, <1>3, <1>4

LEMMA InitIndInv == Init => IndInv
<1> SUFFICES ASSUME Init PROVE IndInv
  OBVIOUS
<1>1. answer \in [Threads -> Answers]
  BY ReturnedTyped DEF Init
<1>2. TypeOK
  BY <1>1 DEF Init, TypeOK, Environments
<1> QED BY <1>2 DEF Init, IndInv, ChecksAgree, VoiceStaysPut, EnvironmentFirst

LEMMA NewEngineKeepsIndInv ==
    ASSUME IndInv, NEW t \in Threads, NewEngine(t)
    PROVE  IndInv'
<1> USE DEF IndInv, TypeOK, NewEngine
<1>1. environment' \in Environments
  BY DEF GetOrInit, Environments
<1>2. environment = "ready" => environment' = "ready"
  BY DEF GetOrInit
<1>3. CASE \E n \in Inputs :
              /\ environment' = "ready"
              /\ engine' = [engine EXCEPT ![t] = [inputs |-> n, origin |-> "new"]]
              /\ UNCHANGED answer
  <2>1. engine' \in [Threads -> Engines \cup {None}]
    BY <1>3 DEF Engines
  <2> QED
    BY <1>1, <1>3, <2>1 DEF ChecksAgree, VoiceStaysPut, EnvironmentFirst
<1>4. CASE Answer(t, Returned("RuntimeFailure")) /\ UNCHANGED engine
  <2>1. answer' \in [Threads -> Answers]
    BY <1>4, ReturnedTyped DEF Answer, Errors
  <2> QED
    BY <1>1, <1>2, <1>4, <2>1 DEF ChecksAgree, VoiceStaysPut, EnvironmentFirst
<1> QED BY <1>3, <1>4

LEMMA FromSessionKeepsIndInv ==
    ASSUME IndInv, NEW t \in Threads, FromSession(t)
    PROVE  IndInv'
<1> USE DEF IndInv, TypeOK, FromSession
<1>1. engine' \in [Threads -> Engines \cup {None}]
  BY DEF Engines
<1> QED BY <1>1 DEF ChecksAgree, VoiceStaysPut, EnvironmentFirst

\* While the registry is changed, nobody reads it.
LEMMA LoadVoiceKeepsIndInv ==
    ASSUME IndInv, NEW t \in Threads, NEW id \in VoiceIds, NEW content \in Contents,
           LoadVoice(t, id, content)
    PROVE  IndInv'
<1> USE DEF IndInv, TypeOK, LoadVoice
<1>1. engine[t] \in Engines
  OBVIOUS
<1>2. CASE ~Describes(id, content)
  <2>1. answer' \in [Threads -> Answers]
    BY <1>2, LoadErrorTyped, ReturnedTyped DEF Answer, Errors
  <2> QED BY <1>2, <2>1 DEF ChecksAgree, VoiceStaysPut, EnvironmentFirst
<1>3. CASE /\ Describes(id, content)
           /\ ~ValidateArity(engine[t].inputs, MultiSpeaker(content))
  <2>1. answer' \in [Threads -> Answers]
    BY <1>3, ReturnedTyped DEF Answer, Errors, LoadErrors
  <2> QED BY <1>3, <2>1 DEF ChecksAgree, VoiceStaysPut, EnvironmentFirst
<1>4. CASE /\ Describes(id, content)
           /\ ValidateArity(engine[t].inputs, MultiSpeaker(content))
  <2>1. answer' \in [Threads -> Answers]
    BY <1>4, ReturnedTyped DEF Answer
  <2>2. content \in Configs /\ engine[t].inputs \in Inputs
    BY <1>1, <1>4 DEF Describes, Engines
  <2>3. registry' = [registry EXCEPT ![id] = content]
        /\ checked' = [checked EXCEPT ![id] = engine[t].inputs]
    BY <1>4 DEF Register
  <2>4. ChecksAgree'
    BY <1>4, <2>2, <2>3, PipelineAssumption DEF ChecksAgree
  <2> QED
    BY <2>1, <2>2, <2>3, <2>4 DEF RegistryIsFree, VoiceStaysPut, EnvironmentFirst
<1> QED BY <1>2, <1>3, <1>4

LEMMA RegisterDirectlyKeepsIndInv ==
    ASSUME IndInv, NEW t \in Threads, NEW id \in VoiceIds, NEW content \in Contents,
           RegisterDirectly(t, id, content)
    PROVE  IndInv'
<1> USE DEF IndInv, TypeOK, RegisterDirectly
<1>1. answer' \in [Threads -> Answers]
  BY ReturnedTyped DEF Answer
<1>2. content \in Configs
  BY DEF Describes
<1>3. registry' = [registry EXCEPT ![id] = content]
      /\ checked' = [checked EXCEPT ![id] = None]
  BY DEF Register
<1>4. ChecksAgree'
  BY <1>3 DEF ChecksAgree
<1> QED
  BY <1>1, <1>2, <1>3, <1>4 DEF RegistryIsFree, VoiceStaysPut, EnvironmentFirst

LEMMA LookupKeepsIndInv ==
    ASSUME IndInv, NEW t \in Threads, NEW id \in VoiceIds,
           NEW wanted \in Speakers \cup {None}, NEW use \in {"synthesize", "phonemize"},
           use = "synthesize" => engine[t] # None, Lookup(t, use, id, wanted)
    PROVE  IndInv'
<1> USE DEF IndInv, TypeOK, Lookup
<1>1. CASE registry[id] = None /\ Answer(t, Returned("VoiceNotFound"))
           /\ UNCHANGED <<pc, call>>
  <2>1. answer' \in [Threads -> Answers]
    BY <1>1, ReturnedTyped DEF Answer, Errors
  <2> QED BY <1>1, <2>1 DEF ChecksAgree, VoiceStaysPut, EnvironmentFirst
<1>2. CASE registry[id] # None /\ pc' = [pc EXCEPT ![t] = "phonemize"]
           /\ UNCHANGED answer
  <2> DEFINE c == [use |-> use, id |-> id, voice |-> registry[id],
                   wanted |-> wanted, language |-> None]
  <2>1. call' = [call EXCEPT ![t] = c]
    BY <1>2
  <2>2. c \in Calls
    BY <1>2 DEF Calls
  <2>3. c.id = id /\ c.voice = registry[id] /\ c.use = use /\ c # None
    BY <1>2, <2>2, NoneAssumption DEF Calls
  <2> HIDE DEF c
  <2>4. TypeOK'
    BY <1>2, <2>1, <2>2
  <2>5. VoiceStaysPut'
    BY <1>2, <2>1, <2>3 DEF VoiceStaysPut
  <2> QED BY <1>2, <2>1, <2>3, <2>4, <2>5 DEF ChecksAgree, EnvironmentFirst
<1> QED BY <1>1, <1>2

\* A use case that returns gives up its call.
LEMMA ReturnKeepsIndInv ==
    ASSUME IndInv, NEW t \in Threads, NEW returned \in Answers, Return(t, returned),
           UNCHANGED <<registry, checked, engine, environment>>
    PROVE  IndInv'
<1> USE DEF IndInv, TypeOK, Return, Answer
<1>1. TypeOK'
  OBVIOUS
<1> QED BY <1>1 DEF ChecksAgree, VoiceStaysPut, EnvironmentFirst

\* The voice of a call in progress, and the language of its second lookup.
LEMMA CallTyped ==
    ASSUME IndInv, NEW t \in Threads, pc[t] # "idle"
    PROVE  /\ call[t] \in Calls
           /\ registry[call[t].id] = call[t].voice
           /\ call[t].voice \in Configs
           /\ call[t].voice.language \in Languages /\ call[t].voice.map \in Maps
BY DEF IndInv, TypeOK, Calls, VoiceStaysPut, Languages, Maps

LEMMA AskPhonemizerKeepsIndInv ==
    ASSUME IndInv, NEW t \in Threads, AskPhonemizer(t)
    PROVE  IndInv'
<1> DEFINE language == registry[call[t].id].language
           sentences == [kind |-> "sentences",
                         heard |-> [language |-> language, map |-> None,
                                    speaker |-> None]]
<1>1. pc[t] = "phonemize" /\ UNCHANGED <<registry, checked, engine, environment>>
  BY DEF AskPhonemizer
<1>2. call[t] \in Calls /\ language \in Languages /\ language = call[t].voice.language
  BY <1>1, CallTyped
<1>3. CASE Return(t, Returned("Phonemization"))
  BY <1>1, <1>3, ReturnedTyped, ReturnKeepsIndInv DEF Errors
<1>4. CASE Return(t, sentences)
  <2>1. sentences \in Answers
    BY <1>2 DEF Answers, Heard
  <2> QED BY <1>1, <1>4, <2>1, ReturnKeepsIndInv
<1>5. CASE /\ call[t].use = "synthesize"
           /\ pc' = [pc EXCEPT ![t] = "infer"]
           /\ call' = [call EXCEPT ![t].language = language]
           /\ UNCHANGED answer
  <2> DEFINE c == [call[t] EXCEPT !.language = language]
  <2>1. c \in Calls /\ c.id = call[t].id /\ c.voice = call[t].voice
        /\ c.use = "synthesize" /\ c.language = language
    BY <1>2, <1>5 DEF Calls
  <2>2. call' = [call EXCEPT ![t] = c] /\ c # None
    BY <1>5, <2>1, NoneAssumption
  <2> HIDE DEF c, language
  <2>3. TypeOK'
    BY <1>1, <1>5, <2>1, <2>2 DEF IndInv, TypeOK
  <2>4. VoiceStaysPut'
    BY <1>1, <1>2, <1>5, <2>1, <2>2 DEF IndInv, TypeOK, VoiceStaysPut
  <2> QED
    BY <1>1, <1>5, <2>1, <2>2, <2>3, <2>4
       DEF IndInv, TypeOK, ChecksAgree, EnvironmentFirst
<1> QED BY <1>3, <1>4, <1>5 DEF AskPhonemizer

\* What is heard is typed, and is what SpeechService says.
LEMMA AudioTyped ==
    ASSUME IndInv, NEW t \in Threads, pc[t] = "infer"
    PROVE  /\ [kind |-> "audio",
               heard |-> [language |-> call[t].language, map |-> call[t].voice.map,
                          speaker |-> Speaker(t)]] \in Answers
           /\ Speaker(t) = Service!SpeakerOf(registry[call[t].id], call[t].wanted)
           /\ call[t].language = registry[call[t].id].language
<1>1. /\ call[t] \in Calls
      /\ registry[call[t].id] = call[t].voice
      /\ call[t].voice \in Configs
      /\ call[t].voice.language \in Languages /\ call[t].voice.map \in Maps
  BY CallTyped
<1>2. call[t].language = call[t].voice.language
  BY DEF IndInv, VoiceStaysPut
<1>3. call[t].wanted \in Speakers \cup {None}
  BY <1>1 DEF Calls
<1>4. Speaker(t) \in Speakers \cup {None, 0}
  BY <1>3 DEF Speaker, ResolveSpeaker
<1>5. Speaker(t) = Service!SpeakerOf(call[t].voice, call[t].wanted)
  BY <1>1, <1>3, ResolveIsSpeakerOf DEF Speaker
<1> QED BY <1>1, <1>2, <1>4, <1>5 DEF Answers, Heard

LEMMA InferKeepsIndInv ==
    ASSUME IndInv, NEW t \in Threads, Infer(t)
    PROVE  IndInv'
<1>1. pc[t] = "infer" /\ UNCHANGED <<registry, checked, engine, environment>>
  BY DEF Infer
<1>2. CASE Return(t, Returned("RuntimeFailure"))
  BY <1>1, <1>2, ReturnedTyped, ReturnKeepsIndInv DEF Errors
<1>3. CASE Return(t, [kind |-> "audio",
                      heard |-> [language |-> call[t].language,
                                 map |-> call[t].voice.map, speaker |-> Speaker(t)]])
  BY <1>1, <1>3, AudioTyped, ReturnKeepsIndInv
<1> QED BY <1>2, <1>3 DEF Infer

LEMMA NextKeepsIndInv == IndInv /\ [Next]_vars => IndInv'
<1> SUFFICES ASSUME IndInv, [Next]_vars PROVE IndInv'
  OBVIOUS
<1>1. CASE UNCHANGED vars
  BY <1>1
     DEF vars, IndInv, TypeOK, ChecksAgree, VoiceStaysPut, EnvironmentFirst
<1>2. CASE Next
  <2>1. PICK t \in Threads :
           \/ NewEngine(t) \/ FromSession(t)
           \/ AskPhonemizer(t) \/ Infer(t)
           \/ \E id \in VoiceIds :
                 \/ \E content \in Contents :
                       LoadVoice(t, id, content) \/ RegisterDirectly(t, id, content)
                 \/ \E wanted \in Speakers \cup {None} : Synthesize(t, id, wanted)
                 \/ Phonemize(t, id)
    BY <1>2 DEF Next
  <2>2. ASSUME NEW id \in VoiceIds, NEW wanted \in Speakers \cup {None},
               Synthesize(t, id, wanted)
        PROVE  IndInv'
    BY <2>2, LookupKeepsIndInv DEF Synthesize
  <2>3. ASSUME NEW id \in VoiceIds, Phonemize(t, id) PROVE IndInv'
    BY <2>3, LookupKeepsIndInv DEF Phonemize
  <2> QED
    BY <2>1, <2>2, <2>3, NewEngineKeepsIndInv, FromSessionKeepsIndInv,
       AskPhonemizerKeepsIndInv, InferKeepsIndInv, LoadVoiceKeepsIndInv,
       RegisterDirectlyKeepsIndInv
<1> QED BY <1>1, <1>2

\* The pipeline's invariant, for every instance.
THEOREM IndInvAlways == Spec => []IndInv
BY InitIndInv, NextKeepsIndInv, PTL DEF Spec

\* Every reachable state is well typed.
THEOREM TypeCorrect == Spec => []TypeOK
<1>1. IndInv => TypeOK
  BY DEF IndInv
<1> QED BY <1>1, IndInvAlways, PTL

\* Nothing is registered under a use case that is under way.
THEOREM CallsKeepTheirVoice == Spec => []VoiceStaysPut
<1>1. IndInv => VoiceStaysPut
  BY DEF IndInv
<1> QED BY <1>1, IndInvAlways, PTL

\* The arity check of LoadVoice holds good when the voice is run.
THEOREM ChecksHoldGood == Spec => []CheckedVoicesFit
<1>1. IndInv => CheckedVoicesFit
  <2> SUFFICES ASSUME IndInv, NEW t \in Threads, pc[t] = "infer",
                      checked[call[t].id] = engine[t].inputs
               PROVE  TensorCount(Speaker(t)) = engine[t].inputs
    BY DEF CheckedVoicesFit
  <2>1. call[t] \in Calls /\ call[t].voice \in Configs
        /\ registry[call[t].id] = call[t].voice
    BY CallTyped
  <2>2. call[t].id \in VoiceIds /\ call[t].wanted \in Speakers \cup {None}
    BY <2>1 DEF Calls
  <2>3. engine[t].inputs \in Inputs /\ engine[t].inputs # None
    BY PipelineAssumption DEF IndInv, TypeOK, Engines
  <2>4. ValidateArity(engine[t].inputs, MultiSpeaker(call[t].voice))
    BY <2>1, <2>2, <2>3 DEF IndInv, ChecksAgree
  <2> QED BY <2>1, <2>2, <2>4, CheckAgreesWithResolve DEF Speaker
<1> QED BY <1>1, IndInvAlways, PTL

\* A process without an environment makes no engine from a file.
THEOREM NoEngineAfterFailure == Spec => FailureIsFinal
<1> DEFINE Step == environment = "failed" =>
             \A t \in Threads : engine'[t] = engine[t] \/ engine'[t].origin # "new"
<1>1. ASSUME IndInv, [Next]_vars PROVE [Step]_vars
  <2>1. ASSUME NEW t \in Threads, NewEngine(t) PROVE Step
    BY <1>1, <2>1 DEF NewEngine, GetOrInit
  <2>2. ASSUME NEW t \in Threads, FromSession(t) PROVE Step
    BY <1>1, <2>2 DEF FromSession, IndInv, TypeOK
  <2>3. ASSUME UNCHANGED engine PROVE Step
    BY <2>3
  <2>4. ASSUME NEW t \in Threads, Infer(t) \/ AskPhonemizer(t) PROVE UNCHANGED engine
    BY <2>4 DEF Infer, AskPhonemizer
  <2>5. ASSUME NEW t \in Threads, NEW id \in VoiceIds, NEW content \in Contents,
               LoadVoice(t, id, content) \/ RegisterDirectly(t, id, content)
        PROVE  UNCHANGED engine
    BY <2>5 DEF LoadVoice, RegisterDirectly
  <2>6. ASSUME NEW t \in Threads, NEW id \in VoiceIds, NEW wanted \in Speakers \cup {None},
               Synthesize(t, id, wanted) \/ Phonemize(t, id)
        PROVE  UNCHANGED engine
    BY <2>6 DEF Synthesize, Phonemize, Lookup
  <2>7. UNCHANGED vars => UNCHANGED engine
    BY DEF vars
  <2> HIDE DEF Step
  <2> QED BY <1>1, <2>1, <2>2, <2>3, <2>4, <2>5, <2>6, <2>7 DEF Next
<1>2. IndInv /\ [Next]_vars => [Step]_vars
  BY <1>1
<1> QED BY <1>2, IndInvAlways, PTL DEF Spec, FailureIsFinal

-----------------------------------------------------------------------------
(* The refinement of SpeechService.                                        *)

LEMMA InitImplements == Init => Service!Init
BY DEF Init, Service!Init, Returned, Service!Returned

\* A step that only reports an error is a refusal.
LEMMA RefusalImplements ==
    ASSUME NEW t \in Threads,
           NEW error \in LoadErrors \cup {"Phonemization", "RuntimeFailure"},
           Answer(t, Returned(error)), UNCHANGED registry
    PROVE  Service!Next
<1>1. Service!Refuse(t, error)
  BY DEF Answer, Returned, Service!Refuse, Service!Answer, Service!Returned
<1>2. error \in Service!InstallErrors \cup Service!SpeakErrors
  BY DEF LoadErrors, Service!InstallErrors, Service!SpeakErrors
<1> QED BY <1>1, <1>2 DEF Service!Next

LEMMA InstallImplements ==
    ASSUME NEW t \in Threads, NEW id \in VoiceIds, NEW voice \in Configs,
           NEW inputs, Register(id, voice, inputs), Answer(t, Returned("loaded"))
    PROVE  Service!Next
<1>1. Service!Install(t, id, voice)
  BY DEF Register, Answer, Returned, Service!Install, Service!Answer, Service!Returned
<1> QED BY <1>1 DEF Service!Next

LEMMA LoadVoiceImplements ==
    ASSUME NEW t \in Threads, NEW id \in VoiceIds, NEW content \in Contents,
           LoadVoice(t, id, content)
    PROVE  Service!Next
<1>1. CASE ~Describes(id, content)
  BY <1>1, LoadErrorTyped, RefusalImplements DEF LoadVoice
<1>2. CASE /\ Describes(id, content)
           /\ ~ValidateArity(engine[t].inputs, MultiSpeaker(content))
  BY <1>2, RefusalImplements DEF LoadVoice, LoadErrors
<1>3. CASE /\ Describes(id, content)
           /\ ValidateArity(engine[t].inputs, MultiSpeaker(content))
  BY <1>3, InstallImplements DEF LoadVoice, Describes
<1> QED BY <1>1, <1>2, <1>3

LEMMA LookupImplements ==
    ASSUME NEW t \in Threads, NEW id \in VoiceIds, NEW wanted, NEW use,
           Lookup(t, use, id, wanted)
    PROVE  Service!Next \/ UNCHANGED Service!vars
<1>1. CASE registry[id] = None /\ Answer(t, Returned("VoiceNotFound"))
  <2>1. Service!Unknown(t, id)
    BY <1>1 DEF Lookup, Answer, Returned, Service!Unknown, Service!Answer,
                Service!Returned
  <2> QED BY <2>1 DEF Service!Next
<1>2. CASE UNCHANGED answer
  BY <1>2 DEF Lookup, Service!vars
<1> QED BY <1>1, <1>2 DEF Lookup

LEMMA AskPhonemizerImplements ==
    ASSUME IndInv, NEW t \in Threads, AskPhonemizer(t)
    PROVE  Service!Next \/ UNCHANGED Service!vars
<1> DEFINE id == call[t].id
<1>1. id \in VoiceIds /\ registry[id] # None
  BY CallTyped, PipelineAssumption DEF AskPhonemizer, Calls
<1>2. CASE Return(t, Returned("Phonemization"))
  BY <1>2, RefusalImplements DEF AskPhonemizer, Return
<1>3. CASE Return(t, [kind |-> "sentences",
                      heard |-> [language |-> registry[id].language, map |-> None,
                                 speaker |-> None]])
  <2>1. Service!Transcribe(t, id)
    BY <1>1, <1>3 DEF AskPhonemizer, Return, Answer, Service!Transcribe,
                      Service!Transcript, Service!Answer
  <2> QED BY <1>1, <2>1 DEF Service!Next
<1>4. CASE UNCHANGED answer
  BY <1>4 DEF AskPhonemizer, Service!vars
<1> QED BY <1>2, <1>3, <1>4 DEF AskPhonemizer

\* Audio is that of the voice still registered under the id.
LEMMA InferImplements ==
    ASSUME IndInv, NEW t \in Threads, Infer(t)
    PROVE  Service!Next
<1> DEFINE id == call[t].id
<1>1. pc[t] = "infer" /\ UNCHANGED registry
  BY DEF Infer
<1>2. call[t] \in Calls /\ registry[id] = call[t].voice /\ call[t].voice \in Configs
  BY <1>1, CallTyped
<1>3. id \in VoiceIds /\ registry[id] # None /\ call[t].wanted \in Speakers \cup {None}
  BY <1>2, PipelineAssumption DEF Calls
<1>4. CASE Return(t, Returned("RuntimeFailure"))
  BY <1>1, <1>4, RefusalImplements DEF Return
<1>5. CASE Return(t, [kind |-> "audio",
                      heard |-> [language |-> call[t].language,
                                 map |-> call[t].voice.map, speaker |-> Speaker(t)]])
  <2>1. [language |-> call[t].language, map |-> call[t].voice.map,
         speaker |-> Speaker(t)] = Service!Audio(registry[id], call[t].wanted)
    BY <1>1, <1>2, AudioTyped DEF Service!Audio
  <2>2. Service!Speak(t, id, call[t].wanted)
    BY <1>1, <1>3, <1>5, <2>1 DEF Return, Answer, Service!Speak, Service!Answer
  <2> QED BY <1>3, <2>2 DEF Service!Next
<1> QED BY <1>4, <1>5 DEF Infer

LEMMA NextImplements == IndInv /\ [Next]_vars => [Service!Next]_Service!vars
<1> SUFFICES ASSUME IndInv, [Next]_vars
             PROVE  Service!Next \/ UNCHANGED Service!vars
  OBVIOUS
<1>1. CASE UNCHANGED vars
  BY <1>1 DEF vars, Service!vars
<1>2. ASSUME NEW t \in Threads, NewEngine(t)
      PROVE  Service!Next \/ UNCHANGED Service!vars
  <2>1. CASE Answer(t, Returned("RuntimeFailure"))
    BY <1>2, <2>1, RefusalImplements DEF NewEngine
  <2>2. CASE UNCHANGED answer
    BY <1>2, <2>2 DEF NewEngine, Service!vars
  <2> QED BY <1>2, <2>1, <2>2 DEF NewEngine
<1>3. ASSUME NEW t \in Threads, FromSession(t) PROVE UNCHANGED Service!vars
  BY <1>3 DEF FromSession, Service!vars
<1>4. ASSUME NEW t \in Threads, NEW id \in VoiceIds, NEW content \in Contents,
             RegisterDirectly(t, id, content)
      PROVE  Service!Next
  BY <1>4, InstallImplements DEF RegisterDirectly, Describes
<1>5. ASSUME NEW t \in Threads, NEW id \in VoiceIds, NEW wanted \in Speakers \cup {None},
             Synthesize(t, id, wanted) \/ Phonemize(t, id)
      PROVE  Service!Next \/ UNCHANGED Service!vars
  BY <1>5, LookupImplements DEF Synthesize, Phonemize
<1> QED
  BY <1>1, <1>2, <1>3, <1>4, <1>5, LoadVoiceImplements, AskPhonemizerImplements,
     InferImplements DEF Next

\* Registry, engines and phonemizer together are the collection of voices that
\* SpeechService describes.
THEOREM PipelineImplementsService == Spec => ImplementsService
<1>1. Spec => []IndInv
  BY IndInvAlways
<1> QED
  BY <1>1, InitImplements, NextImplements, PTL
     DEF Spec, ImplementsService, Service!Spec

=============================================================================
