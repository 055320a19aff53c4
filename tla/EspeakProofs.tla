---------------------------- MODULE EspeakProofs ----------------------------
(***************************************************************************)
(* Proofs about Espeak, for every set of threads, languages and texts and  *)
(* every bound: mutual exclusion on the C library, coherence of the cached *)
(* language, Ok results in the caller's own language, one initialisation,  *)
(* the finality of a poisoned lock, and the completeness of the output: no *)
(* clause lost, no sentence over the end of a line.                        *)
(***************************************************************************)
EXTENDS Espeak, SequenceTheorems, WellFoundedInduction, TLAPS

\* Every piece of the output of a call was spoken in its language.
InVoice(pieces, language) ==
    \A j \in DOMAIN pieces : pieces[j].voice = language

OwnVoice(locals) ==
    /\ InVoice(locals.current, locals.language)
    /\ \A i \in DOMAIN locals.sentences :
          InVoice(locals.sentences[i], locals.language)

LEMMA Labels ==
    /\ Speaking \cup {"init", "initialized", "voice", "switch", "switched"}
         = Critical
    /\ {"idle", "lock"} \cap Critical = {}
    /\ Speaking \cap {"init", "initialized", "voice", "switch", "switched"} = {}
BY DEF Critical, Speaking

LEMMA AppendInVoice ==
    ASSUME NEW pieces \in Seq(Piece), NEW piece \in Piece, NEW language,
           InVoice(pieces, language), piece.voice = language
    PROVE  Append(pieces, piece) \in Seq(Piece)
           /\ InVoice(Append(pieces, piece), language)
BY AppendProperties, LenProperties DEF InVoice

LEMMA EmptyInVoice ==
    /\ <<>> \in Seq(Piece) /\ <<>> \in Seq(Seq(Piece))
    /\ \A language : InVoice(<<>>, language)
    /\ DOMAIN <<>> = {}
BY EmptySeq, LenProperties DEF InVoice

\* Collecting output keeps it well typed and in the call's language.
LEMMA PushClauseKeeps ==
    ASSUME NEW locals \in Calls, OwnVoice(locals),
           engine.voice = locals.language
    PROVE  PushClause(locals) \in Calls /\ OwnVoice(PushClause(locals))
           /\ PushClause(locals).language = locals.language
<1> DEFINE piece == [voice |-> engine.voice, line |-> locals.line,
                     nth |-> locals.spoken + 1]
<1>1. piece \in Piece /\ piece.voice = locals.language
  BY DEF Calls, Piece
<1>2. /\ Append(locals.current, piece) \in Seq(Piece)
      /\ InVoice(Append(locals.current, piece), locals.language)
  BY <1>1, AppendInVoice DEF Calls, OwnVoice
<1>3. PushClause(locals) =
        [locals EXCEPT !.current = Append(locals.current, piece),
                       !.spoken = locals.spoken + 1]
  BY DEF PushClause, Calls
<1> HIDE DEF piece
<1>4. PushClause(locals) \in Calls
  <2> DEFINE heard == [locals EXCEPT !.current = Append(locals.current, piece)]
  <2>1. heard \in Calls /\ heard.spoken = locals.spoken
    BY <1>2 DEF Calls
  <2>2. locals.spoken + 1 \in Nat
    BY DEF Calls
  <2>3. PushClause(locals) = [heard EXCEPT !.spoken = locals.spoken + 1]
    BY <1>3 DEF Calls
  <2> HIDE DEF heard
  <2> QED BY <2>1, <2>2, <2>3 DEF Calls
<1>5. /\ PushClause(locals).language = locals.language
      /\ PushClause(locals).sentences = locals.sentences
      /\ PushClause(locals).current = Append(locals.current, piece)
  BY <1>3 DEF Calls
<1> QED BY <1>2, <1>4, <1>5 DEF OwnVoice

LEMMA PushSentenceKeeps ==
    ASSUME NEW locals \in Calls, OwnVoice(locals)
    PROVE  PushSentence(locals) \in Calls /\ OwnVoice(PushSentence(locals))
           /\ PushSentence(locals).language = locals.language
<1>1. CASE locals.current = <<>>
  BY <1>1 DEF PushSentence
<1>2. CASE locals.current # <<>>
  <2> DEFINE pushed == Append(locals.sentences, locals.current)
  <2>1. /\ pushed \in Seq(Seq(Piece))
        /\ \A i \in DOMAIN pushed : InVoice(pushed[i], locals.language)
    BY AppendProperties, LenProperties DEF Calls, OwnVoice
  <2>2. PushSentence(locals) =
          [locals EXCEPT !.sentences = pushed, !.current = <<>>]
    BY <1>2 DEF PushSentence, Calls
  <2> HIDE DEF pushed
  <2>3. PushSentence(locals) \in Calls
    BY <2>1, <2>2, EmptyInVoice DEF Calls
  <2>4. /\ PushSentence(locals).language = locals.language
        /\ PushSentence(locals).sentences = pushed
        /\ PushSentence(locals).current = <<>>
    BY <2>2 DEF Calls
  <2> QED BY <2>1, <2>3, <2>4, EmptyInVoice DEF OwnVoice
<1> QED BY <1>1, <1>2

\* A call starts with well-typed, empty locals.
LEMMA FreshKeeps ==
    ASSUME NEW language \in Languages \cup {None},
           NEW separator \in {"none", "narrow", "wide"},
           NEW text \in Seq({"plain", "nul"})
    PROVE  /\ Fresh(language, separator, text) \in Calls
           /\ OwnVoice(Fresh(language, separator, text))
<1>1. 0 \in 0..(Timeout + 1)
  BY EspeakAssumption
<1> QED BY <1>1, EmptyInVoice DEF Fresh, Calls, OwnVoice

\* What Leave makes of the locals.
LEMMA LeaveKeeps ==
    ASSUME NEW before \in Calls, NEW sentences \in Seq(Seq(Piece)),
           \A i \in DOMAIN sentences : InVoice(sentences[i], before.language)
    PROVE  LET locals == [before EXCEPT !.sentences = sentences,
                                        !.current = <<>>, !.elapsed = 0]
           IN  /\ locals \in Calls /\ OwnVoice(locals)
               /\ locals.language = before.language
<1> DEFINE first == [before EXCEPT !.sentences = sentences]
           second == [first EXCEPT !.current = <<>>]
           locals == [second EXCEPT !.elapsed = 0]
<1>1. /\ first \in Calls /\ first.language = before.language
      /\ first.sentences = sentences
  BY DEF Calls
<1> HIDE DEF first
<1>2. /\ second \in Calls /\ second.language = before.language
      /\ second.sentences = sentences /\ second.current = <<>>
  BY <1>1, EmptyInVoice DEF Calls
<1> HIDE DEF second
<1>3. /\ locals \in Calls /\ locals.language = before.language
      /\ locals.sentences = sentences /\ locals.current = <<>>
  <2>1. 0 \in 0..(Timeout + 1)
    BY EspeakAssumption
  <2> QED BY <1>2, <2>1 DEF Calls
<1> HIDE DEF locals
<1>4. OwnVoice(locals)
  BY <1>3, EmptyInVoice DEF OwnVoice
<1> QED BY <1>3, <1>4 DEF first, second, locals

-----------------------------------------------------------------------------
(* The inductive invariant.                                                *)

StateType == [initialized : BOOLEAN, current_language : Languages \cup {None}]
EngineType == [inits : Nat, voice : Languages \cup {None}]

\* What IndInv says of the thread in the critical section, and of the others.
LEMMA InsideFacts ==
    ASSUME IndInv, NEW t \in Threads, pc[t] \in Critical
    PROVE  /\ holder = t /\ ~poisoned
           /\ \A u \in Threads \ {t} : pc[u] \in {"idle", "lock"}
           /\ pc[t] # "switched" => state.current_language = engine.voice
           /\ engine.inits = 1 <=> state.initialized \/ pc[t] = "initialized"
           /\ pc[t] \in {"init", "initialized"} => ~state.initialized
           /\ pc[t] = "switch" => state.current_language # call[t].language
           /\ pc[t] \in {"switched"} \cup Speaking =>
                 engine.voice = call[t].language
           /\ call[t] \in Calls /\ OwnVoice(call[t])
<1> USE DEF IndInv, TypeOK
<1>1. holder = t /\ t # None /\ ~poisoned
  BY EspeakAssumption DEF MutualExclusion
<1>2. \A u \in Threads \ {t} : pc[u] \in {"idle", "lock"}
  BY <1>1 DEF MutualExclusion
<1>3. pc[t] # "switched" => state.current_language = engine.voice
  BY <1>1, <1>2 DEF VoiceCacheCoherent
<1>4. engine.inits = 1 <=> state.initialized \/ pc[t] = "initialized"
  BY <1>1, <1>2
<1>5. OwnVoice(call[t])
  BY DEF OwnVoice, InVoice
<1> QED BY <1>1, <1>2, <1>3, <1>4, <1>5

\* A step that stays inside the critical section.
LEMMA MoveIndInv ==
    ASSUME IndInv, NEW t \in Threads, pc[t] \in Critical,
           NEW label \in Critical, NEW locals \in Calls,
           pc' = [pc EXCEPT ![t] = label],
           call' = [call EXCEPT ![t] = locals],
           OwnVoice(locals), locals.language = call[t].language,
           UNCHANGED <<holder, poisoned, result>>,
           state' \in StateType, engine' \in EngineType, engine'.inits <= 1,
           engine'.inits = 1 <=> state'.initialized \/ label = "initialized",
           label \in {"init", "initialized"} => ~state'.initialized,
           label = "switch" => state'.current_language # call[t].language,
           label \in {"switched"} \cup Speaking =>
               engine'.voice = call[t].language,
           label # "switched" => state'.current_language = engine'.voice
    PROVE  IndInv'
<1>1. /\ holder = t /\ ~poisoned
      /\ \A u \in Threads \ {t} : pc[u] \in {"idle", "lock"}
  BY InsideFacts
<1>2. /\ pc'[t] = label /\ call'[t] = locals
      /\ \A u \in Threads \ {t} : pc'[u] = pc[u] /\ call'[u] = call[u]
  BY DEF IndInv, TypeOK
<1>3. TypeOK'
  BY DEF IndInv, TypeOK, StateType, EngineType
<1>4. MutualExclusion'
  BY <1>1, <1>2, Labels DEF MutualExclusion
<1>5. VoiceCacheCoherent'
  BY <1>2 DEF VoiceCacheCoherent
<1>6. (engine.inits = 1 <=>
         state.initialized \/ \E u \in Threads : pc[u] = "initialized")'
  BY <1>1, <1>2
<1>7. \A u \in Threads : OwnVoice(call'[u])
  BY <1>2 DEF IndInv, OwnVoice, InVoice
<1>8. \A u \in Threads :
        /\ pc'[u] \in {"init", "initialized"} => ~state'.initialized
        /\ pc'[u] = "switch" => state'.current_language # call'[u].language
        /\ pc'[u] \in {"switched"} \cup Speaking =>
              engine'.voice = call'[u].language
  BY <1>1, <1>2, Labels
<1> QED BY <1>1, <1>3, <1>4, <1>5, <1>6, <1>7, <1>8
        DEF IndInv, OwnVoice, InVoice

\* The guard is dropped, by a return or by a panic.
LEMMA LeaveIndInv ==
    ASSUME IndInv, NEW t \in Threads, pc[t] \in Critical \cup {"lock"},
           pc[t] = "lock" => holder = None,
           NEW outcome \in Outcomes, NEW sentences \in Seq(Seq(Piece)),
           \A i \in DOMAIN sentences :
               InVoice(sentences[i], call[t].language),
           Leave(t, outcome, sentences),
           UNCHANGED <<state, engine>>,
           poisoned' \in BOOLEAN, poisoned => poisoned',
           poisoned' \/ pc[t] \notin {"initialized", "switched"}
    PROVE  IndInv'
<1> DEFINE locals == [call[t] EXCEPT !.sentences = sentences,
                                     !.current = <<>>, !.elapsed = 0]
<1>1. holder \in {t, None}
  BY InsideFacts
<1>2. \A u \in Threads \ {t} : pc[u] \in {"idle", "lock"}
  BY <1>1, EspeakAssumption, Labels DEF IndInv, TypeOK, MutualExclusion
<1>3. /\ locals \in Calls /\ OwnVoice(locals)
      /\ locals.language = call[t].language
  <2>1. call[t] \in Calls
    BY DEF IndInv, TypeOK
  <2> QED BY <2>1, LeaveKeeps
<1>4. /\ holder' = None
      /\ pc' = [pc EXCEPT ![t] = "idle"]
      /\ result' = [result EXCEPT ![t] = outcome]
      /\ call' = [call EXCEPT ![t] = locals]
  BY DEF Leave, Goto
<1> HIDE DEF locals
<1>5. /\ pc'[t] = "idle" /\ call'[t] = locals
      /\ \A u \in Threads \ {t} : pc'[u] = pc[u] /\ call'[u] = call[u]
  BY <1>4 DEF IndInv, TypeOK
<1>6. TypeOK'
  BY <1>3, <1>4 DEF IndInv, TypeOK
<1>7. \A u \in Threads : pc'[u] \in {"idle", "lock"}
  BY <1>2, <1>5
<1>8. MutualExclusion'
  BY <1>4, <1>7, EspeakAssumption, Labels DEF MutualExclusion
<1>9. VoiceCacheCoherent'
  BY <1>2 DEF IndInv, VoiceCacheCoherent
<1>10. \/ poisoned'
       \/ engine'.inits = 1 <=>
             state'.initialized \/ \E u \in Threads : pc'[u] = "initialized"
  BY <1>2, <1>7 DEF IndInv
<1>11. \A u \in Threads : OwnVoice(call'[u])
  BY <1>3, <1>5 DEF IndInv, OwnVoice, InVoice
<1> QED BY <1>4, <1>6, <1>7, <1>8, <1>9, <1>10, <1>11, Labels
        DEF IndInv, OwnVoice, InVoice, Critical, Speaking

\* No session is in use at the start.
LEMMA InitIndInv == Init => IndInv
<1> SUFFICES ASSUME Init PROVE IndInv
  OBVIOUS
<1>1. Fresh(None, "none", <<>>) \in Calls
  BY FreshKeeps, EmptySeq
<1>2. TypeOK
  BY <1>1, EspeakAssumption DEF Init, TypeOK, Outcomes
<1>3. \A t \in Threads : OwnVoice(call[t])
  BY EmptyInVoice DEF Init, Fresh, OwnVoice
<1> QED BY <1>2, <1>3, EspeakAssumption, Labels
        DEF Init, IndInv, MutualExclusion, VoiceCacheCoherent, OwnVoice, InVoice,
            Critical, Speaking

\* An error return hands nothing out.
LEMMA FailIndInv ==
    ASSUME IndInv, NEW t \in Threads, pc[t] \in Critical \cup {"lock"},
           pc[t] = "lock" => holder = None,
           NEW outcome \in Outcomes, Fail(t, outcome),
           UNCHANGED <<state, engine>>,
           poisoned' \in BOOLEAN, poisoned => poisoned',
           poisoned' \/ pc[t] \notin {"initialized", "switched"}
    PROVE  IndInv'
BY LeaveIndInv, EmptyInVoice DEF Fail

\* A step that only moves on, with the session as it is.
LEMMA GotoIndInv ==
    ASSUME IndInv, NEW t \in Threads, pc[t] \in Critical,
           pc[t] \notin {"initialized", "switched"},
           NEW label \in Critical, Goto(t, label),
           NEW locals \in Calls, OwnVoice(locals),
           locals.language = call[t].language,
           call' = [call EXCEPT ![t] = locals],
           UNCHANGED <<holder, poisoned, result, state, engine>>,
           label \in {"init", "initialized", "switched"} => pc[t] = label,
           label = "switch" => state.current_language # call[t].language,
           label \in Speaking => engine.voice = call[t].language
    PROVE  IndInv'
<1>1. state \in StateType /\ engine \in EngineType /\ engine.inits <= 1
  BY DEF IndInv, TypeOK, StateType, EngineType
<1>2. pc' = [pc EXCEPT ![t] = label]
  BY DEF Goto
<1>3. /\ engine.inits = 1 <=> state.initialized
      /\ state.current_language = engine.voice
      /\ label \notin {"initialized", "switched"}
      /\ label = "init" => ~state.initialized
  BY InsideFacts
<1> QED BY <1>1, <1>2, <1>3, MoveIndInv

\* The same with the locals as they are.
LEMMA StayIndInv ==
    ASSUME IndInv, NEW t \in Threads, pc[t] \in Critical,
           pc[t] \notin {"initialized", "switched"},
           NEW label \in Critical, Goto(t, label),
           UNCHANGED <<call, holder, poisoned, result, state, engine>>,
           label \in {"init", "initialized", "switched"} => pc[t] = label,
           label = "switch" => state.current_language # call[t].language,
           label \in Speaking => engine.voice = call[t].language
    PROVE  IndInv'
<1>1. call[t] \in Calls /\ OwnVoice(call[t])
  BY InsideFacts
<1>2. call' = [call EXCEPT ![t] = call[t]]
  BY DEF IndInv, TypeOK
<1> QED BY <1>1, <1>2, GotoIndInv

LEMMA CallIndInv ==
    ASSUME IndInv, NEW t \in Threads, NewCall(t)
    PROVE  IndInv'
<1>1. PICK language \in Languages, separator \in Separators, text \in Texts :
        Call(t, language, separator, text)
  BY DEF NewCall
<1> DEFINE locals == Fresh(language, separator, text)
<1>2. locals \in Calls /\ OwnVoice(locals)
  BY EspeakAssumption, FreshKeeps
<1>3. /\ pc[t] = "idle" /\ pc' = [pc EXCEPT ![t] = "lock"]
      /\ result' = [result EXCEPT ![t] = "none"]
      /\ UNCHANGED <<holder, poisoned, state, engine>>
      /\ call' = [call EXCEPT ![t] = locals]
  BY <1>1 DEF Call, Goto
<1> HIDE DEF locals
<1>4. TypeOK'
  BY <1>2, <1>3 DEF IndInv, TypeOK, Outcomes
<1>5. /\ pc'[t] = "lock" /\ call'[t] = locals
      /\ \A u \in Threads \ {t} : pc'[u] = pc[u] /\ call'[u] = call[u]
  BY <1>3 DEF IndInv, TypeOK
<1>6. MutualExclusion'
  BY <1>3, <1>5, Labels DEF IndInv, MutualExclusion
<1>7. VoiceCacheCoherent'
  BY <1>3, <1>5 DEF IndInv, VoiceCacheCoherent
<1>8. (\E u \in Threads : pc'[u] = "initialized")
        <=> (\E u \in Threads : pc[u] = "initialized")
  BY <1>3, <1>5
<1>9. \A u \in Threads : OwnVoice(call'[u])
  BY <1>2, <1>5 DEF IndInv, OwnVoice, InVoice
<1>10. \A u \in Threads :
        /\ pc'[u] \in {"init", "initialized"} => ~state'.initialized
        /\ pc'[u] = "switch" => state'.current_language # call'[u].language
        /\ pc'[u] \in {"switched"} \cup Speaking =>
              engine'.voice = call'[u].language
  BY <1>3, <1>5 DEF IndInv, Speaking
<1> QED BY <1>3, <1>4, <1>6, <1>7, <1>8, <1>9, <1>10
        DEF IndInv, OwnVoice, InVoice

LEMMA AcquireIndInv ==
    ASSUME IndInv, NEW t \in Threads, Acquire(t)
    PROVE  IndInv'
<1>1. CASE LockIsPoisoned
  BY <1>1, FailIndInv
     DEF Acquire, LockFree, LockIsPoisoned, Outcomes, IndInv, TypeOK
<1>2. CASE ~LockIsPoisoned
  <2> DEFINE label == IF state.initialized THEN "voice" ELSE "init"
  <2>1. /\ pc[t] = "lock" /\ holder = None /\ ~poisoned /\ holder' = t
        /\ pc' = [pc EXCEPT ![t] = label]
        /\ UNCHANGED <<call, result, poisoned, state, engine>>
    BY <1>2 DEF Acquire, LockFree, LockIsPoisoned, Goto
  <2>2. label \in {"voice", "init"} /\ (label = "init" => ~state.initialized)
    OBVIOUS
  <2> HIDE DEF label
  <2>3. /\ pc'[t] = label
        /\ \A u \in Threads \ {t} : pc'[u] = pc[u] /\ pc[u] \notin Critical
    BY <2>1, EspeakAssumption DEF IndInv, TypeOK, MutualExclusion
  <2>4. TypeOK'
    BY <2>1, <2>2 DEF IndInv, TypeOK, Critical
  <2>5. MutualExclusion'
    BY <2>1, <2>2, <2>3, Labels DEF MutualExclusion
  <2>6. VoiceCacheCoherent'
    BY <2>1, <2>3, Labels DEF IndInv, VoiceCacheCoherent
  <2>7. (\E u \in Threads : pc'[u] = "initialized")
          <=> (\E u \in Threads : pc[u] = "initialized")
    BY <2>1, <2>2, <2>3
  <2>8. \A u \in Threads :
          /\ pc'[u] \in {"init", "initialized"} => ~state'.initialized
          /\ pc'[u] = "switch" => state'.current_language # call'[u].language
          /\ pc'[u] \in {"switched"} \cup Speaking =>
                engine'.voice = call'[u].language
    BY <2>1, <2>2, <2>3 DEF IndInv, Speaking
  <2> QED BY <2>1, <2>4, <2>5, <2>6, <2>7, <2>8 DEF IndInv
<1> QED BY <1>1, <1>2

LEMMA InitEspeakIndInv ==
    ASSUME IndInv, NEW t \in Threads, InitEspeak(t)
    PROVE  IndInv'
<1>1. pc[t] = "init" /\ pc[t] \in Critical /\ UNCHANGED <<poisoned, state>>
  BY DEF InitEspeak, Critical
<1>2. CASE engine' = [engine EXCEPT !.inits = @ + 1]
           /\ Goto(t, "initialized") /\ UNCHANGED <<holder, call, result>>
  <2>1. /\ ~state.initialized /\ engine.inits # 1
        /\ state.current_language = engine.voice
        /\ call[t] \in Calls /\ OwnVoice(call[t])
    BY <1>1, InsideFacts
  <2>2. engine \in EngineType /\ engine.inits <= 1 /\ state \in StateType
    BY DEF IndInv, TypeOK, EngineType, StateType
  <2>3. engine.inits = 0
    BY <2>1, <2>2 DEF EngineType
  <2>4. engine' \in EngineType /\ engine'.inits = 1 /\ engine'.voice = engine.voice
    BY <1>2, <2>2, <2>3 DEF EngineType
  <2>5. /\ pc' = [pc EXCEPT ![t] = "initialized"] /\ call' = [call EXCEPT ![t] = call[t]]
        /\ "initialized" \in Critical /\ "initialized" \notin Speaking
    BY <1>2, Labels DEF Goto, IndInv, TypeOK, Critical, Speaking
  <2>6. /\ engine'.inits <= 1 /\ ~state'.initialized
        /\ state'.current_language = engine'.voice
        /\ state' \in StateType
        /\ engine'.inits = 1 <=> state'.initialized \/ "initialized" = "initialized"
        /\ UNCHANGED <<holder, poisoned, result>>
    BY <1>1, <1>2, <2>1, <2>2, <2>4
  <2> QED BY <1>1, <2>1, <2>4, <2>5, <2>6, MoveIndInv
<1>3. CASE Fail(t, "failure") /\ UNCHANGED engine
  BY <1>1, <1>3, FailIndInv DEF Outcomes, IndInv, TypeOK
<1> QED BY <1>2, <1>3 DEF InitEspeak

LEMMA RecordInitializedIndInv ==
    ASSUME IndInv, NEW t \in Threads, RecordInitialized(t)
    PROVE  IndInv'
<1>1. /\ pc[t] = "initialized" /\ pc[t] \in Critical
      /\ state' = [state EXCEPT !.initialized = TRUE]
      /\ UNCHANGED <<holder, poisoned, engine, call, result>>
  BY DEF RecordInitialized, Critical
<1>2. /\ engine.inits = 1 /\ state.current_language = engine.voice
      /\ call[t] \in Calls /\ OwnVoice(call[t])
  BY <1>1, InsideFacts
<1>3. engine \in EngineType /\ state \in StateType
  BY DEF IndInv, TypeOK, EngineType, StateType
<1>4. /\ state' \in StateType /\ state'.initialized
      /\ state'.current_language = state.current_language
  BY <1>1, <1>3 DEF StateType
<1>5. /\ pc' = [pc EXCEPT ![t] = "voice"] /\ call' = [call EXCEPT ![t] = call[t]]
      /\ "voice" \in Critical /\ "voice" \notin Speaking
  BY <1>1 DEF RecordInitialized, Goto, IndInv, TypeOK, Critical, Speaking
<1>6. /\ engine'.inits <= 1 /\ engine' \in EngineType
      /\ engine'.inits = 1 <=> state'.initialized \/ "voice" = "initialized"
      /\ state'.current_language = engine'.voice
      /\ UNCHANGED <<holder, poisoned, result>>
  BY <1>1, <1>2, <1>3, <1>4
<1> QED BY <1>1, <1>2, <1>4, <1>5, <1>6, MoveIndInv

LEMMA EnsureVoiceIndInv ==
    ASSUME IndInv, NEW t \in Threads, EnsureVoice(t)
    PROVE  IndInv'
<1>1. /\ pc[t] = "voice" /\ pc[t] \in Critical
      /\ UNCHANGED <<poisoned, state, engine>>
      /\ poisoned \in BOOLEAN
      /\ {"mode", "switch"} \subseteq Critical
      /\ "switch" \notin Speaking
      /\ state.current_language = engine.voice
  BY InsideFacts DEF EnsureVoice, Critical, Speaking, IndInv, TypeOK
<1>2. CASE VoiceIsCached(t) /\ Goto(t, "mode") /\ UNCHANGED <<holder, call, result>>
  BY <1>1, <1>2, StayIndInv DEF VoiceIsCached
<1>3. CASE Fail(t, "failure")
  BY <1>1, <1>3, FailIndInv DEF Outcomes
<1>4. CASE ~VoiceIsCached(t) /\ Goto(t, "switch")
           /\ UNCHANGED <<holder, call, result>>
  BY <1>1, <1>4, StayIndInv DEF VoiceIsCached
<1> QED BY <1>2, <1>3, <1>4 DEF EnsureVoice

LEMMA SetVoiceByNameIndInv ==
    ASSUME IndInv, NEW t \in Threads, SetVoiceByName(t)
    PROVE  IndInv'
<1>1. /\ pc[t] = "switch" /\ pc[t] \in Critical /\ poisoned \in BOOLEAN
      /\ UNCHANGED <<poisoned, state>>
  BY DEF SetVoiceByName, Critical, IndInv, TypeOK
<1>2. CASE call[t].language \in Installed
           /\ engine' = [engine EXCEPT !.voice = call[t].language]
           /\ Goto(t, "switched") /\ UNCHANGED <<holder, call, result>>
  <2>1. /\ engine.inits = 1 <=> state.initialized
        /\ call[t] \in Calls /\ OwnVoice(call[t])
    BY <1>1, InsideFacts
  <2>2. engine \in EngineType /\ engine.inits <= 1 /\ state \in StateType
    BY DEF IndInv, TypeOK, EngineType, StateType
  <2>3. /\ engine' \in EngineType /\ engine'.inits = engine.inits
        /\ engine'.voice = call[t].language
    BY <1>2, <2>2, EspeakAssumption DEF EngineType
  <2>4. /\ pc' = [pc EXCEPT ![t] = "switched"] /\ call' = [call EXCEPT ![t] = call[t]]
        /\ "switched" \in Critical
    BY <1>2 DEF Goto, IndInv, TypeOK, Critical
  <2> QED BY <1>1, <1>2, <2>1, <2>2, <2>3, <2>4, MoveIndInv
<1>3. CASE Fail(t, "failure") /\ UNCHANGED engine
  BY <1>1, <1>3, FailIndInv DEF Outcomes
<1> QED BY <1>2, <1>3 DEF SetVoiceByName

LEMMA RecordVoiceIndInv ==
    ASSUME IndInv, NEW t \in Threads, RecordVoice(t)
    PROVE  IndInv'
<1>1. /\ pc[t] = "switched" /\ pc[t] \in Critical
      /\ state' = [state EXCEPT !.current_language = call[t].language]
      /\ UNCHANGED <<holder, poisoned, engine, call, result>>
  BY DEF RecordVoice, Critical
<1>2. /\ engine.inits = 1 <=> state.initialized
      /\ engine.voice = call[t].language
      /\ call[t] \in Calls /\ OwnVoice(call[t])
  BY <1>1, InsideFacts
<1>3. engine \in EngineType /\ engine.inits <= 1 /\ state \in StateType
  BY DEF IndInv, TypeOK, EngineType, StateType
<1>4. /\ state' \in StateType /\ state'.initialized = state.initialized
      /\ state'.current_language = call[t].language
  BY <1>1, <1>2, <1>3 DEF StateType, EngineType
<1>5. /\ pc' = [pc EXCEPT ![t] = "mode"] /\ call' = [call EXCEPT ![t] = call[t]]
      /\ "mode" \in Critical
  BY <1>1 DEF RecordVoice, Goto, IndInv, TypeOK, Critical
<1> QED BY <1>1, <1>2, <1>3, <1>4, <1>5, MoveIndInv

LEMMA ChooseModeIndInv ==
    ASSUME IndInv, NEW t \in Threads, ChooseMode(t)
    PROVE  IndInv'
<1>1. /\ pc[t] = "mode" /\ pc[t] \in Critical /\ poisoned \in BOOLEAN
      /\ "line" \in Critical /\ pc[t] \in Speaking
      /\ UNCHANGED <<poisoned, state, engine>>
  BY DEF ChooseMode, Critical, Speaking, IndInv, TypeOK
<1>2. CASE Fail(t, "failure")
  BY <1>1, <1>2, FailIndInv DEF Outcomes
<1>3. CASE Goto(t, "line") /\ UNCHANGED <<holder, call, result>>
  BY <1>1, <1>3, InsideFacts, StayIndInv
<1> QED BY <1>2, <1>3 DEF ChooseMode

LEMMA NextLineIndInv ==
    ASSUME IndInv, NEW t \in Threads, NextLine(t)
    PROVE  IndInv'
<1>1. /\ pc[t] = "line" /\ pc[t] \in Critical /\ poisoned \in BOOLEAN
      /\ "clause" \in Critical /\ pc[t] \in Speaking
      /\ UNCHANGED <<poisoned, state, engine>>
  BY DEF NextLine, Critical, Speaking, IndInv, TypeOK
<1>2. CASE Leave(t, "ok", call[t].sentences)
  <2>1. PICK sentences \in Seq(Seq(Piece)) : sentences = call[t].sentences
    BY DEF IndInv, TypeOK, Calls
  <2>2. \A i \in DOMAIN sentences : InVoice(sentences[i], call[t].language)
    BY <1>1, <2>1, InsideFacts DEF OwnVoice
  <2>3. Leave(t, "ok", sentences)
    BY <1>2, <2>1 DEF Leave
  <2> QED BY <1>1, <2>2, <2>3, LeaveIndInv DEF Outcomes
<1>3. CASE Fail(t, "failure")
  BY <1>1, <1>3, FailIndInv DEF Outcomes
<1>4. CASE Goto(t, "clause") /\ UNCHANGED <<holder, call, result>>
  BY <1>1, <1>4, InsideFacts, StayIndInv
<1> QED BY <1>2, <1>3, <1>4 DEF NextLine

LEMMA BeginClauseIndInv ==
    ASSUME IndInv, NEW t \in Threads, BeginClause(t)
    PROVE  IndInv'
<1>1. /\ pc[t] = "clause" /\ pc[t] \in Critical /\ poisoned \in BOOLEAN
      /\ "ffi" \in Critical /\ pc[t] \in Speaking
      /\ UNCHANGED <<poisoned, state, engine>>
  BY DEF BeginClause, Critical, Speaking, IndInv, TypeOK
<1>2. CASE Fail(t, "timeout")
  BY <1>1, <1>2, FailIndInv DEF Outcomes
<1>3. CASE Goto(t, "ffi") /\ UNCHANGED <<holder, call, result>>
  BY <1>1, <1>3, InsideFacts, StayIndInv
<1> QED BY <1>2, <1>3 DEF BeginClause

LEMMA EndLineIndInv ==
    ASSUME IndInv, NEW t \in Threads, EndLine(t)
    PROVE  IndInv'
<1> DEFINE flushed == PushSentence(call[t])
           locals == [flushed EXCEPT !.line = call[t].line + 1]
<1>1. /\ pc[t] = "flush" /\ pc[t] \in Critical
      /\ "line" \in Critical /\ pc[t] \in Speaking
      /\ Goto(t, "line")
      /\ UNCHANGED <<holder, poisoned, state, engine, result>>
  BY DEF EndLine, Critical, Speaking
<1>2. /\ flushed \in Calls /\ OwnVoice(flushed)
      /\ flushed.language = call[t].language /\ flushed.line = call[t].line
      /\ call[t].line + 1 \in Nat
  <2>1. call[t] \in Calls /\ OwnVoice(call[t])
    BY <1>1, InsideFacts
  <2>2. PushSentence(call[t]).line = call[t].line /\ call[t].line + 1 \in Nat
    BY <2>1 DEF PushSentence, Calls
  <2> QED BY <2>1, <2>2, PushSentenceKeeps
<1>3. call' = [call EXCEPT ![t] = locals]
  BY DEF EndLine, Flush
<1> HIDE DEF flushed
<1>4. /\ locals \in Calls /\ locals.language = flushed.language
      /\ locals.current = flushed.current
      /\ locals.sentences = flushed.sentences
  BY <1>2 DEF Calls
<1> HIDE DEF locals
<1>5. OwnVoice(locals)
  BY <1>2, <1>4 DEF OwnVoice
<1> QED BY <1>1, <1>2, <1>3, <1>4, <1>5, InsideFacts, GotoIndInv

LEMMA ReturnClauseIndInv ==
    ASSUME IndInv, NEW t \in Threads, NEW cursor \in {"stuck", "moved", "end"},
           NEW empty \in BOOLEAN, NEW sentenceEnd \in BOOLEAN,
           ReturnClause(t, empty, sentenceEnd, cursor)
    PROVE  IndInv'
<1> DEFINE heard == IF empty THEN call[t] ELSE PushClause(call[t])
           kept == IF sentenceEnd THEN PushSentence(heard) ELSE heard
<1>1. /\ pc[t] = "ffi" /\ pc[t] \in Critical /\ poisoned \in BOOLEAN
      /\ AfterClause(cursor) \in {"flush", "clause"}
      /\ {"flush", "clause"} \subseteq Critical /\ pc[t] \in Speaking
      /\ UNCHANGED <<poisoned, state, engine>>
  BY DEF ReturnClause, AfterClause, Critical, Speaking, IndInv, TypeOK
<1>2. /\ call[t] \in Calls /\ OwnVoice(call[t])
      /\ engine.voice = call[t].language
  BY <1>1, InsideFacts
<1>3. heard \in Calls /\ OwnVoice(heard) /\ heard.language = call[t].language
  BY <1>2, PushClauseKeeps
<1>4. kept \in Calls /\ OwnVoice(kept) /\ kept.language = call[t].language
  <2> HIDE DEF heard
  <2> QED BY <1>3, PushSentenceKeeps
<1>5. CASE Fail(t, "failure")
  BY <1>1, <1>5, FailIndInv DEF Outcomes
<1>6. CASE /\ Goto(t, AfterClause(cursor)) /\ call' = [call EXCEPT ![t] = kept]
           /\ UNCHANGED <<holder, result>>
  <2> HIDE DEF kept
  <2> QED BY <1>1, <1>2, <1>4, <1>6, GotoIndInv
<1> QED BY <1>5, <1>6 DEF ReturnClause

LEMMA FfiReturnIndInv ==
    ASSUME IndInv, NEW t \in Threads, FfiReturn(t)
    PROVE  IndInv'
<1>1. CASE ReturnLate(t)
  BY <1>1, FailIndInv DEF ReturnLate, Critical, Outcomes, IndInv, TypeOK
<1>2. ASSUME NEW cursor \in {"stuck", "moved", "end"}, ReturnNull(t, cursor)
      PROVE  IndInv'
  <2>1. /\ pc[t] = "ffi" /\ pc[t] \in Critical /\ poisoned \in BOOLEAN
        /\ AfterClause(cursor) \in {"flush", "clause"}
        /\ {"flush", "clause"} \subseteq Critical /\ pc[t] \in Speaking
        /\ UNCHANGED <<poisoned, state, engine>>
    BY <1>2 DEF ReturnNull, AfterClause, Critical, Speaking, IndInv, TypeOK
  <2>2. CASE Fail(t, "failure")
    BY <2>1, <2>2, FailIndInv DEF Outcomes
  <2>3. CASE Goto(t, AfterClause(cursor)) /\ UNCHANGED <<holder, call, result>>
    BY <2>1, <2>3, InsideFacts, StayIndInv
  <2> QED BY <1>2, <2>2, <2>3 DEF ReturnNull
<1> QED BY <1>1, <1>2, ReturnClauseIndInv DEF FfiReturn

LEMMA TickIndInv ==
    ASSUME IndInv, NEW t \in Threads, Tick(t)
    PROVE  IndInv'
<1> DEFINE locals == [call[t] EXCEPT !.elapsed = call[t].elapsed + 1]
<1>1. /\ pc[t] \in Critical /\ pc[t] \in Speaking
      /\ pc[t] \notin {"initialized", "switched", "init", "switch"}
      /\ UNCHANGED <<holder, poisoned, state, engine, pc, result>>
  BY DEF Tick, Critical, Speaking
<1>2. /\ call[t] \in Calls /\ OwnVoice(call[t])
      /\ call[t].elapsed + 1 \in 0..(Timeout + 1)
  <2>1. call[t] \in Calls /\ OwnVoice(call[t])
    BY <1>1, InsideFacts
  <2> QED BY <2>1, EspeakAssumption DEF Tick, Calls
<1>3. /\ locals \in Calls /\ locals.language = call[t].language
      /\ locals.current = call[t].current
      /\ locals.sentences = call[t].sentences
  BY <1>2 DEF Calls
<1>4. call' = [call EXCEPT ![t] = locals] /\ Goto(t, pc[t])
  BY <1>1 DEF Tick, Goto, IndInv, TypeOK
<1> HIDE DEF locals
<1>5. OwnVoice(locals)
  BY <1>2, <1>3 DEF OwnVoice
<1>6. PICK label \in Critical : label = pc[t]
  BY <1>1
<1>7. Goto(t, label)
  BY <1>4, <1>6 DEF Goto
<1> QED BY <1>1, <1>3, <1>4, <1>5, <1>6, <1>7, InsideFacts, GotoIndInv

LEMMA PanicIndInv ==
    ASSUME IndInv, NEW t \in Threads, Panic(t)
    PROVE  IndInv'
BY FailIndInv, Labels DEF Panic, Outcomes

LEMMA StepIndInv == IndInv /\ [Next]_vars => IndInv'
<1> SUFFICES ASSUME IndInv, [Next]_vars PROVE IndInv'
  OBVIOUS
<1>1. ASSUME NEW t \in Threads, HolderStep(t) PROVE IndInv'
  BY <1>1, InitEspeakIndInv, RecordInitializedIndInv, EnsureVoiceIndInv,
     SetVoiceByNameIndInv, RecordVoiceIndInv, ChooseModeIndInv, NextLineIndInv,
     BeginClauseIndInv, EndLineIndInv DEF HolderStep
<1>2. ASSUME NEW t \in Threads, ThreadStep(t) PROVE IndInv'
  BY <1>1, <1>2, AcquireIndInv, FfiReturnIndInv, TickIndInv, PanicIndInv
     DEF ThreadStep
<1>3. CASE UNCHANGED vars
  BY <1>3 DEF vars, IndInv, TypeOK, MutualExclusion, VoiceCacheCoherent
<1> QED BY <1>2, <1>3, CallIndInv DEF Next

\* The inductive invariant holds in every state of every behaviour.
THEOREM IndInvAlways == Spec => []IndInv
BY InitIndInv, StepIndInv, PTL DEF Spec

-----------------------------------------------------------------------------
(* What follows from it.                                                   *)

\* Type correctness.
THEOREM TypeCorrect == Spec => []TypeOK
BY IndInvAlways, PTL DEF IndInv

\* espeak-ng's global state is used by one thread at a time.
THEOREM OneThreadInEspeak == Spec => []MutualExclusion
BY IndInvAlways, PTL DEF IndInv

\* The language cached under ESPEAK_LOCK is the one the C library speaks.
THEOREM CacheCoherent == Spec => []VoiceCacheCoherent
BY IndInvAlways, PTL DEF IndInv

\* espeak_Initialize succeeds at most once in a process.
THEOREM InitializesOnce == Spec => []InitializedOnce
BY IndInvAlways, PTL DEF IndInv, InitializedOnce

\* No call of espeak_SetVoiceByName is redundant, so none leaks needlessly.
THEOREM SwitchesAreGenuine == Spec => []NoRedundantSwitch
<1>1. IndInv => NoRedundantSwitch
  BY InsideFacts DEF NoRedundantSwitch, Critical
<1> QED BY <1>1, IndInvAlways, PTL

\* Whatever text_to_phonemes returns was spoken in the language asked for.
THEOREM OwnLanguage == Spec => []OkInOwnVoice
<1>1. IndInv => OkInOwnVoice
  BY DEF IndInv, OkInOwnVoice
<1> QED BY <1>1, IndInvAlways, PTL

LEMMA PoisonStep ==
    ASSUME IndInv, [Next]_vars, poisoned
    PROVE  /\ UNCHANGED <<holder, poisoned, state, engine>>
           /\ \A t \in Threads : result'[t] = "ok" => result[t] = "ok"
<1>1. holder = None /\ \A t \in Threads : pc[t] \notin Critical
  BY EspeakAssumption DEF IndInv, MutualExclusion
<1>2. ASSUME NEW t \in Threads, NewCall(t) \/ ThreadStep(t)
      PROVE  /\ UNCHANGED <<holder, poisoned, state, engine>>
             /\ \A u \in Threads : result'[u] = "ok" => result[u] = "ok"
  <2>1. CASE NewCall(t)
    BY <2>1 DEF NewCall, Call, IndInv, TypeOK
  <2>2. CASE Acquire(t)
    BY <1>1, <2>2
       DEF Acquire, LockIsPoisoned, Fail, Leave, IndInv, TypeOK
  <2>3. ~HolderStep(t) /\ ~FfiReturn(t) /\ ~Tick(t) /\ ~Panic(t)
    BY <1>1 DEF HolderStep, InitEspeak, RecordInitialized, EnsureVoice,
       SetVoiceByName, RecordVoice, ChooseMode, NextLine, BeginClause,
       EndLine, FfiReturn, ReturnLate, ReturnNull, ReturnClause, Tick, Panic,
       Critical
  <2> QED BY <1>2, <2>1, <2>2, <2>3 DEF ThreadStep
<1> QED BY <1>2 DEF Next, vars

\* After a panic under the lock nobody uses espeak-ng, and no call returns Ok.
THEOREM PoisonEndsUse == Spec => PoisonIsFinal
BY PoisonStep, IndInvAlways, PTL DEF Spec, PoisonIsFinal

\* A step of one thread is not a step of another, and it leaves the arguments
\* of the thread's own call as they are; it ends the call only with a result.
LEMMA StepIsOwn ==
    ASSUME IndInv, NEW t \in Threads, ThreadStep(t)
    PROVE  /\ pc[t] # "idle"
           /\ call'[t].language = call[t].language
           /\ call'[t].text = call[t].text
           /\ pc'[t] = "idle" => result'[t] # "none"
           /\ \A u \in Threads \ {t} :
                 pc'[u] = pc[u] /\ call'[u] = call[u] /\ result'[u] = result[u]
<1> USE DEF IndInv, TypeOK, Outcomes
<1>1. call[t] \in Calls
  OBVIOUS
<1>2. ASSUME NEW outcome \in Outcomes \ {"none"}, NEW sentences,
             Leave(t, outcome, sentences)
      PROVE  /\ call'[t].language = call[t].language
             /\ call'[t].text = call[t].text
             /\ result'[t] # "none"
             /\ \A u \in Threads \ {t} :
                   pc'[u] = pc[u] /\ call'[u] = call[u] /\ result'[u] = result[u]
  BY <1>1, <1>2 DEF Leave, Goto, Calls
<1>3. CASE Acquire(t)
  BY <1>2, <1>3 DEF Acquire, Fail, Goto
<1>4. CASE HolderStep(t)
  <2>1. CASE EndLine(t)
    <3> DEFINE flushed == Flush(call[t])
    <3>1. flushed.language = call[t].language /\ flushed.text = call[t].text
      BY <1>1 DEF Flush, PushSentence, Calls
    <3> HIDE DEF flushed
    <3>2. call' = [call EXCEPT ![t] = flushed]
      BY <2>1 DEF EndLine, flushed
    <3> QED BY <2>1, <3>1, <3>2 DEF EndLine, Goto
  <2>2. CASE HolderStep(t) /\ ~EndLine(t)
    BY <1>2, <2>2 DEF HolderStep, InitEspeak, RecordInitialized, EnsureVoice,
       SetVoiceByName, RecordVoice, ChooseMode, NextLine, BeginClause, Fail, Goto
  <2> QED BY <1>4, <2>1, <2>2
<1>5. CASE FfiReturn(t)
  <2>1. ASSUME NEW cursor \in {"stuck", "moved", "end"}, NEW empty \in BOOLEAN,
               NEW sentenceEnd \in BOOLEAN,
               ReturnClause(t, empty, sentenceEnd, cursor), ~Fail(t, "failure")
        PROVE  /\ call'[t].language = call[t].language
               /\ call'[t].text = call[t].text
               /\ pc'[t] # "idle"
               /\ \A u \in Threads \ {t} :
                     pc'[u] = pc[u] /\ call'[u] = call[u] /\ result'[u] = result[u]
    <3> DEFINE heard == IF empty THEN call[t] ELSE PushClause(call[t])
               kept == IF sentenceEnd THEN PushSentence(heard) ELSE heard
    <3>1. kept.language = call[t].language /\ kept.text = call[t].text
      <4>1. heard.language = call[t].language /\ heard.text = call[t].text
            /\ DOMAIN heard = DOMAIN call[t]
        BY <1>1 DEF PushClause, Calls
      <4> HIDE DEF heard
      <4> QED BY <1>1, <4>1 DEF PushSentence, Calls
    <3>2. /\ call' = [call EXCEPT ![t] = kept]
          /\ Goto(t, AfterClause(cursor)) /\ UNCHANGED result
      BY <2>1 DEF ReturnClause
    <3> HIDE DEF kept
    <3> QED BY <3>1, <3>2 DEF Goto, AfterClause
  <2>2. pc[t] = "ffi"
    BY <1>5 DEF FfiReturn, ReturnLate, ReturnNull, ReturnClause
  <2> QED BY <1>2, <1>5, <2>1, <2>2
          DEF FfiReturn, ReturnLate, ReturnNull, AfterClause, Fail, Goto
<1>6. CASE Tick(t)
  BY <1>1, <1>6 DEF Tick, Calls
<1>7. CASE Panic(t)
  BY <1>2, <1>7 DEF Panic, Fail, Critical
<1> QED BY <1>3, <1>4, <1>5, <1>6, <1>7 DEF ThreadStep

-----------------------------------------------------------------------------
(* What FlattenSeq computes.  Its definition is a recursive function chosen *)
(* by CHOOSE: that such a function exists, and that two of them agree, are  *)
(* inductions over the length of the sequence, here over a set of numbers.  *)

\* A set of numbers that has 0 and each successor has them all: in the other
\* case the numbers it lacks would have a least one.
LEMMA SetInduction ==
    ASSUME NEW S \in SUBSET Nat, 0 \in S, \A n \in S : n + 1 \in S
    PROVE  S = Nat
<1> SUFFICES ASSUME Nat \ S # {} PROVE FALSE
  OBVIOUS
<1> DEFINE less == OpToRel(<, Nat)
<1>1. IsWellFoundedOn(less, Nat)
  BY NatLessThanWellFounded, Zenon
<1>2. PICK n \in Nat \ S : \A m \in Nat \ S : <<m, n>> \notin less
  <2>1. Nat \ S \subseteq Nat
    OBVIOUS
  <2> HIDE DEF less
  <2> QED BY <1>1, <2>1, WFMin
<1>3. \A m \in Nat : m < n => m \in S
  BY <1>2 DEF OpToRel
<1>4. n - 1 \in S /\ n = (n - 1) + 1
  BY <1>3
<1> QED BY <1>4

\* The parts of the definition of FlattenSeq, by name.
IsFlattening(f, s) ==
    f = [i \in 1..Len(s) |-> IF i = 1 THEN s[i] ELSE f[i - 1] \o s[i]]

Flattening(s) == CHOOSE f : IsFlattening(f, s)

\* f concatenates the first n sequences of s, one after the other.
Flattens(f, s, n) ==
    \A i \in 1..n : f[i] = IF i = 1 THEN s[i] ELSE f[i - 1] \o s[i]

SameUpTo(s, t, n) == \A i \in 1..n : t[i] = s[i]

\* Two such functions, of sequences that start alike, start alike.
LEMMA FlatteningsAgree ==
    ASSUME NEW s, NEW t, NEW f, NEW g, NEW n \in Nat,
           SameUpTo(s, t, n), Flattens(f, s, n), Flattens(g, t, n)
    PROVE  SameUpTo(f, g, n)
<1> DEFINE Same == {k \in Nat : k + 1 <= n => g[k + 1] = f[k + 1]}
<1>1. 0 \in Same
  BY DEF Flattens, SameUpTo
<1>2. ASSUME NEW k \in Same PROVE k + 1 \in Same
  <2>1. SUFFICES ASSUME k + 2 <= n PROVE g[k + 2] = f[k + 2]
    OBVIOUS
  <2>2. g[k + 1] = f[k + 1] /\ t[k + 2] = s[k + 2]
    BY <1>2, <2>1 DEF SameUpTo
  <2>3. f[k + 2] = f[(k + 2) - 1] \o s[k + 2] /\ g[k + 2] = g[(k + 2) - 1] \o t[k + 2]
    <3>1. k + 2 \in 1..n /\ k + 2 # 1
      BY <2>1
    <3> QED BY <3>1 DEF Flattens
  <2>4. (k + 2) - 1 = k + 1
    OBVIOUS
  <2> QED BY <2>2, <2>3, <2>4
<1>3. Same = Nat
  <2>1. Same \subseteq Nat
    OBVIOUS
  <2> HIDE DEF Same
  <2> QED BY <1>1, <1>2, <2>1, SetInduction
<1>4. SUFFICES ASSUME NEW i \in 1..n PROVE g[i] = f[i]
  BY DEF SameUpTo
<1>5. i - 1 \in Nat /\ (i - 1) + 1 = i /\ i <= n
  OBVIOUS
<1>6. i - 1 \in Same
  BY <1>3, <1>5
<1> QED BY <1>5, <1>6

LEMMA FlattenSeqIsLast ==
    /\ FlattenSeq(<<>>) = <<>>
    /\ \A s : Len(s) # 0 => FlattenSeq(s) = Flattening(s)[Len(s)]
BY DEF FlattenSeq, Flattening, IsFlattening

LEMMA FlatteningFlattens ==
    ASSUME NEW s, NEW f, IsFlattening(f, s)
    PROVE  Flattens(f, s, Len(s))
BY Zenon DEF IsFlattening, Flattens

\* Such a function exists for every prefix of s, by steps of one.
LEMMA OneMoreFlattened ==
    ASSUME NEW S, NEW s, NEW n \in Nat \ {0}, s[n + 1] \in Seq(S),
           NEW f \in [1..n -> Seq(S)], Flattens(f, s, n)
    PROVE  \E g \in [1..(n + 1) -> Seq(S)] : Flattens(g, s, n + 1)
<1>1. PICK last \in Seq(S) : last = f[n] \o s[n + 1]
  <2>1. f[n] \in Seq(S)
    OBVIOUS
  <2> QED BY <2>1, ConcatProperties
<1> DEFINE g == [i \in 1..(n + 1) |-> IF i = n + 1 THEN last ELSE f[i]]
<1>2. g \in [1..(n + 1) -> Seq(S)]
  OBVIOUS
<1>3. ASSUME NEW i \in 1..(n + 1)
      PROVE  g[i] = IF i = 1 THEN s[i] ELSE g[i - 1] \o s[i]
  <2>1. CASE i = n + 1
    <3>1. g[i] = last /\ g[n] = f[n] /\ i - 1 = n /\ i # 1
      BY <2>1
    <3> HIDE DEF g
    <3> QED BY <1>1, <2>1, <3>1
  <2>2. CASE i \in 1..n /\ i # 1
    <3>1. g[i] = f[i] /\ g[i - 1] = f[i - 1]
      BY <2>2
    <3>2. f[i] = f[i - 1] \o s[i]
      BY <2>2 DEF Flattens
    <3> HIDE DEF g
    <3> QED BY <2>2, <3>1, <3>2
  <2>3. CASE i = 1
    <3>1. 1 \in 1..n /\ 1 # n + 1
      OBVIOUS
    <3>2. f[1] = s[1]
      BY <3>1 DEF Flattens
    <3>3. g[i] = f[i] /\ f[i] = s[i]
      BY <2>3, <3>1, <3>2
    <3> HIDE DEF g
    <3> QED BY <2>3, <3>3
  <2> QED BY <2>1, <2>2, <2>3
<1> HIDE DEF g
<1>4. Flattens(g, s, n + 1)
  BY <1>3 DEF Flattens
<1> QED BY <1>2, <1>4

LEMMA FlatteningsOfPrefixes ==
    ASSUME NEW S, NEW s, NEW n \in Nat \ {0}, \A i \in 1..n : s[i] \in Seq(S)
    PROVE  \E f \in [1..n -> Seq(S)] : Flattens(f, s, n)
<1> DEFINE Has(k) == \E f \in [1..k -> Seq(S)] : Flattens(f, s, k)
           Good == {k \in Nat : k + 1 <= n => Has(k + 1)}
<1>1. 0 \in Good
  <2>1. [i \in 1..1 |-> s[1]] \in [1..1 -> Seq(S)] /\ Flattens([i \in 1..1 |-> s[1]], s, 1)
    BY DEF Flattens
  <2>2. Has(1)
    BY <2>1
  <2> QED BY <2>2
<1>2. ASSUME NEW k \in Good PROVE k + 1 \in Good
  <2>1. SUFFICES ASSUME k + 2 <= n PROVE Has(k + 2)
    OBVIOUS
  <2>2. PICK f \in [1..(k + 1) -> Seq(S)] : Flattens(f, s, k + 1)
    BY <1>2, <2>1
  <2>3. s[(k + 1) + 1] \in Seq(S) /\ (k + 1) + 1 = k + 2 /\ k + 1 \in Nat \ {0}
    BY <2>1
  <2>4. Has((k + 1) + 1)
    BY <2>2, <2>3, OneMoreFlattened
  <2> QED BY <2>3, <2>4
<1>3. Good = Nat
  <2>1. Good \subseteq Nat
    OBVIOUS
  <2> HIDE DEF Good
  <2> QED BY <1>1, <1>2, <2>1, SetInduction
<1>4. n - 1 \in Nat /\ (n - 1) + 1 = n /\ n <= n
  OBVIOUS
<1>5. n - 1 \in Good
  <2> HIDE DEF Good
  <2> QED BY <1>3, <1>4
<1>6. Has((n - 1) + 1)
  <2> HIDE DEF Has
  <2> QED BY <1>4, <1>5
<1> QED BY <1>4, <1>6

LEMMA FlatteningExists ==
    ASSUME NEW S, NEW s \in Seq(Seq(S)), s # <<>>
    PROVE  /\ Flattens(Flattening(s), s, Len(s))
           /\ \A i \in 1..Len(s) : Flattening(s)[i] \in Seq(S)
<1>1. Len(s) \in Nat \ {0} /\ \A i \in 1..Len(s) : s[i] \in Seq(S)
  BY EmptySeq, ElementOfSeq
<1>2. PICK f \in [1..Len(s) -> Seq(S)] : Flattens(f, s, Len(s))
  BY <1>1, FlatteningsOfPrefixes
<1>3. IsFlattening(f, s)
  BY <1>2 DEF IsFlattening, Flattens
<1>4. IsFlattening(Flattening(s), s)
  BY <1>3, Zenon DEF Flattening
<1>5. Flattens(Flattening(s), s, Len(s))
  BY <1>4, FlatteningFlattens
<1>6. SameUpTo(f, Flattening(s), Len(s))
  <2>1. SameUpTo(s, s, Len(s))
    BY DEF SameUpTo
  <2> QED BY <1>1, <1>2, <1>5, <2>1, FlatteningsAgree
<1> QED BY <1>5, <1>6 DEF SameUpTo

\* What the proofs about the output use: flattening goes on where it stopped.
LEMMA FlattenAppend ==
    ASSUME NEW S, NEW s \in Seq(Seq(S)), NEW x \in Seq(S)
    PROVE  /\ FlattenSeq(s) \in Seq(S)
           /\ FlattenSeq(Append(s, x)) = FlattenSeq(s) \o x
<1>1. PICK t \in Seq(Seq(S)) : t = Append(s, x)
  BY AppendProperties
<1>2. /\ t # <<>> /\ Len(t) = Len(s) + 1 /\ Len(s) \in Nat
      /\ \A i \in 1..Len(s) : t[i] = s[i]
      /\ t[Len(s) + 1] = x
  BY <1>1, AppendProperties, LenProperties
<1>3. FlattenSeq(t) = Flattening(t)[Len(s) + 1]
  BY <1>2, FlattenSeqIsLast
<1>4. Flattens(Flattening(t), t, Len(t))
  BY <1>2, FlatteningExists
<1>5. CASE s = <<>>
  <2>1. Len(s) = 0 /\ FlattenSeq(s) = <<>>
    BY <1>5, FlattenSeqIsLast, EmptySeq
  <2>2. FlattenSeq(t) = x
    BY <1>2, <1>3, <1>4, <2>1 DEF Flattens
  <2> QED BY <1>1, <2>1, <2>2, ConcatEmptySeq, EmptySeq
<1>6. CASE s # <<>>
  <2>1. Len(s) \in Nat \ {0} /\ FlattenSeq(s) = Flattening(s)[Len(s)]
    BY <1>6, EmptySeq, FlattenSeqIsLast
  <2>2. Flattens(Flattening(s), s, Len(s)) /\ FlattenSeq(s) \in Seq(S)
    BY <1>6, <2>1, FlatteningExists
  <2>3. Flattens(Flattening(t), t, Len(s))
    BY <1>2, <1>4 DEF Flattens
  <2>4. Flattening(t)[Len(s)] = Flattening(s)[Len(s)]
    <3>1. SameUpTo(s, t, Len(s))
      BY <1>2 DEF SameUpTo
    <3>2. SameUpTo(Flattening(s), Flattening(t), Len(s))
      BY <2>1, <2>2, <2>3, <3>1, FlatteningsAgree
    <3> QED BY <2>1, <3>2 DEF SameUpTo
  <2>5. Flattening(t)[Len(s) + 1] = Flattening(t)[(Len(s) + 1) - 1] \o x
    <3>1. Len(s) + 1 \in 1..Len(t) /\ Len(s) + 1 # 1
      BY <1>2, <2>1
    <3> QED BY <1>2, <1>4, <3>1 DEF Flattens
  <2>6. (Len(s) + 1) - 1 = Len(s)
    BY <1>2
  <2> QED BY <1>1, <1>3, <2>1, <2>2, <2>4, <2>5, <2>6
<1> QED BY <1>5, <1>6

-----------------------------------------------------------------------------
(* The output of a call: whole, in order, and one line to a sentence.      *)

FromLine(pieces, line) == \A j \in DOMAIN pieces : pieces[j].line = line

\* Each sentence comes from one line of the text; the one under construction
\* comes from the line text_to_phonemes is at.
Lined(locals) ==
    /\ locals.line >= 1
    /\ FromLine(locals.current, locals.line)
    /\ \A i \in DOMAIN locals.sentences :
          /\ locals.sentences[i] # <<>>
          /\ \E line \in 1..Len(locals.text) : FromLine(locals.sentences[i], line)

Numbered(pieces, count) ==
    /\ Len(pieces) = count
    /\ \A n \in DOMAIN pieces : pieces[n].nth = n

Heard(locals) == FlattenSeq(locals.sentences) \o locals.current

\* Every clause that was spoken is in the output, once and in order.
Whole(locals) == Numbered(Heard(locals), locals.spoken)

\* The points between which a sentence is under construction.
MidLine == {"clause", "ffi", "flush"}

ThreadOutput(label, locals, outcome) ==
    /\ Lined(locals)
    /\ IF label \in MidLine THEN locals.line <= Len(locals.text)
       ELSE locals.current = <<>>
    /\ outcome = "ok" => label = "idle"
    /\ label # "idle" \/ outcome = "ok" => Whole(locals)

OutputInv == \A t \in Threads : ThreadOutput(pc[t], call[t], result[t])

LEMMA EmptyLined ==
    /\ \A line : FromLine(<<>>, line)
    /\ FlattenSeq(<<>>) = <<>>
    /\ <<>> \in Seq(Piece) /\ <<>> \in Seq(Seq(Piece))
BY EmptyInVoice, FlattenSeqIsLast DEF FromLine

\* A call starts with nothing heard and nothing lost.
LEMMA FreshOutput ==
    ASSUME NEW language, NEW separator, NEW text
    PROVE  ThreadOutput("lock", Fresh(language, separator, text), "none")
<1> DEFINE locals == Fresh(language, separator, text)
<1>1. /\ locals.line = 1 /\ locals.current = <<>> /\ locals.sentences = <<>>
      /\ locals.spoken = 0
  BY DEF Fresh
<1> HIDE DEF locals
<1>2. Lined(locals)
  BY <1>1, EmptyLined, EmptyInVoice DEF Lined
<1>3. Heard(locals) = <<>>
  BY <1>1, EmptyLined, ConcatEmptySeq DEF Heard
<1>4. Whole(locals)
  BY <1>1, <1>3, EmptySeq, EmptyInVoice DEF Whole, Numbered
<1> QED BY <1>1, <1>2, <1>4 DEF ThreadOutput, MidLine, locals

\* What was heard is a sequence, and grows by one piece or stays.
LEMMA HeardIsSeq ==
    ASSUME NEW locals \in Calls
    PROVE  FlattenSeq(locals.sentences) \in Seq(Piece) /\ Heard(locals) \in Seq(Piece)
<1>1. locals.sentences \in Seq(Seq(Piece)) /\ locals.current \in Seq(Piece)
  BY DEF Calls
<1>2. FlattenSeq(locals.sentences) \in Seq(Piece)
  BY <1>1, FlattenAppend
<1> QED BY <1>1, <1>2, ConcatProperties DEF Heard

LEMMA ConcatAppend ==
    ASSUME NEW S, NEW s \in Seq(S), NEW t \in Seq(S), NEW e \in S
    PROVE  s \o Append(t, e) = Append(s \o t, e)
<1>1. /\ <<e>> \in Seq(S) /\ s \o t \in Seq(S)
      /\ Append(t, e) = t \o <<e>>
  BY AppendIsConcat, ConcatProperties
<1>2. Append(s \o t, e) = (s \o t) \o <<e>>
  BY <1>1, AppendIsConcat
<1>3. (s \o t) \o <<e>> = s \o (t \o <<e>>)
  BY <1>1, ConcatAssociative
<1> QED BY <1>1, <1>2, <1>3

LEMMA NumberedAppend ==
    ASSUME NEW pieces \in Seq(Piece), NEW count \in Nat, Numbered(pieces, count),
           NEW piece \in Piece, piece.nth = count + 1
    PROVE  Numbered(Append(pieces, piece), count + 1)
<1>1. PICK more \in Seq(Piece) :
        /\ more = Append(pieces, piece)
        /\ Len(more) = Len(pieces) + 1
        /\ \A i \in 1..Len(pieces) : more[i] = pieces[i]
        /\ more[Len(pieces) + 1] = piece
  BY AppendProperties
<1>2. DOMAIN more = 1..(count + 1) /\ DOMAIN pieces = 1..count /\ Len(pieces) = count
  BY <1>1, LenProperties DEF Numbered
<1>3. \A n \in 1..count : more[n].nth = n
  BY <1>1, <1>2 DEF Numbered
<1>4. more[count + 1].nth = count + 1
  BY <1>1, <1>2
<1> QED BY <1>1, <1>2, <1>3, <1>4 DEF Numbered

LEMMA FromLineAppend ==
    ASSUME NEW pieces \in Seq(Piece), NEW piece \in Piece, NEW line,
           FromLine(pieces, line), piece.line = line
    PROVE  FromLine(Append(pieces, piece), line)
BY AppendProperties, LenProperties DEF FromLine

\* A clause is added to the sentence under construction.
LEMMA PushClauseOutput ==
    ASSUME NEW locals \in Calls, Lined(locals), Whole(locals),
           engine.voice \in Languages \cup {None}
    PROVE  /\ PushClause(locals) \in Calls
           /\ Lined(PushClause(locals)) /\ Whole(PushClause(locals))
           /\ PushClause(locals).line = locals.line
           /\ PushClause(locals).text = locals.text
<1> DEFINE piece == [voice |-> engine.voice, line |-> locals.line,
                     nth |-> locals.spoken + 1]
           heard == [locals EXCEPT !.current = Append(locals.current, piece)]
<1>1. /\ piece \in Piece /\ piece.line = locals.line
      /\ piece.nth = locals.spoken + 1
      /\ locals.current \in Seq(Piece) /\ locals.sentences \in Seq(Seq(Piece))
      /\ locals.spoken \in Nat /\ locals.spoken + 1 \in Nat
  BY DEF Calls, Piece
<1>2. PushClause(locals) = [heard EXCEPT !.spoken = locals.spoken + 1]
  BY DEF PushClause, Calls
<1> HIDE DEF piece
<1>3. /\ Append(locals.current, piece) \in Seq(Piece)
      /\ FromLine(Append(locals.current, piece), locals.line)
  BY <1>1, AppendProperties, FromLineAppend DEF Lined
<1>4. /\ heard \in Calls /\ heard.current = Append(locals.current, piece)
      /\ heard.sentences = locals.sentences /\ heard.line = locals.line
      /\ heard.text = locals.text /\ heard.spoken = locals.spoken
  BY <1>3 DEF Calls
<1> HIDE DEF heard
<1>5. /\ PushClause(locals) \in Calls
      /\ PushClause(locals).current = Append(locals.current, piece)
      /\ PushClause(locals).sentences = locals.sentences
      /\ PushClause(locals).line = locals.line
      /\ PushClause(locals).text = locals.text
      /\ PushClause(locals).spoken = locals.spoken + 1
  BY <1>1, <1>2, <1>4 DEF Calls
<1>6. Lined(PushClause(locals))
  BY <1>3, <1>5 DEF Lined
<1>7. Heard(PushClause(locals)) = Append(Heard(locals), piece)
  <2> DEFINE kept == FlattenSeq(locals.sentences)
  <2>1. /\ kept \in Seq(Piece)
        /\ Heard(locals) \in Seq(Piece) /\ Heard(locals) = kept \o locals.current
    BY <1>1, HeardIsSeq DEF Heard
  <2>2. Heard(PushClause(locals)) = kept \o Append(locals.current, piece)
    BY <1>5 DEF Heard
  <2> HIDE DEF kept
  <2> QED BY <1>1, <2>1, <2>2, ConcatAppend
<1>8. Numbered(Heard(PushClause(locals)), locals.spoken + 1)
  BY <1>1, <1>7, HeardIsSeq, NumberedAppend DEF Whole
<1> QED BY <1>5, <1>6, <1>8 DEF Whole

\* The sentence under construction is moved to the output, if it is not empty.
LEMMA PushSentenceOutput ==
    ASSUME NEW locals \in Calls, Lined(locals), Whole(locals),
           locals.line <= Len(locals.text)
    PROVE  /\ PushSentence(locals) \in Calls
           /\ Lined(PushSentence(locals)) /\ Whole(PushSentence(locals))
           /\ PushSentence(locals).current = <<>>
           /\ PushSentence(locals).line = locals.line
           /\ PushSentence(locals).text = locals.text
<1>1. CASE locals.current = <<>>
  BY <1>1 DEF PushSentence
<1>2. CASE locals.current # <<>>
  <2> DEFINE pushed == Append(locals.sentences, locals.current)
  <2>1. /\ locals.current \in Seq(Piece) /\ locals.sentences \in Seq(Seq(Piece))
        /\ locals.line \in 1..Len(locals.text)
    BY LenProperties DEF Calls, Lined
  <2>2. /\ pushed \in Seq(Seq(Piece))
        /\ FlattenSeq(pushed) = FlattenSeq(locals.sentences) \o locals.current
    <3>1. pushed \in Seq(Seq(Piece))
      BY <2>1, AppendProperties
    <3>2. FlattenSeq(pushed) = FlattenSeq(locals.sentences) \o locals.current
      BY <2>1, FlattenAppend
    <3> QED BY <3>1, <3>2
  <2>3. \A i \in DOMAIN pushed :
          /\ pushed[i] # <<>>
          /\ \E line \in 1..Len(locals.text) : FromLine(pushed[i], line)
    <3>1. /\ DOMAIN pushed = 1..(Len(locals.sentences) + 1)
          /\ DOMAIN locals.sentences = 1..Len(locals.sentences)
          /\ \A i \in 1..Len(locals.sentences) : pushed[i] = locals.sentences[i]
          /\ pushed[Len(locals.sentences) + 1] = locals.current
          /\ Len(locals.sentences) \in Nat
      BY <2>1, <2>2, AppendProperties, LenProperties
    <3> HIDE DEF pushed
    <3>2. \A i \in 1..Len(locals.sentences) :
            /\ pushed[i] # <<>>
            /\ \E line \in 1..Len(locals.text) : FromLine(pushed[i], line)
      BY <3>1 DEF Lined
    <3>3. \E line \in 1..Len(locals.text) : FromLine(locals.current, line)
      BY <2>1 DEF Lined
    <3>4. \A i \in DOMAIN pushed :
            i \in 1..Len(locals.sentences) \/ i = Len(locals.sentences) + 1
      BY <3>1
    <3> QED BY <1>2, <3>1, <3>2, <3>3, <3>4
  <2>4. PushSentence(locals) =
          [locals EXCEPT !.sentences = pushed, !.current = <<>>]
    BY <1>2 DEF PushSentence, Calls
  <2> HIDE DEF pushed
  <2>5. /\ PushSentence(locals) \in Calls
        /\ PushSentence(locals).sentences = pushed
        /\ PushSentence(locals).current = <<>>
        /\ PushSentence(locals).line = locals.line
        /\ PushSentence(locals).text = locals.text
        /\ PushSentence(locals).spoken = locals.spoken
    BY <2>2, <2>4, EmptyLined DEF Calls
  <2>6. Lined(PushSentence(locals))
    BY <2>3, <2>5, EmptyLined DEF Lined
  <2>7. Heard(PushSentence(locals)) = Heard(locals)
    <3>1. FlattenSeq(pushed) = Heard(locals) /\ Heard(locals) \in Seq(Piece)
      BY <2>2, HeardIsSeq DEF Heard
    <3> QED BY <2>5, <3>1, ConcatEmptySeq DEF Heard
  <2>8. Whole(PushSentence(locals))
    BY <2>5, <2>7 DEF Whole
  <2> QED BY <2>5, <2>6, <2>8
<1> QED BY <1>1, <1>2

\* A step that gives one thread a new place, new locals and a new result.
LEMMA OneThreadOutput ==
    ASSUME TypeOK, OutputInv, NEW t \in Threads, NEW label, NEW locals, NEW outcome,
           ThreadOutput(label, locals, outcome),
           pc' = [pc EXCEPT ![t] = label],
           call' = [call EXCEPT ![t] = locals],
           result' = [result EXCEPT ![t] = outcome]
    PROVE  OutputInv'
<1>1. /\ pc'[t] = label /\ call'[t] = locals /\ result'[t] = outcome
      /\ \A u \in Threads \ {t} :
            pc'[u] = pc[u] /\ call'[u] = call[u] /\ result'[u] = result[u]
  BY DEF TypeOK
<1> QED BY <1>1 DEF OutputInv, ThreadOutput

\* A step that only moves a thread on; one that touches none of its locals.
LEMMA MoveOutput ==
    ASSUME TypeOK, OutputInv, NEW t \in Threads, NEW label, Goto(t, label),
           UNCHANGED <<call, result>>, pc[t] # "idle",
           ThreadOutput(label, call[t], result[t])
    PROVE  OutputInv'
<1> DEFINE locals == call[t]
           outcome == result[t]
<1>1. /\ call' = [call EXCEPT ![t] = locals]
      /\ result' = [result EXCEPT ![t] = outcome]
      /\ ThreadOutput(label, locals, outcome)
  BY DEF TypeOK
<1> HIDE DEF locals, outcome
<1>2. pc' = [pc EXCEPT ![t] = label]
  BY DEF Goto
<1> QED BY <1>1, <1>2, OneThreadOutput

\* An error return hands nothing out, so it has nothing to lose.
LEMMA FailOutput ==
    ASSUME TypeOK, OutputInv, NEW t \in Threads,
           NEW outcome \in {"failure", "timeout", "panicked"}, Fail(t, outcome)
    PROVE  OutputInv'
<1> DEFINE locals == [call[t] EXCEPT !.sentences = <<>>, !.current = <<>>,
                                     !.elapsed = 0]
<1>1. call[t] \in Calls /\ Lined(call[t])
  BY DEF TypeOK, OutputInv, ThreadOutput
<1>2. /\ locals.sentences = <<>> /\ locals.current = <<>>
      /\ locals.line = call[t].line /\ locals.text = call[t].text
  BY <1>1 DEF Calls
<1>3. /\ pc' = [pc EXCEPT ![t] = "idle"]
      /\ call' = [call EXCEPT ![t] = locals]
      /\ result' = [result EXCEPT ![t] = outcome]
  BY DEF Fail, Leave, Goto
<1> HIDE DEF locals
<1>4. Lined(locals)
  BY <1>1, <1>2, EmptyLined, EmptyInVoice DEF Lined
<1>5. ThreadOutput("idle", locals, outcome)
  BY <1>2, <1>4 DEF ThreadOutput, MidLine
<1> QED BY <1>3, <1>5, OneThreadOutput

LEMMA NextLineOutput ==
    ASSUME TypeOK, OutputInv, NEW t \in Threads, NextLine(t)
    PROVE  OutputInv'
<1>1. /\ pc[t] = "line" /\ call[t] \in Calls /\ Lined(call[t])
      /\ call[t].current = <<>> /\ Whole(call[t]) /\ result[t] # "ok"
  BY DEF NextLine, TypeOK, OutputInv, ThreadOutput, MidLine
<1>2. CASE Leave(t, "ok", call[t].sentences)
  <2> DEFINE locals == [call[t] EXCEPT !.sentences = call[t].sentences,
                                       !.current = <<>>, !.elapsed = 0]
  <2>1. /\ locals.sentences = call[t].sentences /\ locals.current = call[t].current
        /\ locals.line = call[t].line /\ locals.text = call[t].text
        /\ locals.spoken = call[t].spoken
    BY <1>1 DEF Calls
  <2>2. /\ pc' = [pc EXCEPT ![t] = "idle"]
        /\ call' = [call EXCEPT ![t] = locals]
        /\ result' = [result EXCEPT ![t] = "ok"]
    BY <1>2 DEF Leave, Goto
  <2> HIDE DEF locals
  <2>3. Lined(locals)
    BY <1>1, <2>1 DEF Lined
  <2>4. Whole(locals)
    BY <1>1, <2>1 DEF Whole, Heard
  <2>5. ThreadOutput("idle", locals, "ok")
    BY <1>1, <2>1, <2>3, <2>4 DEF ThreadOutput, MidLine
  <2> QED BY <2>2, <2>5, OneThreadOutput
<1>3. CASE Fail(t, "failure")
  BY <1>3, FailOutput
<1>4. CASE /\ call[t].line <= Len(call[t].text)
           /\ Goto(t, "clause") /\ UNCHANGED <<holder, call, result>>
  <2>1. ThreadOutput("clause", call[t], result[t])
    BY <1>1, <1>4 DEF ThreadOutput, MidLine
  <2> QED BY <1>1, <1>4, <2>1, MoveOutput
<1> QED BY <1>2, <1>3, <1>4 DEF NextLine

LEMMA ReturnClauseOutput ==
    ASSUME IndInv, OutputInv, NEW t \in Threads,
           NEW cursor \in {"stuck", "moved", "end"},
           NEW empty \in BOOLEAN, NEW sentenceEnd \in BOOLEAN,
           ReturnClause(t, empty, sentenceEnd, cursor)
    PROVE  OutputInv'
<1> DEFINE heard == IF empty THEN call[t] ELSE PushClause(call[t])
           kept == IF sentenceEnd THEN PushSentence(heard) ELSE heard
<1>1. /\ TypeOK /\ pc[t] = "ffi" /\ call[t] \in Calls
      /\ Lined(call[t]) /\ Whole(call[t])
      /\ call[t].line <= Len(call[t].text) /\ result[t] # "ok"
      /\ engine.voice \in Languages \cup {None}
  BY DEF ReturnClause, IndInv, TypeOK, OutputInv, ThreadOutput, MidLine
<1>2. /\ heard \in Calls /\ Lined(heard) /\ Whole(heard)
      /\ heard.line <= Len(heard.text)
  BY <1>1, PushClauseOutput
<1>3. /\ Lined(kept) /\ Whole(kept) /\ kept.line <= Len(kept.text)
  <2> HIDE DEF heard
  <2> QED BY <1>2, PushSentenceOutput
<1>4. CASE Fail(t, "failure")
  BY <1>1, <1>4, FailOutput
<1>5. CASE /\ Goto(t, AfterClause(cursor)) /\ call' = [call EXCEPT ![t] = kept]
           /\ UNCHANGED <<holder, result>>
  <2> HIDE DEF kept
  <2>1. AfterClause(cursor) \in MidLine /\ AfterClause(cursor) # "idle"
    BY DEF AfterClause, MidLine
  <2>2. ThreadOutput(AfterClause(cursor), kept, result[t])
    BY <1>1, <1>3, <2>1 DEF ThreadOutput
  <2>3. result' = [result EXCEPT ![t] = result[t]]
    BY <1>1, <1>5 DEF TypeOK
  <2> QED BY <1>1, <1>5, <2>2, <2>3, OneThreadOutput DEF Goto
<1> QED BY <1>4, <1>5 DEF ReturnClause

LEMMA EndLineOutput ==
    ASSUME TypeOK, OutputInv, NEW t \in Threads, EndLine(t)
    PROVE  OutputInv'
<1> DEFINE pushed == PushSentence(call[t])
           locals == [pushed EXCEPT !.line = call[t].line + 1]
<1>1. /\ pc[t] = "flush" /\ call[t] \in Calls
      /\ Lined(call[t]) /\ Whole(call[t])
      /\ call[t].line <= Len(call[t].text) /\ result[t] # "ok"
  BY DEF EndLine, TypeOK, OutputInv, ThreadOutput, MidLine
<1>2. /\ pushed \in Calls /\ Lined(pushed) /\ Whole(pushed)
      /\ pushed.current = <<>> /\ pushed.line = call[t].line
  BY <1>1, PushSentenceOutput
<1>3. /\ call' = [call EXCEPT ![t] = locals] /\ Goto(t, "line")
      /\ result' = [result EXCEPT ![t] = result[t]]
  BY DEF EndLine, Flush, TypeOK
<1> HIDE DEF pushed
<1>4. /\ locals.line = call[t].line + 1 /\ locals.current = <<>>
      /\ locals.sentences = pushed.sentences /\ locals.text = pushed.text
      /\ locals.spoken = pushed.spoken /\ call[t].line \in Nat
  BY <1>1, <1>2 DEF Calls
<1> HIDE DEF locals
<1>5. Lined(locals)
  BY <1>1, <1>2, <1>4, EmptyLined DEF Lined
<1>6. Whole(locals)
  BY <1>2, <1>4 DEF Whole, Heard
<1>7. ThreadOutput("line", locals, result[t])
  BY <1>1, <1>4, <1>5, <1>6 DEF ThreadOutput, MidLine
<1> QED BY <1>3, <1>7, OneThreadOutput DEF Goto

LEMMA TickOutput ==
    ASSUME TypeOK, OutputInv, NEW t \in Threads, Tick(t)
    PROVE  OutputInv'
<1> DEFINE locals == [call[t] EXCEPT !.elapsed = call[t].elapsed + 1]
<1>1. call[t] \in Calls /\ ThreadOutput(pc[t], call[t], result[t])
  BY DEF TypeOK, OutputInv
<1>2. /\ locals.sentences = call[t].sentences /\ locals.current = call[t].current
      /\ locals.line = call[t].line /\ locals.text = call[t].text
      /\ locals.spoken = call[t].spoken
  BY <1>1 DEF Calls
<1>3. /\ pc' = [pc EXCEPT ![t] = pc[t]]
      /\ call' = [call EXCEPT ![t] = locals]
      /\ result' = [result EXCEPT ![t] = result[t]]
  BY DEF Tick, TypeOK
<1> HIDE DEF locals
<1>4. ThreadOutput(pc[t], locals, result[t])
  BY <1>1, <1>2 DEF ThreadOutput, Lined, Whole, Heard
<1> QED BY <1>3, <1>4, OneThreadOutput

\* Moving on within text_to_phonemes, but not into or out of a line.
LEMMA SameSideOutput ==
    ASSUME TypeOK, OutputInv, NEW t \in Threads, NEW label, label # "idle",
           pc[t] # "idle", pc[t] \in MidLine <=> label \in MidLine,
           Goto(t, label), UNCHANGED <<call, result>>
    PROVE  OutputInv'
<1>1. ThreadOutput(label, call[t], result[t])
  BY DEF OutputInv, ThreadOutput
<1> QED BY <1>1, MoveOutput

LEMMA InsideOutput ==
    ASSUME IndInv, OutputInv, NEW t \in Threads,
           Acquire(t) \/ HolderStep(t) \/ FfiReturn(t)
    PROVE  OutputInv'
<1>1. TypeOK
  BY DEF IndInv
<1>2. CASE Acquire(t)
  <2>1. CASE Fail(t, "failure")
    BY <1>1, <2>1, FailOutput
  <2>2. ASSUME NEW label \in {"voice", "init"}, Goto(t, label),
               UNCHANGED <<call, result>>
        PROVE  OutputInv'
    BY <1>1, <1>2, <2>2, SameSideOutput DEF Acquire, MidLine
  <2> QED BY <1>2, <2>1, <2>2 DEF Acquire
<1>3. CASE InitEspeak(t)
  BY <1>1, <1>3, FailOutput, SameSideOutput DEF InitEspeak, MidLine
<1>4. CASE RecordInitialized(t)
  BY <1>1, <1>4, SameSideOutput DEF RecordInitialized, MidLine
<1>5. CASE EnsureVoice(t)
  BY <1>1, <1>5, FailOutput, SameSideOutput DEF EnsureVoice, MidLine
<1>6. CASE SetVoiceByName(t)
  BY <1>1, <1>6, FailOutput, SameSideOutput DEF SetVoiceByName, MidLine
<1>7. CASE RecordVoice(t)
  BY <1>1, <1>7, SameSideOutput DEF RecordVoice, MidLine
<1>8. CASE ChooseMode(t)
  BY <1>1, <1>8, FailOutput, SameSideOutput DEF ChooseMode, MidLine
<1>9. CASE BeginClause(t)
  BY <1>1, <1>9, FailOutput, SameSideOutput DEF BeginClause, MidLine
<1>10. CASE ReturnLate(t)
  BY <1>1, <1>10, FailOutput DEF ReturnLate
<1>11. ASSUME NEW cursor \in {"stuck", "moved", "end"}, ReturnNull(t, cursor)
       PROVE  OutputInv'
  BY <1>1, <1>11, FailOutput, SameSideOutput DEF ReturnNull, AfterClause, MidLine
<1> QED BY <1>1, <1>2, <1>3, <1>4, <1>5, <1>6, <1>7, <1>8, <1>9, <1>10, <1>11,
           NextLineOutput, EndLineOutput, ReturnClauseOutput
        DEF HolderStep, FfiReturn

LEMMA InitOutput == Init => OutputInv
<1> SUFFICES ASSUME Init, NEW t \in Threads
             PROVE  ThreadOutput(pc[t], call[t], result[t])
  BY DEF OutputInv
<1>1. ThreadOutput("lock", Fresh(None, "none", <<>>), "none")
  BY FreshOutput
<1> QED BY <1>1 DEF Init, ThreadOutput, MidLine

LEMMA CallOutput ==
    ASSUME TypeOK, OutputInv, NEW t \in Threads, NewCall(t)
    PROVE  OutputInv'
<1>1. PICK language \in Languages, separator \in Separators, text \in Texts :
        Call(t, language, separator, text)
  BY DEF NewCall
<1> QED BY <1>1, FreshOutput, OneThreadOutput DEF Call, Goto

\* No step loses a clause, or lets a sentence run on into the next line.
LEMMA StepOutput == IndInv /\ OutputInv /\ [Next]_vars => OutputInv'
<1> SUFFICES ASSUME IndInv, OutputInv, [Next]_vars PROVE OutputInv'
  OBVIOUS
<1>1. TypeOK
  BY DEF IndInv
<1>2. ASSUME NEW t \in Threads, ThreadStep(t) PROVE OutputInv'
  BY <1>1, <1>2, InsideOutput, TickOutput, FailOutput DEF ThreadStep, Panic
<1>3. CASE UNCHANGED vars
  BY <1>3 DEF vars, OutputInv, ThreadOutput
<1> QED BY <1>1, <1>2, <1>3, CallOutput DEF Next

\* The output under construction is whole and lined up in every state.
THEOREM OutputInvAlways == Spec => []OutputInv
BY InitOutput, StepOutput, IndInvAlways, PTL DEF Spec

\* Ok hands over every clause espeak-ng produced, once and in order.
THEOREM EveryClauseOnce == Spec => []NoClauseLost
<1>1. IndInv /\ OutputInv => NoClauseLost
  <2> SUFFICES ASSUME IndInv, OutputInv, NEW t \in Threads, result[t] = "ok"
               PROVE  /\ Numbered(FlattenSeq(call[t].sentences), call[t].spoken)
                      /\ \A i \in DOMAIN call[t].sentences :
                            call[t].sentences[i] # <<>>
    BY DEF NoClauseLost, Numbered
  <2>1. call[t] \in Calls /\ Lined(call[t]) /\ Whole(call[t])
    BY DEF IndInv, TypeOK, OutputInv, ThreadOutput
  <2>2. call[t].current = <<>>
    BY DEF OutputInv, ThreadOutput, MidLine
  <2>3. FlattenSeq(call[t].sentences) = Heard(call[t])
    BY <2>1, <2>2, HeardIsSeq, ConcatEmptySeq DEF Heard
  <2> QED BY <2>1, <2>3 DEF Lined, Whole
<1> QED BY <1>1, IndInvAlways, OutputInvAlways, PTL

\* No sentence runs over the end of a line.
THEOREM SentencesWithinLines == Spec => []SentenceWithinLine
<1>1. OutputInv => SentenceWithinLine
  BY DEF OutputInv, ThreadOutput, Lined, FromLine, SentenceWithinLine
<1> QED BY <1>1, OutputInvAlways, PTL

=============================================================================
