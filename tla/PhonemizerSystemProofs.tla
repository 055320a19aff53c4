----------------------- MODULE PhonemizerSystemProofs -----------------------
(***************************************************************************)
(* Proofs about PhonemizerSystem, for every set of callers and of other    *)
(* threads, every set of texts and languages, and every queue: each caller *)
(* is answered with its own text in its own voice, a poisoned ESPEAK_LOCK  *)
(* reaches every later caller as an error, and only a panic of its own or  *)
(* the drop of the phonemizer ends the worker.  Then, for the answer that  *)
(* comes of it or of any other phonemizer, every voice's map and every     *)
(* text: what PhonemeEncoding makes of it.                                 *)
(*                                                                         *)
(* The two components keep the invariants proved of each in EspeakProofs   *)
(* and PhonemizerWorkerProofs, instantiated here as the system             *)
(* instantiates the components; SystemInv adds what relates the one to the *)
(* other.                                                                  *)
(***************************************************************************)
EXTENDS PhonemizerSystem, PhonemeEncoding, SequenceTheorems, FiniteSetTheorems, TLAPS

EP == INSTANCE EspeakProofs WITH
    Threads <- Direct \cup {Worker}, Separators <- {"none"}, pc <- epc

WP == INSTANCE PhonemizerWorkerProofs WITH pc <- cpc

\* The constants of the system satisfy the assumptions of its components.
LEMMA EspeakAssumptionHolds == EP!EspeakAssumption
BY SystemAssumption DEF EP!EspeakAssumption

LEMMA WorkerAssumptionHolds == WP!WorkerAssumption
BY SystemAssumption DEF WP!WorkerAssumption, WP!IsFiniteSet, IsFiniteSet

\* What the system calls E!A, the proofs about Espeak call EP!A.
LEMMA EspeakNames ==
    /\ E!Init <=> EP!Init
    /\ E!TypeOK <=> EP!TypeOK
    /\ E!Piece = EP!Piece
    /\ \A t : E!ThreadStep(t) <=> EP!ThreadStep(t)
    /\ \A t, language, text :
          E!Call(t, language, "none", text) <=> EP!Call(t, language, "none", text)
BY DEF E!Init, EP!Init, E!Fresh, EP!Fresh, E!TypeOK, EP!TypeOK, E!Outcomes,
       EP!Outcomes, E!Critical, EP!Critical, E!Calls, EP!Calls, E!Piece, EP!Piece,
       E!ThreadStep, EP!ThreadStep, E!Call, EP!Call, E!Goto, EP!Goto,
       E!Acquire, EP!Acquire, E!LockFree, EP!LockFree, E!LockIsPoisoned,
       EP!LockIsPoisoned, E!Fail, EP!Fail, E!Leave, EP!Leave, E!HolderStep,
       EP!HolderStep, E!InitEspeak, EP!InitEspeak, E!RecordInitialized,
       EP!RecordInitialized, E!EnsureVoice, EP!EnsureVoice, E!VoiceIsCached,
       EP!VoiceIsCached, E!SetVoiceByName, EP!SetVoiceByName, E!RecordVoice,
       EP!RecordVoice, E!ChooseMode, EP!ChooseMode, E!NextLine, EP!NextLine,
       E!BeginClause, EP!BeginClause, E!Overdue, EP!Overdue, E!EndLine,
       EP!EndLine, E!Flush, EP!Flush, E!PushSentence, EP!PushSentence,
       E!FfiReturn, EP!FfiReturn, E!ReturnLate, EP!ReturnLate, E!ReturnNull,
       EP!ReturnNull, E!AfterClause, EP!AfterClause, E!ReturnClause,
       EP!ReturnClause, E!PushClause, EP!PushClause, E!Tick, EP!Tick, E!Panic,
       EP!Panic

\* The same for the worker.
LEMMA WorkerNames ==
    /\ W!Init <=> WP!Init
    /\ W!TypeOK <=> WP!TypeOK
    /\ \A c : (W!Phonemize(c) <=> WP!Phonemize(c)) /\ (W!Return(c) <=> WP!Return(c))
    /\ \A answer : W!Complete(answer) <=> WP!Complete(answer)
    /\ W!Receive <=> WP!Receive
    /\ W!PanicInProcessor <=> WP!PanicInProcessor
    /\ W!DropReceiver <=> WP!DropReceiver
    /\ W!WorkerEnds <=> WP!WorkerEnds
    /\ W!DropHandle <=> WP!DropHandle
    /\ W!Terminated <=> WP!Terminated
BY DEF W!Init, WP!Init, W!TypeOK, WP!TypeOK, W!Replies, WP!Replies, W!Outcomes,
       WP!Outcomes, W!Answers, WP!Answers, W!Phonemize, WP!Phonemize, W!Return,
       WP!Return, W!RejectBroken, WP!RejectBroken, W!RejectFull, WP!RejectFull,
       W!Enqueue, WP!Enqueue, W!QueueIsFull, WP!QueueIsFull, W!Capacity,
       WP!Capacity, W!Complete, WP!Complete, W!Receive, WP!Receive,
       W!PanicInProcessor, WP!PanicInProcessor, W!DropReceiver, WP!DropReceiver,
       W!Queued, WP!Queued, W!WorkerEnds, WP!WorkerEnds, W!DropHandle,
       WP!DropHandle, W!Terminated, WP!Terminated, W!vars, WP!vars

-----------------------------------------------------------------------------
(* The inductive invariant.                                                *)

Threads == Direct \cup {Worker}

\* A piece of output that answers a request.
Suits(piece, request) ==
    /\ piece.voice = request.language
    /\ piece.line \in 1..Len(request.text)

OwnAnswer(answer, request) ==
    \A i \in DOMAIN answer : \A j \in DOMAIN answer[i] :
        Suits(answer[i][j], request)

\* Between StartJob and FinishJob the call in the worker is the call of the
\* caller whose job it has.
WorkerServes ==
    /\ epc[Worker] # "idle" => worker = "processing"
    /\ worker = "processing" =>
          /\ call[Worker].language = want[job].language
          /\ call[Worker].text = want[job].text
          /\ epc[Worker] = "idle" => result[Worker] # "none"
          /\ want[job].late => result[Worker] # "ok"
    /\ worker \in {"unwinding", "gone"} =>
          result[Worker] = "panicked" \/ handle = "dropped"

\* What a caller asked for, and what it has got.
CallerInv(c) ==
    /\ cpc[c] = "waiting" =>
          /\ want[c].language \in Languages /\ want[c].text \in Texts
          /\ outcome[c] = "none"
    /\ want[c].late => poisoned /\ outcome[c] # "ok" /\ reply[c] # "ok"
    /\ outcome[c] = "ok" \/ reply[c] = "ok" => OwnAnswer(got[c], want[c])

Wants == [language: Languages \cup {None}, text: Texts \cup {<<>>}, late: BOOLEAN]

LinkTypes ==
    /\ want \in [Callers -> Wants]
    /\ got \in [Callers -> Seq(Seq(EP!Piece))]

SystemInv ==
    /\ EP!IndInv /\ EP!OutputInv /\ WP!IndInv
    /\ LinkTypes
    /\ WorkerServes
    /\ \A c \in Callers : CallerInv(c)

-----------------------------------------------------------------------------
(* The components keep their invariants.                                   *)

LEMMA EspeakKeeps ==
    ASSUME EP!IndInv, EP!OutputInv,
           \/ \E t \in Threads : EP!ThreadStep(t)
           \/ \E t \in Threads, language \in Languages, text \in Texts :
                 EP!Call(t, language, "none", text)
           \/ UNCHANGED espeak
    PROVE  EP!IndInv' /\ EP!OutputInv'
<1>1. [EP!Next]_(EP!vars)
  BY DEF EP!Next, EP!NewCall, EP!vars, espeak, Threads
<1> QED BY <1>1, EspeakAssumptionHolds, EP!StepIndInv, EP!StepOutput

LEMMA WorkerKeeps ==
    ASSUME WP!IndInv,
           \/ \E c \in Callers : WP!Phonemize(c) \/ WP!Return(c)
           \/ WP!Receive
           \/ \E answer \in {"ok", "timeout", "failure"} : WP!Complete(answer)
           \/ WP!PanicInProcessor
           \/ WP!DropReceiver \/ WP!WorkerEnds \/ WP!DropHandle
           \/ UNCHANGED phonemizer
    PROVE  WP!IndInv'
<1>1. [WP!Next]_(WP!vars)
  BY DEF WP!Next, WP!WorkerStep, WP!Answers, WP!vars, phonemizer
<1> QED BY <1>1, WorkerAssumptionHolds, WP!StepIndInv

\* What the invariants of the components say here.
LEMMA ComponentFacts ==
    ASSUME SystemInv
    PROVE  /\ EP!TypeOK /\ WP!TypeOK
           /\ \A c \in Callers : cpc[c] = "idle" => reply[c] = "none"
           /\ worker = "processing" =>
                 job \in Callers /\ cpc[job] = "waiting" /\ reply[job] = "none"
           /\ queue # <<>> => Head(queue) \in Callers /\ cpc[Head(queue)] = "waiting"
<1>1. EP!TypeOK /\ WP!TypeOK
  BY DEF SystemInv, EP!IndInv, WP!IndInv
<1>2. \A c \in Callers : cpc[c] = "idle" => reply[c] = "none"
  BY DEF SystemInv, WP!IndInv
<1>3. ASSUME worker = "processing"
      PROVE  job \in Callers /\ cpc[job] = "waiting" /\ reply[job] = "none"
  BY <1>1, <1>3 DEF SystemInv, WP!IndInv, WP!TypeOK, WP!JobsAwaited, WP!InHand
<1>4. ASSUME queue # <<>>
      PROVE  Head(queue) \in Callers /\ cpc[Head(queue)] = "waiting"
  <2>1. queue \in Seq(Callers)
    BY <1>1 DEF WP!TypeOK
  <2>2. Head(queue) \in Callers /\ Head(queue) = queue[1] /\ 1 \in DOMAIN queue
    BY <1>4, <2>1, HeadTailProperties, EmptySeq, LenProperties
  <2> QED BY <2>2 DEF SystemInv, WP!IndInv, WP!JobsAwaited, WP!Queued
<1> QED BY <1>1, <1>2, <1>3, <1>4

\* Whatever a finished call of the worker hands out answers the job's request.
LEMMA OkAnswersJob ==
    ASSUME SystemInv, worker = "processing", result[Worker] = "ok"
    PROVE  OwnAnswer(call[Worker].sentences, want[job])
<1>1. Worker \in Threads
  BY DEF Threads
<1>2. \A i \in DOMAIN call[Worker].sentences :
        \A j \in DOMAIN call[Worker].sentences[i] :
          call[Worker].sentences[i][j].voice = call[Worker].language
  BY <1>1 DEF SystemInv, EP!IndInv, Threads
<1>3. \A i \in DOMAIN call[Worker].sentences :
        \A j \in DOMAIN call[Worker].sentences[i] :
          call[Worker].sentences[i][j].line \in 1..Len(call[Worker].text)
  <2>1. EP!Lined(call[Worker])
    BY <1>1 DEF SystemInv, EP!OutputInv, EP!ThreadOutput, Threads
  <2> QED BY <2>1 DEF EP!Lined, EP!FromLine
<1> QED BY <1>2, <1>3 DEF SystemInv, WorkerServes, OwnAnswer, Suits

-----------------------------------------------------------------------------
(* The steps of the system.                                                *)

LEMMA InitSystemInv == Init => SystemInv
<1> SUFFICES ASSUME Init PROVE SystemInv
  OBVIOUS
<1>1. EP!Init /\ WP!Init
  BY EspeakNames, WorkerNames DEF Init
<1>2. EP!IndInv /\ EP!OutputInv /\ WP!IndInv
  BY <1>1, EspeakAssumptionHolds, WorkerAssumptionHolds, EP!InitIndInv,
     EP!InitOutput, WP!InitIndInv
<1>3. LinkTypes
  BY EmptySeq DEF Init, NoRequest, LinkTypes, Wants
<1>4. WorkerServes
  BY <1>1 DEF WorkerServes, EP!Init, WP!Init
<1>5. \A c \in Callers : CallerInv(c)
  BY <1>1 DEF Init, NoRequest, CallerInv, WP!Init
<1> QED BY <1>2, <1>3, <1>4, <1>5 DEF SystemInv

LEMMA PhonemizeInv ==
    ASSUME SystemInv, NEW c \in Callers, NEW request \in Requests,
           Phonemize(c, request)
    PROVE  SystemInv'
<1>1. /\ WP!Phonemize(c)
      /\ want' = [want EXCEPT ![c] = [language |-> request.language,
                                      text |-> request.text, late |-> poisoned]]
      /\ got' = [got EXCEPT ![c] = <<>>]
      /\ UNCHANGED espeak
  BY WorkerNames DEF Phonemize
<1>2. EP!IndInv' /\ EP!OutputInv' /\ WP!IndInv'
  BY <1>1, EspeakKeeps, WorkerKeeps DEF SystemInv
<1>3. poisoned \in BOOLEAN /\ WP!TypeOK
  BY ComponentFacts DEF EP!TypeOK
<1>4. /\ UNCHANGED <<worker, job, handle>> /\ cpc[c] = "idle"
      /\ reply'[c] = "none"
      /\ outcome'[c] \in {"failure", "queue_full", "none"}
      /\ cpc'[c] = "waiting" => outcome'[c] = "none"
      /\ \A d \in Callers \ {c} :
            reply'[d] = reply[d] /\ outcome'[d] = outcome[d] /\ cpc'[d] = cpc[d]
  BY <1>1, <1>3, ComponentFacts
     DEF WP!Phonemize, WP!RejectBroken, WP!RejectFull, WP!Enqueue, WP!TypeOK
<1>5. /\ want'[c].language \in Languages /\ want'[c].text \in Texts
      /\ want'[c].late = poisoned /\ want'[c] \in Wants
      /\ \A d \in Callers \ {c} : want'[d] = want[d] /\ got'[d] = got[d]
  BY <1>1, <1>3 DEF SystemInv, LinkTypes, Requests, Wants
<1>6. LinkTypes'
  BY <1>1, <1>5, EmptySeq DEF SystemInv, LinkTypes, EP!Piece
<1>7. WorkerServes'
  <2>1. worker = "processing" => job \in Callers \ {c}
    BY <1>4, ComponentFacts
  <2> QED BY <1>1, <1>4, <1>5, <2>1 DEF SystemInv, WorkerServes, espeak
<1>8. \A d \in Callers : CallerInv(d)'
  BY <1>1, <1>4, <1>5 DEF SystemInv, CallerInv, espeak
<1> QED BY <1>2, <1>6, <1>7, <1>8 DEF SystemInv

LEMMA StartJobInv ==
    ASSUME SystemInv, StartJob
    PROVE  SystemInv'
<1> DEFINE c == Head(queue)
<1>1. /\ WP!Receive
      /\ EP!Call(Worker, want[c].language, "none", want[c].text)
      /\ UNCHANGED <<want, got>>
  BY EspeakNames, WorkerNames DEF StartJob
<1>2. /\ c \in Callers /\ cpc[c] = "waiting"
      /\ want[c].language \in Languages /\ want[c].text \in Texts
  BY <1>1, ComponentFacts DEF WP!Receive, SystemInv, CallerInv
<1>3. EP!IndInv' /\ EP!OutputInv' /\ WP!IndInv'
  BY <1>1, <1>2, EspeakKeeps, WorkerKeeps DEF SystemInv, Threads
<1>4. /\ epc'[Worker] = "lock" /\ result'[Worker] = "none"
      /\ call'[Worker].language = want[c].language
      /\ call'[Worker].text = want[c].text
      /\ UNCHANGED poisoned
  BY <1>1, ComponentFacts DEF EP!Call, EP!Goto, EP!Fresh, EP!TypeOK
<1>5. /\ job' = c /\ worker' = "processing"
      /\ UNCHANGED <<handle, reply, cpc, outcome>>
  BY <1>1 DEF WP!Receive
<1>6. LinkTypes'
  BY <1>1 DEF SystemInv, LinkTypes, EP!Piece
<1>7. WorkerServes'
  BY <1>1, <1>4, <1>5 DEF WorkerServes
<1>8. \A d \in Callers : CallerInv(d)'
  BY <1>1, <1>4, <1>5 DEF SystemInv, CallerInv
<1> QED BY <1>3, <1>6, <1>7, <1>8 DEF SystemInv

LEMMA FinishJobInv ==
    ASSUME SystemInv, FinishJob
    PROVE  SystemInv'
<1>1. /\ epc[Worker] = "idle" /\ result[Worker] # "panicked"
      /\ WP!Complete(result[Worker]) /\ UNCHANGED <<espeak, want>>
      /\ got' = [got EXCEPT ![job] = call[Worker].sentences]
  BY WorkerNames DEF FinishJob
<1>2. /\ worker = "processing" /\ job \in Callers /\ cpc[job] = "waiting"
      /\ worker' = "receiving" /\ UNCHANGED <<handle, cpc, outcome>>
      /\ reply' = [reply EXCEPT ![job] = result[Worker]]
  BY <1>1, ComponentFacts DEF WP!Complete
<1>3. result[Worker] \in {"ok", "timeout", "failure"}
  BY <1>1, <1>2, ComponentFacts
     DEF SystemInv, WorkerServes, EP!TypeOK, EP!Outcomes
<1>4. EP!IndInv' /\ EP!OutputInv' /\ WP!IndInv'
  BY <1>1, <1>3, EspeakKeeps, WorkerKeeps DEF SystemInv
<1>5. PICK c \in Callers :
        /\ c = job
        /\ got'[c] = call[Worker].sentences /\ reply'[c] = result[Worker]
        /\ \A d \in Callers \ {c} :   got'[d] = got[d] /\ reply'[d] = reply[d]
  BY <1>1, <1>2, ComponentFacts DEF SystemInv, LinkTypes, WP!TypeOK
<1>6. LinkTypes'
  <2>1. call[Worker].sentences \in Seq(Seq(EP!Piece))
    BY ComponentFacts DEF EP!TypeOK, EP!Calls
  <2> QED BY <1>1, <2>1 DEF SystemInv, LinkTypes, EP!Piece
<1>7. WorkerServes'
  BY <1>1, <1>2 DEF WorkerServes, espeak
<1>8. CallerInv(c)'
  <2>1. result[Worker] = "ok" => OwnAnswer(call[Worker].sentences, want[job])
    BY <1>2, OkAnswersJob
  <2>2. want[job].late => result[Worker] # "ok"
    BY <1>2 DEF SystemInv, WorkerServes
  <2>3. /\ outcome[job] = "none"
        /\ want[job].language \in Languages /\ want[job].text \in Texts
        /\ want[job].late => poisoned
    BY <1>2 DEF SystemInv, CallerInv
  <2> QED BY <1>1, <1>2, <1>5, <2>1, <2>2, <2>3 DEF CallerInv, espeak
<1>9. \A d \in Callers \ {c} : CallerInv(d)'
  BY <1>1, <1>2, <1>5 DEF SystemInv, CallerInv, espeak
<1> QED BY <1>4, <1>6, <1>7, <1>8, <1>9 DEF SystemInv

LEMMA AbandonJobInv ==
    ASSUME SystemInv, AbandonJob
    PROVE  SystemInv'
<1>1. /\ result[Worker] = "panicked" /\ epc[Worker] = "idle"
      /\ WP!PanicInProcessor /\ UNCHANGED <<espeak, want, got>>
  BY WorkerNames DEF AbandonJob
<1>2. /\ worker' = "unwinding" /\ UNCHANGED <<handle, cpc, outcome>>
      /\ reply' = [reply EXCEPT ![job] = "hung_up"]
  BY <1>1 DEF WP!PanicInProcessor
<1>3. EP!IndInv' /\ EP!OutputInv' /\ WP!IndInv'
  BY <1>1, EspeakKeeps, WorkerKeeps DEF SystemInv
<1>4. LinkTypes'
  BY <1>1 DEF SystemInv, LinkTypes, EP!Piece
<1>5. WorkerServes'
  BY <1>1, <1>2 DEF WorkerServes, espeak
<1>6. \A d \in Callers : reply'[d] \in {reply[d], "hung_up"}
  BY <1>2, ComponentFacts DEF WP!TypeOK
<1>7. \A d \in Callers : CallerInv(d)'
  BY <1>1, <1>2, <1>6 DEF SystemInv, CallerInv, espeak
<1> QED BY <1>3, <1>4, <1>5, <1>7 DEF SystemInv

LEMMA PhonemizerStepInv ==
    ASSUME SystemInv, PhonemizerStep
    PROVE  SystemInv'
<1>1. /\ UNCHANGED <<espeak, want, got>>
      /\ \/ \E c \in Callers : WP!Return(c)
         \/ WP!DropReceiver \/ WP!WorkerEnds \/ WP!DropHandle
  BY WorkerNames DEF PhonemizerStep
<1>2. EP!IndInv' /\ EP!OutputInv' /\ WP!IndInv'
  BY <1>1, EspeakKeeps, WorkerKeeps DEF SystemInv
<1>3. LinkTypes'
  BY <1>1 DEF SystemInv, LinkTypes, EP!Piece
<1>4. WP!TypeOK
  BY ComponentFacts
<1>5. WorkerServes'
  <2>1. ASSUME NEW c \in Callers, WP!Return(c) PROVE WorkerServes'
    BY <1>1, <2>1 DEF WP!Return, SystemInv, WorkerServes, espeak
  <2>2. CASE WP!DropReceiver
    BY <1>1, <2>2 DEF WP!DropReceiver, SystemInv, WorkerServes, espeak
  <2>3. CASE WP!WorkerEnds
    BY <1>1, <2>3 DEF WP!WorkerEnds, SystemInv, WorkerServes, espeak
  <2>4. CASE WP!DropHandle
    BY <1>1, <2>4 DEF WP!DropHandle, SystemInv, WorkerServes, espeak
  <2> QED BY <1>1, <2>1, <2>2, <2>3, <2>4
<1>6. ASSUME NEW d \in Callers PROVE CallerInv(d)'
  <2>1. ASSUME NEW c \in Callers, WP!Return(c) PROVE CallerInv(d)'
    <3>1. /\ cpc'[d] = "waiting" => cpc[d] = "waiting" /\ outcome'[d] = outcome[d]
          /\ outcome'[d] = "ok" => outcome[d] = "ok" \/ reply[d] = "ok"
          /\ reply'[d] = "ok" => reply[d] = "ok"
      BY <1>4, <2>1 DEF WP!Return, WP!TypeOK
    <3> QED BY <1>1, <3>1 DEF SystemInv, CallerInv, espeak
  <2>2. CASE WP!DropReceiver
    <3>1. reply'[d] \in {reply[d], "hung_up"} /\ UNCHANGED <<cpc, outcome>>
      BY <2>2 DEF WP!DropReceiver
    <3> QED BY <1>1, <3>1 DEF SystemInv, CallerInv, espeak
  <2>3. CASE WP!WorkerEnds \/ WP!DropHandle
    BY <1>1, <2>3 DEF WP!WorkerEnds, WP!DropHandle, SystemInv, CallerInv, espeak
  <2> QED BY <1>1, <2>1, <2>2, <2>3
<1> QED BY <1>2, <1>3, <1>5, <1>6 DEF SystemInv

\* A step inside text_to_phonemes disturbs the worker's call only if it is a
\* step of that call; and a poisoned lock lets no call return Ok.
LEMMA EspeakStepInv ==
    ASSUME SystemInv, EspeakStep
    PROVE  SystemInv'
<1>1. /\ UNCHANGED <<phonemizer, want, got>>
      /\ \/ \E t \in Direct, language \in DirectLanguages, text \in Texts :
               EP!Call(t, language, "none", text)
         \/ \E t \in Threads : EP!ThreadStep(t)
  BY EspeakNames DEF EspeakStep, Threads
<1>2. EP!IndInv' /\ EP!OutputInv' /\ WP!IndInv'
  BY <1>1, EspeakKeeps, WorkerKeeps, SystemAssumption DEF SystemInv, Threads
<1>3. LinkTypes'
  BY <1>1 DEF SystemInv, LinkTypes, EP!Piece
<1>4. EP!IndInv /\ EP!TypeOK /\ Worker \in Threads
  BY ComponentFacts DEF SystemInv, Threads
<1>5. poisoned => poisoned' /\ (result'[Worker] = "ok" => result[Worker] = "ok")
  <2>1. [EP!Next]_(EP!vars)
    BY <1>1, SystemAssumption DEF EP!Next, EP!NewCall, Threads
  <2> QED BY <1>4, <2>1, EspeakAssumptionHolds, EP!PoisonStep DEF Threads
<1>6. \/ UNCHANGED <<epc[Worker], call[Worker], result[Worker]>>
      \/ /\ epc[Worker] # "idle"
         /\ call'[Worker].language = call[Worker].language
         /\ call'[Worker].text = call[Worker].text
         /\ epc'[Worker] = "idle" => result'[Worker] # "none"
  <2>1. ASSUME NEW t \in Direct, NEW language, NEW text,
               EP!Call(t, language, "none", text)
        PROVE  UNCHANGED <<epc[Worker], call[Worker], result[Worker]>>
    <3>1. t # Worker
      BY SystemAssumption
    <3> QED BY <1>4, <2>1, <3>1 DEF EP!Call, EP!Goto, EP!TypeOK, Threads
  <2>2. CASE EP!ThreadStep(Worker)
    BY <1>4, <2>2, EspeakAssumptionHolds, EP!StepIsOwn DEF Threads
  <2>3. ASSUME NEW t \in Threads \ {Worker}, EP!ThreadStep(t)
        PROVE  UNCHANGED <<epc[Worker], call[Worker], result[Worker]>>
    BY <1>4, <2>3, EspeakAssumptionHolds, EP!StepIsOwn DEF Threads
  <2> QED BY <1>1, <2>1, <2>2, <2>3
<1>7. WorkerServes'
  <2>1. worker = "processing" => (want[job].late => poisoned)
    BY ComponentFacts DEF SystemInv, CallerInv
  <2> QED BY <1>1, <1>5, <1>6, <2>1 DEF SystemInv, WorkerServes, phonemizer
<1>8. \A d \in Callers : CallerInv(d)'
  BY <1>1, <1>5 DEF SystemInv, CallerInv, phonemizer
<1> QED BY <1>2, <1>3, <1>7, <1>8 DEF SystemInv

LEMMA StepSystemInv == SystemInv /\ [Next]_vars => SystemInv'
<1> SUFFICES ASSUME SystemInv, [Next]_vars PROVE SystemInv'
  OBVIOUS
<1>1. CASE Terminated \/ UNCHANGED vars
  <2>1. UNCHANGED <<espeak, phonemizer, want, got>>
    BY <1>1, WorkerNames DEF Terminated, WP!Terminated, WP!vars, phonemizer, vars
  <2>2. EP!IndInv' /\ EP!OutputInv' /\ WP!IndInv'
    BY <2>1, EspeakKeeps, WorkerKeeps DEF SystemInv
  <2> QED BY <2>1, <2>2 DEF SystemInv, LinkTypes, EP!Piece, WorkerServes,
          CallerInv, espeak, phonemizer
<1> QED BY <1>1, PhonemizeInv, StartJobInv, FinishJobInv, AbandonJobInv,
           PhonemizerStepInv, EspeakStepInv DEF Next

\* The invariant of the composition holds in every state of every behaviour.
THEOREM SystemInvAlways == Spec => []SystemInv
BY InitSystemInv, StepSystemInv, PTL DEF Spec

-----------------------------------------------------------------------------
(* What follows from it.                                                   *)

\* Type correctness of the composition.
THEOREM TypeCorrect == Spec => []TypeOK
<1>1. SystemInv => TypeOK
  BY ComponentFacts, EspeakNames, WorkerNames
     DEF SystemInv, LinkTypes, Wants, WorkerServes, TypeOK
<1> QED BY <1>1, SystemInvAlways, PTL

\* Whatever is returned to a caller as Ok is its own text in its own voice.
THEOREM OwnAnswers == Spec => []AnswerIsOwn
<1>1. SystemInv => AnswerIsOwn
  BY DEF SystemInv, CallerInv, OwnAnswer, Suits, AnswerIsOwn
<1> QED BY <1>1, SystemInvAlways, PTL

\* No call made after a panic under ESPEAK_LOCK is answered Ok.
THEOREM PoisonReachesEveryCaller == Spec => []PoisonReachesCallers
<1>1. SystemInv => PoisonReachesCallers
  BY DEF SystemInv, CallerInv, PoisonReachesCallers
<1> QED BY <1>1, SystemInvAlways, PTL

\* The worker ends only by its own panic or with its phonemizer.
THEOREM WorkerSurvivesPoison == Spec => []WorkerOutlivesPoison
<1>1. SystemInv => WorkerOutlivesPoison
  BY DEF SystemInv, WorkerServes, WorkerOutlivesPoison
<1> QED BY <1>1, SystemInvAlways, PTL

-----------------------------------------------------------------------------
(* The composition implements its components, and with the worker the port *)
(* that PhonemizerWorker was shown to implement.                           *)

LEMMA StepOfWorker == SystemInv /\ [Next]_vars => [WP!Next]_(WP!vars)
<1> SUFFICES ASSUME SystemInv, Next PROVE [WP!Next]_(WP!vars)
  BY DEF vars, WP!vars, phonemizer
<1>1. ASSUME NEW c \in Callers, NEW request \in Requests, Phonemize(c, request)
      PROVE  WP!Next
  BY <1>1, WorkerNames DEF Phonemize, WP!Next
<1>2. CASE StartJob
  BY <1>2, WorkerNames DEF StartJob, WP!Next, WP!WorkerStep
<1>3. CASE FinishJob
  <2>1. /\ WP!Complete(result[Worker]) /\ epc[Worker] = "idle"
        /\ result[Worker] # "panicked"
    BY <1>3, WorkerNames DEF FinishJob
  <2>2. result[Worker] \in WP!Answers
    BY <2>1, ComponentFacts DEF WP!Complete, WP!Answers, SystemInv,
       WorkerServes, EP!TypeOK, EP!Outcomes
  <2> QED BY <2>1, <2>2 DEF WP!Next, WP!WorkerStep
<1>4. CASE AbandonJob
  BY <1>4, WorkerNames DEF AbandonJob, WP!Next
<1>5. CASE PhonemizerStep
  BY <1>5, WorkerNames DEF PhonemizerStep, WP!Next, WP!WorkerStep
<1>6. CASE EspeakStep
  BY <1>6 DEF EspeakStep, WP!vars, phonemizer
<1>7. CASE Terminated
  BY <1>7, WorkerNames DEF Terminated, WP!Next
<1> QED BY <1>1, <1>2, <1>3, <1>4, <1>5, <1>6, <1>7 DEF Next

\* Seen from its callers, the phonemizer over espeak-rs is the worker of
\* PhonemizerWorker: text_to_phonemes, its failures and its panics are one of
\* the processors that module allows for.
THEOREM SystemIsWorker == Spec => WP!Spec
<1>1. Init => WP!Init
  BY WorkerNames DEF Init
<1> QED BY <1>1, StepOfWorker, SystemInvAlways, PTL DEF Spec, WP!Spec

\* So each call of phonemize is rejected at once, or taken on and answered
\* exactly once, with espeak-rs as the processor.
THEOREM SystemImplementsPort == Spec => WP!ImplementsPort
BY SystemIsWorker, WorkerAssumptionHolds, WP!WorkerImplementsPort, PTL

-----------------------------------------------------------------------------
(* What becomes of an answer: PhonemeEncoding, for any map, any sentences   *)
(* and any tables of Unicode.                                              *)

\* FlattenSeq is the one the lemmas of EspeakProofs are about.
LEMMA FlattenNames == \A s : FlattenSeq(s) = EP!FlattenSeq(s)
BY DEF FlattenSeq, EP!FlattenSeq

\* What is assumed of the tables of Unicode, of the maps and of the answers,
\* by a name of its own: the lemmas that rest on it say so.
Tables == EncodingAssumption

LEMMA TablesHold == Tables
BY EncodingAssumption DEF Tables

LEMMA EncodingTypes ==
    ASSUME Tables
    PROVE  /\ BOS \in Chars /\ EOS \in Chars /\ PAD \in Chars /\ Space \in Chars
           /\ Decomposition \in [Chars -> Seq(Chars)]
           /\ CombiningClass \in [Chars -> Nat]
           /\ Decomposition[Space] = <<Space>> /\ CombiningClass[Space] = 0
           /\ \A m \in Maps : m \in [DOMAIN m -> Seq(Int)]
BY DEF Tables, EncodingAssumption, Chars

-----------------------------------------------------------------------------
(* A text spelt out: each character gives way to a sequence.               *)

Spells(spelling, X, S) == spelling \in [X -> Seq(S)]

Replaced(text, spelling) == [i \in DOMAIN text |-> spelling[text[i]]]

Spelt(text, spelling) == FlattenSeq(Replaced(text, spelling))

LEMMA SpeltIsFlat ==
    ASSUME NEW X, NEW S, NEW spelling, Spells(spelling, X, S), NEW text \in Seq(X)
    PROVE  /\ Replaced(text, spelling) \in Seq(Seq(S))
           /\ Len(Replaced(text, spelling)) = Len(text)
           /\ \A i \in 1..Len(text) : Replaced(text, spelling)[i] = spelling[text[i]]
<1>1. Len(text) \in Nat /\ DOMAIN text = 1..Len(text)
  BY LenProperties
<1>2. \A i \in 1..Len(text) : spelling[text[i]] \in Seq(S)
  BY ElementOfSeq DEF Spells
<1> QED BY <1>1, <1>2 DEF Replaced

\* One character more is spelt behind those before it,
LEMMA SpeltAppend ==
    ASSUME NEW X, NEW S, NEW spelling, Spells(spelling, X, S),
           NEW text \in Seq(X), NEW x \in X
    PROVE  /\ Spelt(text, spelling) \in Seq(S)
           /\ Spelt(Append(text, x), spelling) = Spelt(text, spelling) \o spelling[x]
<1>0. PICK longer \in Seq(X) : longer = Append(text, x)
  BY AppendProperties
<1> DEFINE parts == Replaced(text, spelling)
           grown == Replaced(longer, spelling)
<1>1. /\ Len(longer) = Len(text) + 1
      /\ \A i \in 1..Len(text) : longer[i] = text[i]
      /\ longer[Len(text) + 1] = x
      /\ Len(text) \in Nat
  BY <1>0, AppendProperties, LenProperties
<1>2. /\ parts \in Seq(Seq(S)) /\ Len(parts) = Len(text)
      /\ \A i \in 1..Len(text) : parts[i] = spelling[text[i]]
  BY SpeltIsFlat
<1>3. /\ grown \in Seq(Seq(S)) /\ Len(grown) = Len(longer)
      /\ \A i \in 1..Len(longer) : grown[i] = spelling[longer[i]]
  BY SpeltIsFlat
<1> HIDE DEF parts, grown
<1>4. PICK last \in Seq(S) : last = spelling[x]
  BY DEF Spells
<1>5. PICK more \in Seq(Seq(S)) : more = Append(parts, last)
  BY <1>2, <1>4, AppendProperties
<1>6. grown = more
  <2>1. /\ Len(more) = Len(text) + 1
        /\ \A i \in 1..Len(text) : more[i] = parts[i]
        /\ more[Len(text) + 1] = last
    BY <1>2, <1>4, <1>5, AppendProperties
  <2>2. ASSUME NEW i \in 1..(Len(text) + 1) PROVE grown[i] = more[i]
    <3>1. grown[i] = spelling[longer[i]]
      BY <1>1, <1>3
    <3>2. CASE i = Len(text) + 1
      BY <1>1, <1>4, <2>1, <3>1, <3>2
    <3>3. CASE i \in 1..Len(text)
      BY <1>1, <1>2, <2>1, <3>1, <3>3
    <3> QED BY <1>1, <3>2, <3>3
  <2> QED BY <1>1, <1>3, <1>5, <2>1, <2>2, SeqEqual
<1>7. /\ FlattenSeq(parts) \in Seq(S)
      /\ FlattenSeq(more) = FlattenSeq(parts) \o last
  BY <1>2, <1>5, FlattenNames, EspeakAssumptionHolds, EP!FlattenAppend
<1> QED BY <1>0, <1>4, <1>6, <1>7 DEF Spelt, parts, grown

LEMMA SpeltEmpty == \A spelling : Spelt(<<>>, spelling) = <<>>
<1> TAKE spelling
<1>1. Replaced(<<>>, spelling) = <<>>
  BY DEF Replaced
<1>2. FlattenSeq(<<>>) = <<>>
  BY FlattenNames, EspeakAssumptionHolds, EP!FlattenSeqIsLast
<1> QED BY <1>1, <1>2 DEF Spelt

\* Concatenation is associative, for three sequences named by one predicate.
OverSet(S, a, b, c) == a \in Seq(S) /\ b \in Seq(S) /\ c \in Seq(S)

LEMMA Regrouped ==
    ASSUME NEW S, NEW a, NEW b, NEW c, OverSet(S, a, b, c)
    PROVE  (a \o b) \o c = a \o (b \o c)
BY ConcatAssociative DEF OverSet

LEMMA SpeltTyped ==
    ASSUME NEW X, NEW S, NEW spelling, Spells(spelling, X, S), NEW text \in Seq(X)
    PROVE  Spelt(text, spelling) \in Seq(S)
<1>1. CASE X = {}
  <2>1. text = <<>>
    BY <1>1, ElementOfSeq, EmptySeq
  <2> QED BY <2>1, SpeltEmpty, EmptySeq
<1>2. CASE X # {}
  <2>1. PICK x \in X : TRUE
    BY <1>2
  <2> QED BY SpeltAppend
<1> QED BY <1>1, <1>2

\* and so is a text behind a text.
LEMMA SpeltConcat ==
    ASSUME NEW X, NEW S, NEW spelling, Spells(spelling, X, S), NEW s \in Seq(X), NEW t \in Seq(X)
    PROVE  Spelt(s \o t, spelling) = Spelt(s, spelling) \o Spelt(t, spelling)
<1> DEFINE Splits(u) == Spelt(s \o u, spelling) = Spelt(s, spelling) \o Spelt(u, spelling)
           Good == {n \in Nat : \A u \in Seq(X) : Len(u) = n => Splits(u)}
<1>1. \A u \in Seq(X) : Spelt(u, spelling) \in Seq(S)
  BY SpeltTyped
<1>2. 0 \in Good
  <2>1. ASSUME NEW u \in Seq(X), Len(u) = 0 PROVE Splits(u)
    <3>1. u = <<>>
      BY <2>1, EmptySeq
    <3>2. s \o u = s /\ Spelt(u, spelling) = <<>>
      BY <3>1, ConcatEmptySeq, SpeltEmpty
    <3> QED BY <1>1, <3>2, ConcatEmptySeq
  <2> HIDE DEF Splits
  <2> QED BY <2>1
<1>3. ASSUME NEW n \in Good PROVE n + 1 \in Good
  <2>1. ASSUME NEW u \in Seq(X), Len(u) = n + 1 PROVE Splits(u)
    <3>1. PICK v \in Seq(X), x \in X : u = Append(v, x)
      <4>1. u # <<>>
        BY <2>1, EmptySeq
      <4> QED BY <4>1, SequenceEmptyOrAppend
    <3>2. Len(v) = n
      BY <2>1, <3>1, AppendProperties, LenProperties
    <3>3. Splits(v)
      <4> HIDE DEF Splits
      <4> QED BY <1>3, <3>2
    <3>4. PICK w \in Seq(X) : w = s \o v
      BY ConcatProperties
    <3>5. s \o Append(v, x) = Append(w, x)
      BY <3>4, EspeakAssumptionHolds, EP!ConcatAppend
    <3>6. Spelt(Append(w, x), spelling) = Spelt(w, spelling) \o spelling[x]
      BY SpeltAppend
    <3>7. Spelt(Append(v, x), spelling) = Spelt(v, spelling) \o spelling[x]
      BY SpeltAppend
    <3>8. PICK c \in Seq(S) : c = spelling[x]
      BY DEF Spells
    <3>9. Spelt(w, spelling) = Spelt(s, spelling) \o Spelt(v, spelling)
      BY <3>3, <3>4
    <3>10. (Spelt(s, spelling) \o Spelt(v, spelling)) \o c
             = Spelt(s, spelling) \o (Spelt(v, spelling) \o c)
      <4>1. OverSet(S, Spelt(s, spelling), Spelt(v, spelling), c)
        BY <1>1 DEF OverSet
      <4> QED BY <4>1, Regrouped
    <3> QED BY <3>1, <3>5, <3>6, <3>7, <3>8, <3>9, <3>10
  <2> HIDE DEF Splits
  <2> QED BY <1>3, <2>1
<1>4. Good = Nat
  <2>1. Good \subseteq Nat
    OBVIOUS
  <2> HIDE DEF Good
  <2> QED BY <1>2, <1>3, <2>1, EspeakAssumptionHolds, EP!SetInduction
<1>5. Len(t) \in Good
  <2>1. Len(t) \in Nat
    BY LenProperties
  <2> HIDE DEF Good
  <2> QED BY <1>4, <2>1
<1> HIDE DEF Splits
<1>6. Splits(t)
  BY <1>5
<1> QED BY <1>6 DEF Splits

-----------------------------------------------------------------------------
(* The order of marks: NFD of a text with a space in it is NFD before and   *)
(* after the space.                                                        *)

Class(chars, i) == CombiningClass[chars[i]]

Shifted(k, B) == {k + j : j \in B}

Below(A, n) == A \subseteq 1..n

LEMMA FiniteBelow ==
    ASSUME NEW n \in Nat, NEW A, Below(A, n)
    PROVE  IsFiniteSet(A) /\ Cardinality(A) \in Nat
<1>1. IsFiniteSet(1..n)
  BY FS_Interval
<1>2. IsFiniteSet(A)
  BY <1>1, FS_Subset DEF Below
<1> QED BY <1>2, FS_CardinalityType

\* Counting what lies below a bound and, shifted by it, what lies above.
LEMMA CountBothSides ==
    ASSUME NEW k \in Nat, NEW n \in Nat, NEW A, NEW B, Below(A, k), Below(B, n)
    PROVE  Cardinality(A \cup Shifted(k, B)) = Cardinality(A) + Cardinality(B)
<1> DEFINE moved == Shifted(k, B)
           move == [j \in B |-> k + j]
<1>1. IsFiniteSet(A) /\ IsFiniteSet(B)
  BY FiniteBelow
<1>2. IsFiniteSet(moved) /\ Cardinality(moved) = Cardinality(B)
  <2>1. move \in Bijection(B, moved)
    BY DEF Bijection, Injection, Surjection, IsInjective, Shifted, Below
  <2>2. ExistsBijection(B, moved)
    BY <2>1 DEF ExistsBijection
  <2> HIDE DEF moved
  <2> QED BY <1>1, <2>2, FS_Bijection
<1>3. A \cap moved = {}
  BY DEF Shifted, Below
<1> HIDE DEF moved
<1>4. Cardinality(A \cup moved) = Cardinality(A) + Cardinality(moved) - Cardinality({})
  BY <1>1, <1>2, <1>3, FS_Union
<1>5. Cardinality(A) \in Nat /\ Cardinality(B) \in Nat
  BY FiniteBelow
<1> QED BY <1>2, <1>4, <1>5, FS_EmptySet DEF moved

LEMMA FinitePlaces ==
    ASSUME NEW chars \in Seq(Chars)
    PROVE  /\ Len(chars) \in Nat /\ DOMAIN chars = 1..Len(chars)
           /\ IsFiniteSet(1..Len(chars)) /\ Cardinality(1..Len(chars)) = Len(chars)
<1>1. Len(chars) \in Nat /\ DOMAIN chars = 1..Len(chars)
  BY LenProperties
<1> QED BY <1>1, FS_Interval

LEMMA ClassTyped ==
    ASSUME Tables, NEW chars \in Seq(Chars), NEW i \in 1..Len(chars)
    PROVE  Class(chars, i) \in Nat
<1>1. chars[i] \in Chars
  BY ElementOfSeq
<1> QED BY <1>1, EncodingTypes DEF Class

LEMMA StartersCounted ==
    ASSUME NEW chars, NEW i
    PROVE  Starters(chars, i) = Cardinality({j \in 1..i : Class(chars, j) = 0})
BY DEF Starters, Class

LEMMA StartersTyped ==
    ASSUME NEW chars, NEW i \in Nat
    PROVE  Starters(chars, i) \in Nat
<1> DEFINE A == {j \in 1..i : Class(chars, j) = 0}
<1>1. Below(A, i)
  BY DEF Below
<1> HIDE DEF A
<1>2. Cardinality(A) \in Nat
  BY <1>1, FiniteBelow
<1> QED BY <1>2, StartersCounted DEF A

\* The order is lexicographic on starters, class and place.
Earlier(s, c, i, t, d, j) == s < t \/ (s = t /\ (c < d \/ (c = d /\ i < j)))

LEMMA PrecedesIs ==
    ASSUME NEW chars, NEW i, NEW j
    PROVE  Precedes(chars, i, j) <=>
              Earlier(Starters(chars, i), Class(chars, i), i,
                      Starters(chars, j), Class(chars, j), j)
BY DEF Precedes, Class, Earlier

LEMMA EarlierIsTotal ==
    ASSUME NEW s \in Nat, NEW c \in Nat, NEW i \in Nat,
           NEW t \in Nat, NEW d \in Nat, NEW j \in Nat
    PROVE  /\ ~Earlier(s, c, i, s, c, i)
           /\ i # j => (Earlier(s, c, i, t, d, j) <=> ~Earlier(t, d, j, s, c, i))
BY DEF Earlier

LEMMA EarlierIsTransitive ==
    ASSUME NEW s \in Nat, NEW c \in Nat, NEW i \in Nat,
           NEW t \in Nat, NEW d \in Nat, NEW j \in Nat,
           NEW u \in Nat, NEW e \in Nat, NEW k \in Nat,
           Earlier(s, c, i, t, d, j), Earlier(t, d, j, u, e, k)
    PROVE  Earlier(s, c, i, u, e, k)
BY DEF Earlier

LEMMA PlaceTyped ==
    ASSUME Tables, NEW chars \in Seq(Chars), NEW i \in 1..Len(chars)
    PROVE  i \in Nat /\ Starters(chars, i) \in Nat /\ Class(chars, i) \in Nat
<1>1. i \in Nat
  BY FinitePlaces
<1> QED BY <1>1, StartersTyped, ClassTyped

LEMMA PrecedesIsTotal ==
    ASSUME Tables, NEW chars \in Seq(Chars),
           NEW i \in 1..Len(chars), NEW j \in 1..Len(chars)
    PROVE  /\ ~Precedes(chars, i, i)
           /\ i # j => (Precedes(chars, i, j) <=> ~Precedes(chars, j, i))
BY PlaceTyped, PrecedesIs, EarlierIsTotal

LEMMA PrecedesIsTransitive ==
    ASSUME Tables, NEW chars \in Seq(Chars),
           NEW i \in 1..Len(chars), NEW j \in 1..Len(chars), NEW k \in 1..Len(chars),
           Precedes(chars, i, j), Precedes(chars, j, k)
    PROVE  Precedes(chars, i, k)
BY PlaceTyped, PrecedesIs, EarlierIsTransitive

\* What comes up to i, itself included, in the order.
UpTo(chars, i) == {j \in 1..Len(chars) : j = i \/ Precedes(chars, j, i)}

LEMMA PlaceCounted ==
    ASSUME NEW chars \in Seq(Chars), NEW i \in 1..Len(chars)
    PROVE  /\ Place(chars, i) = Cardinality(UpTo(chars, i))
           /\ UpTo(chars, i) \in SUBSET (1..Len(chars))
           /\ Place(chars, i) \in 1..Len(chars)
<1>1. Len(chars) \in Nat /\ DOMAIN chars = 1..Len(chars)
  BY FinitePlaces
<1>2. Place(chars, i) = Cardinality(UpTo(chars, i))
  BY <1>1 DEF Place, UpTo
<1>3. UpTo(chars, i) \in SUBSET (1..Len(chars)) /\ i \in UpTo(chars, i)
  BY DEF UpTo
<1>4. IsFiniteSet(1..Len(chars)) /\ Cardinality(1..Len(chars)) = Len(chars)
  BY FinitePlaces
<1>5. /\ IsFiniteSet(UpTo(chars, i)) /\ Cardinality(UpTo(chars, i)) \in Nat
      /\ Cardinality(UpTo(chars, i)) <= Len(chars)
  BY <1>3, <1>4, FS_Subset, FS_CardinalityType
<1>6. Cardinality(UpTo(chars, i)) # 0
  BY <1>3, <1>5, FS_EmptySet
<1> QED BY <1>1, <1>2, <1>3, <1>5, <1>6

\* Every place is taken, and by one.
LEMMA PlacesDiffer ==
    ASSUME Tables, NEW chars \in Seq(Chars),
           NEW i \in 1..Len(chars), NEW j \in 1..Len(chars), Precedes(chars, i, j)
    PROVE  Place(chars, i) # Place(chars, j)
<1>1. UpTo(chars, i) \subseteq UpTo(chars, j)
  BY PrecedesIsTransitive DEF UpTo
<1>2. j \in UpTo(chars, j) /\ j \notin UpTo(chars, i)
  BY PrecedesIsTotal DEF UpTo
<1>3. IsFiniteSet(UpTo(chars, j))
  BY FinitePlaces, PlaceCounted, FS_Subset
<1>4. Cardinality(UpTo(chars, i)) # Cardinality(UpTo(chars, j))
  BY <1>1, <1>2, <1>3, FS_Subset
<1> QED BY <1>4, PlaceCounted

LEMMA PlacesTaken ==
    ASSUME Tables, NEW chars \in Seq(Chars), NEW n \in 1..Len(chars)
    PROVE  \E i \in 1..Len(chars) :
              /\ Place(chars, i) = n
              /\ \A j \in 1..Len(chars) : Place(chars, j) = n => j = i
<1> DEFINE all == 1..Len(chars)
           place == [i \in all |-> Place(chars, i)]
<1>1. place \in [all -> all]
  BY PlaceCounted
<1>2. \A i, j \in all : Place(chars, i) = Place(chars, j) => i = j
  BY PlacesDiffer, PrecedesIsTotal
<1>3. place \in Injection(all, all)
  BY <1>1, <1>2 DEF Injection, IsInjective
<1>4. IsFiniteSet(all)
  BY FinitePlaces
<1>5. place \in Surjection(all, all)
  <2> HIDE DEF all, place
  <2> QED BY <1>3, <1>4, FS_Injection
<1>6. PICK i \in all : place[i] = n
  BY <1>5 DEF Surjection
<1> QED BY <1>2, <1>6

LEMMA FunctionIsSeq ==
    ASSUME NEW S, NEW n \in Nat, NEW f \in [1..n -> S]
    PROVE  f \in Seq(S) /\ Len(f) = n
OBVIOUS

\* A sequence of these characters in that order is the reordered one.
LEMMA ReorderedIs ==
    ASSUME Tables, NEW chars \in Seq(Chars)
    PROVE  /\ Reordered(chars) \in Seq(Chars)
           /\ Len(Reordered(chars)) = Len(chars)
           /\ \A i \in 1..Len(chars) : Reordered(chars)[Place(chars, i)] = chars[i]
<1>1. Len(chars) \in Nat /\ DOMAIN chars = 1..Len(chars)
  BY FinitePlaces
<1> DEFINE At(n) == CHOOSE i \in 1..Len(chars) : Place(chars, i) = n
<1>2. Reordered(chars) = [n \in 1..Len(chars) |-> chars[At(n)]]
  BY <1>1 DEF Reordered
<1>3. ASSUME NEW n \in 1..Len(chars)
      PROVE  At(n) \in 1..Len(chars) /\ Place(chars, At(n)) = n /\ chars[At(n)] \in Chars
  <2>1. \E i \in 1..Len(chars) : Place(chars, i) = n
    BY PlacesTaken
  <2>2. At(n) \in 1..Len(chars) /\ Place(chars, At(n)) = n
    BY <2>1
  <2> HIDE DEF At
  <2> QED BY <2>2, ElementOfSeq
<1>4. ASSUME NEW i \in 1..Len(chars) PROVE At(Place(chars, i)) = i
  <2>1. Place(chars, i) \in 1..Len(chars)
    BY PlaceCounted
  <2> HIDE DEF At
  <2> QED BY <1>3, <2>1, PlacesTaken
<1> HIDE DEF At
<1>5. Reordered(chars) \in [1..Len(chars) -> Chars]
  BY <1>2, <1>3
<1>6. Reordered(chars) \in Seq(Chars) /\ Len(Reordered(chars)) = Len(chars)
  BY <1>1, <1>5, FunctionIsSeq
<1>7. ASSUME NEW i \in 1..Len(chars)
      PROVE  Reordered(chars)[Place(chars, i)] = chars[i]
  <2>1. Place(chars, i) \in 1..Len(chars)
    BY PlaceCounted
  <2> QED BY <1>2, <1>4, <2>1
<1> QED BY <1>6, <1>7

\* and no other sequence is.
LEMMA ReorderedIsUnique ==
    ASSUME Tables, NEW chars \in Seq(Chars),
           NEW text \in Seq(Chars), Len(text) = Len(chars),
           \A i \in 1..Len(chars) : text[Place(chars, i)] = chars[i]
    PROVE  text = Reordered(chars)
<1>1. ASSUME NEW n \in 1..Len(chars) PROVE text[n] = Reordered(chars)[n]
  <2>1. PICK i \in 1..Len(chars) : Place(chars, i) = n
    BY PlacesTaken
  <2> QED BY <2>1, ReorderedIs
<1> QED BY <1>1, ReorderedIs, SeqEqual

\* Two texts, one after the other.
IsJoined(c, a, b) == c = a \o b

LEMMA JoinedAt ==
    ASSUME NEW X, NEW a \in Seq(X), NEW b \in Seq(X), NEW c, IsJoined(c, a, b)
    PROVE  /\ c \in Seq(X)
           /\ Len(a) \in Nat /\ Len(b) \in Nat /\ Len(c) = Len(a) + Len(b)
           /\ \A i \in 1..Len(a) : c[i] = a[i]
           /\ \A i \in 1..Len(b) : c[Len(a) + i] = b[i]
<1>1. Len(a) \in Nat /\ Len(b) \in Nat
  BY LenProperties
<1>2. /\ c \in Seq(X) /\ Len(c) = Len(a) + Len(b)
      /\ \A i \in 1..(Len(a) + Len(b)) : c[i] = IF i <= Len(a) THEN a[i] ELSE b[i - Len(a)]
  BY ConcatProperties DEF IsJoined
<1>3. ASSUME NEW i \in 1..Len(a) PROVE c[i] = a[i]
  BY <1>1, <1>2
<1>4. ASSUME NEW i \in 1..Len(b) PROVE c[Len(a) + i] = b[i]
  <2>1. /\ Len(a) + i \in 1..(Len(a) + Len(b)) /\ ~(Len(a) + i <= Len(a))
        /\ (Len(a) + i) - Len(a) = i
    BY <1>1
  <2> QED BY <1>2, <2>1
<1> QED BY <1>1, <1>2, <1>3, <1>4

LEMMA ClassJoined ==
    ASSUME NEW a \in Seq(Chars), NEW b \in Seq(Chars), NEW c, IsJoined(c, a, b)
    PROVE  /\ \A i \in 1..Len(a) : Class(c, i) = Class(a, i)
           /\ \A i \in 1..Len(b) : Class(c, Len(a) + i) = Class(b, i)
BY JoinedAt DEF Class

LEMMA StartersJoined ==
    ASSUME NEW a \in Seq(Chars), NEW b \in Seq(Chars), NEW c, IsJoined(c, a, b)
    PROVE  /\ \A i \in 1..Len(a) : Starters(c, i) = Starters(a, i)
           /\ \A i \in 1..Len(b) :
                 Starters(c, Len(a) + i) = Starters(a, Len(a)) + Starters(b, i)
<1> DEFINE In(chars, i) == {j \in 1..i : Class(chars, j) = 0}
<1>1. Len(a) \in Nat /\ Len(b) \in Nat
  BY LenProperties
<1>2. ASSUME NEW i \in 1..Len(a) PROVE Starters(c, i) = Starters(a, i)
  <2>1. In(c, i) = In(a, i)
    BY <1>1, ClassJoined
  <2> QED BY <2>1, StartersCounted
<1>3. ASSUME NEW i \in 1..Len(b)
      PROVE  Starters(c, Len(a) + i) = Starters(a, Len(a)) + Starters(b, i)
  <2> DEFINE before == In(a, Len(a))
             after == In(b, i)
             both == In(c, Len(a) + i)
  <2>1. ASSUME NEW j \in both PROVE j \in before \cup Shifted(Len(a), after)
    <3>1. CASE j \in 1..Len(a)
      BY <2>1, <3>1, ClassJoined
    <3>2. CASE j \notin 1..Len(a)
      <4>1. j - Len(a) \in 1..i /\ j - Len(a) \in 1..Len(b) /\ j = Len(a) + (j - Len(a))
        BY <1>1, <2>1, <3>2
      <4>2. Class(b, j - Len(a)) = 0
        BY <2>1, <4>1, ClassJoined
      <4> QED BY <4>1, <4>2 DEF Shifted
    <3> QED BY <3>1, <3>2
  <2>2. ASSUME NEW j \in before PROVE j \in both
    BY <1>1, <2>2, ClassJoined
  <2>3. ASSUME NEW j \in after PROVE Len(a) + j \in both
    <3>1. j \in 1..Len(b) /\ Len(a) + j \in 1..(Len(a) + i)
      BY <1>1
    <3> QED BY <3>1, ClassJoined
  <2>4. Below(before, Len(a)) /\ Below(after, i) /\ i \in Nat
    BY <1>1 DEF Below
  <2>5. Cardinality(both) = Starters(c, Len(a) + i)
        /\ Cardinality(before) = Starters(a, Len(a))
        /\ Cardinality(after) = Starters(b, i)
    BY StartersCounted
  <2> HIDE DEF before, after, both
  <2>6. both = before \cup Shifted(Len(a), after)
    BY <2>1, <2>2, <2>3 DEF Shifted
  <2>7. Cardinality(before \cup Shifted(Len(a), after)) = Cardinality(before) + Cardinality(after)
    BY <1>1, <2>4, CountBothSides
  <2> QED BY <2>5, <2>6, <2>7
<1> QED BY <1>2, <1>3

LEMMA EarlierShifts ==
    ASSUME NEW s \in Nat, NEW c, NEW i \in Nat, NEW t \in Nat, NEW d, NEW j \in Nat,
           NEW m \in Nat, NEW k \in Nat
    PROVE  Earlier(m + s, c, k + i, m + t, d, k + j) <=> Earlier(s, c, i, t, d, j)
BY DEF Earlier

LEMMA PrecedesJoined ==
    ASSUME Tables, NEW a \in Seq(Chars), NEW b \in Seq(Chars), NEW c,
           IsJoined(c, a, b)
    PROVE  /\ \A i, j \in 1..Len(a) : Precedes(c, i, j) <=> Precedes(a, i, j)
           /\ \A i, j \in 1..Len(b) :
                 Precedes(c, Len(a) + i, Len(a) + j) <=> Precedes(b, i, j)
<1>1. Len(a) \in Nat
  BY LenProperties
<1>2. ASSUME NEW i \in 1..Len(a), NEW j \in 1..Len(a)
      PROVE  Precedes(c, i, j) <=> Precedes(a, i, j)
  BY StartersJoined, ClassJoined, PrecedesIs
<1>3. ASSUME NEW i \in 1..Len(b), NEW j \in 1..Len(b)
      PROVE  Precedes(c, Len(a) + i, Len(a) + j) <=> Precedes(b, i, j)
  <2>1. /\ Starters(c, Len(a) + i) = Starters(a, Len(a)) + Starters(b, i)
        /\ Starters(c, Len(a) + j) = Starters(a, Len(a)) + Starters(b, j)
        /\ Class(c, Len(a) + i) = Class(b, i)
        /\ Class(c, Len(a) + j) = Class(b, j)
    BY StartersJoined, ClassJoined
  <2>2. /\ Starters(a, Len(a)) \in Nat /\ Starters(b, i) \in Nat
        /\ Starters(b, j) \in Nat /\ i \in Nat /\ j \in Nat
    BY <1>1, StartersTyped, PlaceTyped
  <2>3. Precedes(c, Len(a) + i, Len(a) + j) <=>
           Earlier(Starters(a, Len(a)) + Starters(b, i), Class(b, i), Len(a) + i,
                   Starters(a, Len(a)) + Starters(b, j), Class(b, j), Len(a) + j)
    BY <2>1, PrecedesIs
  <2> QED BY <1>1, <2>2, <2>3, EarlierShifts, PrecedesIs
<1> QED BY <1>2, <1>3

\* All of one text comes before all of the other.
InFront(c, a, b) ==
    \A i \in 1..Len(a) : \A j \in 1..Len(b) : Precedes(c, i, Len(a) + j)

\* Then the first keeps its places and the other follows behind them,
LEMMA PlaceJoined ==
    ASSUME Tables, NEW a \in Seq(Chars), NEW b \in Seq(Chars), NEW c,
           IsJoined(c, a, b), InFront(c, a, b)
    PROVE  /\ \A i \in 1..Len(a) : Place(c, i) = Place(a, i)
           /\ \A i \in 1..Len(b) : Place(c, Len(a) + i) = Len(a) + Place(b, i)
<1>1. /\ Len(a) \in Nat /\ Len(b) \in Nat
      /\ c \in Seq(Chars) /\ Len(c) = Len(a) + Len(b)
  BY JoinedAt
<1>2. /\ 1..Len(a) \subseteq 1..Len(c)
      /\ \A i \in 1..Len(b) : Len(a) + i \in 1..Len(c)
      /\ \A j \in 1..Len(c) : j \in 1..Len(a) \/ \E k \in 1..Len(b) : j = Len(a) + k
  <2>1. ASSUME NEW j \in 1..Len(c), j \notin 1..Len(a)
        PROVE  \E k \in 1..Len(b) : j = Len(a) + k
    <3>1. j - Len(a) \in 1..Len(b) /\ j = Len(a) + (j - Len(a))
      BY <1>1, <2>1
    <3> QED BY <3>1
  <2> QED BY <1>1, <2>1
<1>3. \A i \in 1..Len(a) : \A j \in 1..Len(b) :
         Precedes(c, i, Len(a) + j) /\ ~Precedes(c, Len(a) + j, i)
  <2>1. \A i \in 1..Len(a) : \A j \in 1..Len(b) : i # Len(a) + j
    BY <1>1
  <2> QED BY <1>1, <1>2, <2>1, PrecedesIsTotal DEF InFront
<1>4. ASSUME NEW i \in 1..Len(a) PROVE Place(c, i) = Place(a, i)
  <2>1. UpTo(c, i) = UpTo(a, i)
    <3>1. ASSUME NEW j \in UpTo(c, i) PROVE j \in UpTo(a, i)
      <4>1. j \in 1..Len(a)
        BY <1>2, <1>3, <3>1 DEF UpTo
      <4> QED BY <3>1, <4>1, PrecedesJoined DEF UpTo
    <3>2. ASSUME NEW j \in UpTo(a, i) PROVE j \in UpTo(c, i)
      BY <1>2, <3>2, PrecedesJoined DEF UpTo
    <3> QED BY <3>1, <3>2
  <2> QED BY <1>1, <1>2, <2>1, PlaceCounted
<1>5. ASSUME NEW i \in 1..Len(b) PROVE Place(c, Len(a) + i) = Len(a) + Place(b, i)
  <2>1. UpTo(c, Len(a) + i) = 1..Len(a) \cup Shifted(Len(a), UpTo(b, i))
    <3>1. ASSUME NEW j \in UpTo(c, Len(a) + i)
          PROVE  j \in 1..Len(a) \cup Shifted(Len(a), UpTo(b, i))
      <4>1. CASE j \in 1..Len(a)
        BY <4>1
      <4>2. ASSUME NEW k \in 1..Len(b), j = Len(a) + k PROVE k \in UpTo(b, i)
        <5>1. k = i \/ Precedes(c, Len(a) + k, Len(a) + i)
          BY <1>1, <3>1, <4>2 DEF UpTo
        <5> QED BY <5>1, PrecedesJoined DEF UpTo
      <4> QED BY <1>2, <3>1, <4>1, <4>2 DEF UpTo, Shifted
    <3>2. ASSUME NEW j \in 1..Len(a) PROVE j \in UpTo(c, Len(a) + i)
      BY <1>2, <1>3 DEF UpTo
    <3>3. ASSUME NEW k \in UpTo(b, i) PROVE Len(a) + k \in UpTo(c, Len(a) + i)
      BY <1>2, <3>3, PrecedesJoined DEF UpTo
    <3> QED BY <3>1, <3>2, <3>3 DEF Shifted
  <2>2. PICK front, behind : front = 1..Len(a) /\ behind = UpTo(b, i)
    OBVIOUS
  <2>3. Below(front, Len(a)) /\ Below(behind, Len(b)) /\ Cardinality(front) = Len(a)
    BY <2>2, FinitePlaces DEF Below, UpTo
  <2>4. Cardinality(front \cup Shifted(Len(a), behind)) = Cardinality(front) + Cardinality(behind)
    <3>1. Len(a) \in Nat /\ Len(b) \in Nat /\ Below(front, Len(a)) /\ Below(behind, Len(b))
      BY <1>1, <2>3
    <3> QED BY <3>1, CountBothSides
  <2>5. /\ Place(c, Len(a) + i) = Cardinality(UpTo(c, Len(a) + i))
        /\ Place(b, i) = Cardinality(UpTo(b, i))
    BY <1>1, <1>2, PlaceCounted
  <2> QED BY <2>1, <2>2, <2>3, <2>4, <2>5
<1> QED BY <1>4, <1>5

\* so that both are put in order separately.
LEMMA ReorderedJoined ==
    ASSUME Tables, NEW a \in Seq(Chars), NEW b \in Seq(Chars), NEW c,
           IsJoined(c, a, b), InFront(c, a, b)
    PROVE  IsJoined(Reordered(c), Reordered(a), Reordered(b))
<1>1. /\ Len(a) \in Nat /\ Len(b) \in Nat
      /\ c \in Seq(Chars) /\ Len(c) = Len(a) + Len(b)
      /\ \A i \in 1..Len(a) : c[i] = a[i]
      /\ \A i \in 1..Len(b) : c[Len(a) + i] = b[i]
  BY JoinedAt
<1>2. /\ Reordered(a) \in Seq(Chars) /\ Len(Reordered(a)) = Len(a)
      /\ Reordered(b) \in Seq(Chars) /\ Len(Reordered(b)) = Len(b)
  BY ReorderedIs
<1>3. PICK t : IsJoined(t, Reordered(a), Reordered(b))
  BY DEF IsJoined
<1>4. /\ t \in Seq(Chars) /\ Len(t) = Len(c)
      /\ \A n \in 1..Len(a) : t[n] = Reordered(a)[n]
      /\ \A n \in 1..Len(b) : t[Len(a) + n] = Reordered(b)[n]
  <2>1. /\ t \in Seq(Chars)
        /\ Len(t) = Len(Reordered(a)) + Len(Reordered(b))
        /\ \A n \in 1..Len(Reordered(a)) : t[n] = Reordered(a)[n]
        /\ \A n \in 1..Len(Reordered(b)) :
              t[Len(Reordered(a)) + n] = Reordered(b)[n]
    BY <1>2, <1>3, JoinedAt
  <2> QED BY <1>1, <1>2, <2>1
<1>5. ASSUME NEW i \in 1..Len(c) PROVE t[Place(c, i)] = c[i]
  <2>1. CASE i \in 1..Len(a)
    <3>1. Place(c, i) = Place(a, i) /\ Place(a, i) \in 1..Len(a)
      BY <2>1, PlaceJoined, PlaceCounted
    <3>2. Reordered(a)[Place(a, i)] = a[i]
      BY <2>1, ReorderedIs
    <3> QED BY <1>1, <1>4, <2>1, <3>1, <3>2
  <2>2. CASE i \notin 1..Len(a)
    <3>1. PICK k \in 1..Len(b) : i = Len(a) + k
      <4>1. i - Len(a) \in 1..Len(b) /\ i = Len(a) + (i - Len(a))
        BY <1>1, <2>2
      <4> QED BY <4>1
    <3>2. Place(c, i) = Len(a) + Place(b, k) /\ Place(b, k) \in 1..Len(b)
      BY <3>1, PlaceJoined, PlaceCounted
    <3>3. Reordered(b)[Place(b, k)] = b[k]
      BY ReorderedIs
    <3> QED BY <1>1, <1>4, <3>1, <3>2, <3>3
  <2> QED BY <2>1, <2>2
<1>6. t = Reordered(c)
  BY <1>1, <1>4, <1>5, ReorderedIsUnique
<1> QED BY <1>3, <1>6

LEMMA StartersGrow ==
    ASSUME NEW chars, NEW i \in Nat, NEW j \in Nat, i <= j
    PROVE  Starters(chars, i) <= Starters(chars, j)
<1> DEFINE In(k) == {m \in 1..k : Class(chars, m) = 0}
<1>1. In(i) \subseteq In(j) /\ Below(In(j), j)
  BY DEF Below
<1>2. Starters(chars, i) = Cardinality(In(i)) /\ Starters(chars, j) = Cardinality(In(j))
  BY StartersCounted
<1> HIDE DEF In
<1>3. IsFiniteSet(In(j))
  BY <1>1, FiniteBelow
<1> QED BY <1>1, <1>2, <1>3, FS_Subset

\* A starter counts itself.
LEMMA StarterCounts ==
    ASSUME NEW chars, NEW i \in Nat \ {0}, Class(chars, i) = 0
    PROVE  Starters(chars, i) # 0
<1> DEFINE In == {m \in 1..i : Class(chars, m) = 0}
<1>1. i \in In /\ Below(In, i)
  BY DEF Below
<1>2. Starters(chars, i) = Cardinality(In)
  BY StartersCounted
<1> HIDE DEF In
<1>3. IsFiniteSet(In)
  BY <1>1, FiniteBelow
<1> QED BY <1>1, <1>2, <1>3, FS_EmptySet

LEMMA JustSpace ==
    ASSUME Tables
    PROVE  /\ <<Space>> \in Seq(Chars) /\ Len(<<Space>>) = 1
           /\ Class(<<Space>>, 1) = 0 /\ Starters(<<Space>>, 1) = 1
           /\ Reordered(<<Space>>) = <<Space>>
<1>1. <<Space>> \in Seq(Chars) /\ Len(<<Space>>) = 1 /\ Class(<<Space>>, 1) = 0
  BY EncodingTypes DEF Class
<1>2. Starters(<<Space>>, 1) = 1
  <2>1. {j \in 1..1 : Class(<<Space>>, j) = 0} = {1}
    BY <1>1
  <2> QED BY <2>1, StartersCounted, FS_Singleton
<1>3. Reordered(<<Space>>) = <<Space>>
  <2>1. PICK space \in Seq(Chars) : space = <<Space>> /\ Len(space) = 1
    BY <1>1
  <2>2. \A i \in 1..Len(space) : Place(space, i) \in 1..Len(space)
    BY PlaceCounted
  <2>3. \A i \in 1..Len(space) : space[Place(space, i)] = space[i]
    BY <2>1, <2>2
  <2> QED BY <2>1, <2>3, ReorderedIsUnique
<1> QED BY <1>1, <1>2, <1>3

\* A space comes before all that follows it,
LEMMA SpaceInFront ==
    ASSUME Tables, NEW b \in Seq(Chars), NEW d, IsJoined(d, <<Space>>, b)
    PROVE  /\ InFront(d, <<Space>>, b)
           /\ \A j \in 1..Len(d) : Starters(d, j) >= 1
<1>1. PICK space \in Seq(Chars) :
         /\ space = <<Space>> /\ Len(space) = 1
         /\ Class(space, 1) = 0 /\ Starters(space, 1) = 1
  BY JustSpace
<1>2. IsJoined(d, space, b)
  BY <1>1
<1>3. /\ Class(d, 1) = 0 /\ Starters(d, 1) = 1
      /\ \A j \in 1..Len(b) : /\ Starters(d, 1 + j) = 1 + Starters(b, j)
                              /\ Class(d, 1 + j) = Class(b, j)
  <2>1. /\ \A i \in 1..Len(space) : Starters(d, i) = Starters(space, i)
        /\ \A i \in 1..Len(space) : Class(d, i) = Class(space, i)
        /\ \A j \in 1..Len(b) :
              /\ Starters(d, Len(space) + j)
                   = Starters(space, Len(space)) + Starters(b, j)
              /\ Class(d, Len(space) + j) = Class(b, j)
    BY <1>2, StartersJoined, ClassJoined
  <2> QED BY <1>1, <2>1
<1>4. ASSUME NEW j \in 1..Len(b) PROVE Precedes(d, 1, 1 + j)
  <2>1. j \in Nat \ {0} /\ Starters(b, j) \in Nat /\ Class(b, j) \in Nat
    BY PlaceTyped
  <2>2. Class(b, j) # 0 \/ Starters(b, j) # 0
    BY <2>1, StarterCounts
  <2> QED BY <1>3, <2>1, <2>2, PrecedesIs DEF Earlier
<1>5. InFront(d, space, b)
  BY <1>1, <1>4 DEF InFront
<1>6. ASSUME NEW j \in 1..Len(d) PROVE Starters(d, j) >= 1
  <2>1. j \in Nat /\ 1 <= j
    BY <1>2, JoinedAt
  <2> QED BY <1>3, <2>1, StartersGrow, StartersTyped
<1> QED BY <1>1, <1>5, <1>6

\* and all that precedes it comes before it.
LEMMA SpaceInBetween ==
    ASSUME Tables, NEW a \in Seq(Chars), NEW d \in Seq(Chars), NEW c, IsJoined(c, a, d),
           \A j \in 1..Len(d) : Starters(d, j) >= 1
    PROVE  InFront(c, a, d)
<1>1. SUFFICES ASSUME NEW i \in 1..Len(a), NEW j \in 1..Len(d)
               PROVE  Precedes(c, i, Len(a) + j)
  BY DEF InFront
<1>2. /\ Starters(c, i) = Starters(a, i)
      /\ Starters(c, Len(a) + j) = Starters(a, Len(a)) + Starters(d, j)
  BY StartersJoined
<1>3. Len(a) \in Nat /\ i \in Nat /\ i <= Len(a) /\ j \in Nat
  BY FinitePlaces
<1>4. /\ Starters(a, i) <= Starters(a, Len(a))
      /\ Starters(a, i) \in Nat /\ Starters(a, Len(a)) \in Nat
      /\ Starters(d, j) \in Nat /\ Starters(d, j) >= 1
  BY <1>3, StartersGrow, StartersTyped
<1> QED BY <1>2, <1>4, PrecedesIs DEF Earlier

LEMMA DecomposedIsSpelt ==
    ASSUME Tables
    PROVE  /\ Spells(Decomposition, Chars, Chars)
           /\ \A text : Decomposed(text) = Spelt(text, Decomposition)
<1>1. Spells(Decomposition, Chars, Chars)
  BY EncodingTypes DEF Spells
<1>2. \A text : Decomposed(text) = Spelt(text, Decomposition)
  BY DEF Decomposed, Spelt, Replaced
<1> QED BY <1>1, <1>2

LEMMA DecomposedConcat ==
    ASSUME Tables, NEW s \in Seq(Chars), NEW t \in Seq(Chars)
    PROVE  Decomposed(s \o t) = Decomposed(s) \o Decomposed(t)
<1>1. PICK letters : letters = Chars
  OBVIOUS
<1>2. Spells(Decomposition, Chars, letters)
  BY <1>1, DecomposedIsSpelt
<1>3. Spelt(s \o t, Decomposition) = Spelt(s, Decomposition) \o Spelt(t, Decomposition)
  BY <1>2, SpeltConcat
<1>4. /\ Decomposed(s \o t) = Spelt(s \o t, Decomposition)
      /\ Decomposed(s) = Spelt(s, Decomposition)
      /\ Decomposed(t) = Spelt(t, Decomposition)
  BY DecomposedIsSpelt
<1> QED BY <1>3, <1>4

LEMMA DecomposedSpace ==
    ASSUME Tables
    PROVE  Decomposed(<<Space>>) = <<Space>>
<1>1. PICK letters : letters = Chars
  OBVIOUS
<1>2. PICK none \in Seq(Chars) : none = <<>>
  BY EmptySeq
<1>3. Space \in Chars /\ Spells(Decomposition, Chars, letters)
  BY <1>1, EncodingTypes, DecomposedIsSpelt
<1>4. Spelt(Append(none, Space), Decomposition)
        = Spelt(none, Decomposition) \o Decomposition[Space]
  BY <1>3, SpeltAppend
<1>5. Spelt(none, Decomposition) = <<>> /\ Append(none, Space) = <<Space>>
  BY <1>2, SpeltEmpty
<1>6. <<>> \o <<Space>> = <<Space>>
  OBVIOUS
<1> QED BY <1>4, <1>5, <1>6, DecomposedIsSpelt, EncodingTypes

LEMMA NFDTyped ==
    ASSUME Tables, NEW text \in Seq(Chars)
    PROVE  NFD(text) \in Seq(Chars) /\ Decomposed(text) \in Seq(Chars)
<1>1. Decomposed(text) \in Seq(Chars)
  BY DecomposedIsSpelt, SpeltTyped
<1> QED BY <1>1, ReorderedIs DEF NFD

LEMMA NFDEmpty ==
    ASSUME Tables
    PROVE  NFD(<<>>) = <<>>
<1>1. Decomposed(<<>>) = <<>>
  BY DecomposedIsSpelt, SpeltEmpty
<1>2. PICK none \in Seq(Chars) : none = <<>> /\ Len(none) = 0
  BY EmptySeq
<1>3. Reordered(none) \in Seq(Chars) /\ Len(Reordered(none)) = 0
  BY <1>2, ReorderedIs
<1>4. Reordered(none) = <<>>
  BY <1>3, EmptySeq
<1> QED BY <1>1, <1>2, <1>4 DEF NFD

\* A mark never crosses a space.
LEMMA NFDAroundSpace ==
    ASSUME Tables, NEW x \in Seq(Chars), NEW y \in Seq(Chars)
    PROVE  NFD(x \o (<<Space>> \o y)) = NFD(x) \o (<<Space>> \o NFD(y))
<1>1. PICK space \in Seq(Chars) : space = <<Space>> /\ Reordered(space) = space
  BY JustSpace
<1>2. PICK a \in Seq(Chars), b \in Seq(Chars) :
         a = Decomposed(x) /\ b = Decomposed(y)
  BY NFDTyped
<1>3. PICK d \in Seq(Chars) : d = space \o b
  BY ConcatProperties
<1>4. PICK c \in Seq(Chars) : c = a \o d
  BY ConcatProperties
<1>5. Decomposed(x \o (space \o y)) = c
  <2>1. PICK z \in Seq(Chars) : z = space \o y
    BY ConcatProperties
  <2>2. Decomposed(space \o y) = Decomposed(space) \o Decomposed(y)
    BY DecomposedConcat
  <2>3. Decomposed(x \o z) = Decomposed(x) \o Decomposed(z)
    BY DecomposedConcat
  <2> QED BY <1>1, <1>2, <1>3, <1>4, <2>1, <2>2, <2>3, DecomposedSpace
<1>6. IsJoined(d, space, b) /\ IsJoined(c, a, d)
  BY <1>3, <1>4 DEF IsJoined
<1>7. InFront(d, space, b) /\ InFront(c, a, d)
  <2>1. InFront(d, space, b) /\ \A j \in 1..Len(d) : Starters(d, j) >= 1
    BY <1>1, <1>6, SpaceInFront
  <2> QED BY <1>6, <2>1, SpaceInBetween
<1>8. /\ Reordered(d) = Reordered(space) \o Reordered(b)
      /\ Reordered(c) = Reordered(a) \o Reordered(d)
  <2>1. /\ IsJoined(Reordered(d), Reordered(space), Reordered(b))
        /\ IsJoined(Reordered(c), Reordered(a), Reordered(d))
    BY <1>6, <1>7, ReorderedJoined
  <2> QED BY <2>1 DEF IsJoined
<1> QED BY <1>1, <1>2, <1>5, <1>8 DEF NFD

-----------------------------------------------------------------------------
(* Sentences in a row: the first as it is, the others with something in     *)
(* front.                                                                  *)

Framed(texts, first, later) ==
    [i \in DOMAIN texts |-> IF i = 1 THEN first[texts[i]] ELSE later[texts[i]]]

Laid(texts, first, later) == FlattenSeq(Framed(texts, first, later))

LEMMA FramedTyped ==
    ASSUME NEW X, NEW S, NEW first, NEW later, Spells(first, X, S), Spells(later, X, S),
           NEW texts \in Seq(X)
    PROVE  /\ Framed(texts, first, later) \in Seq(Seq(S))
           /\ Len(Framed(texts, first, later)) = Len(texts)
           /\ \A i \in 1..Len(texts) :
                 Framed(texts, first, later)[i]
                   = IF i = 1 THEN first[texts[i]] ELSE later[texts[i]]
<1>1. Len(texts) \in Nat /\ DOMAIN texts = 1..Len(texts)
  BY LenProperties
<1>2. \A i \in 1..Len(texts) : first[texts[i]] \in Seq(S) /\ later[texts[i]] \in Seq(S)
  BY ElementOfSeq DEF Spells
<1> QED BY <1>1, <1>2 DEF Framed

\* One sentence more lies behind those before it.
LEMMA LaidAppend ==
    ASSUME NEW X, NEW S, NEW first, NEW later, Spells(first, X, S), Spells(later, X, S),
           NEW texts \in Seq(X), NEW x \in X
    PROVE  /\ Laid(texts, first, later) \in Seq(S)
           /\ texts # <<>> =>
                 Laid(Append(texts, x), first, later) = Laid(texts, first, later) \o later[x]
<1>1. PICK longer \in Seq(X) : longer = Append(texts, x)
  BY AppendProperties
<1> DEFINE parts == Framed(texts, first, later)
           grown == Framed(longer, first, later)
<1>2. /\ Len(longer) = Len(texts) + 1
      /\ \A i \in 1..Len(texts) : longer[i] = texts[i]
      /\ longer[Len(texts) + 1] = x
      /\ Len(texts) \in Nat
  BY <1>1, AppendProperties, LenProperties
<1>3. /\ parts \in Seq(Seq(S)) /\ Len(parts) = Len(texts)
      /\ \A i \in 1..Len(texts) :
            parts[i] = IF i = 1 THEN first[texts[i]] ELSE later[texts[i]]
  BY FramedTyped
<1>4. /\ grown \in Seq(Seq(S)) /\ Len(grown) = Len(longer)
      /\ \A i \in 1..Len(longer) :
            grown[i] = IF i = 1 THEN first[longer[i]] ELSE later[longer[i]]
  BY FramedTyped
<1> HIDE DEF parts, grown
<1>5. PICK last \in Seq(S) : last = IF texts = <<>> THEN first[x] ELSE later[x]
  BY DEF Spells
<1>6. PICK more \in Seq(Seq(S)) : more = Append(parts, last)
  BY <1>3, <1>5, AppendProperties
<1>7. grown = more
  <2>1. /\ Len(more) = Len(texts) + 1
        /\ \A i \in 1..Len(texts) : more[i] = parts[i]
        /\ more[Len(texts) + 1] = last
    BY <1>3, <1>5, <1>6, AppendProperties
  <2>2. texts = <<>> <=> Len(texts) + 1 = 1
    BY <1>2, EmptySeq
  <2>3. ASSUME NEW i \in 1..(Len(texts) + 1) PROVE grown[i] = more[i]
    <3>1. grown[i] = IF i = 1 THEN first[longer[i]] ELSE later[longer[i]]
      BY <1>2, <1>4
    <3>2. CASE i = Len(texts) + 1
      BY <1>2, <1>5, <2>1, <2>2, <3>1, <3>2
    <3>3. CASE i \in 1..Len(texts)
      BY <1>2, <1>3, <2>1, <3>1, <3>3
    <3> QED BY <1>2, <3>2, <3>3
  <2> QED BY <1>2, <1>4, <1>6, <2>1, <2>3, SeqEqual
<1>8. /\ FlattenSeq(parts) \in Seq(S)
      /\ FlattenSeq(more) = FlattenSeq(parts) \o last
  BY <1>3, <1>6, FlattenNames, EspeakAssumptionHolds, EP!FlattenAppend
<1> QED BY <1>1, <1>5, <1>7, <1>8 DEF Laid, parts, grown

LEMMA LaidEmpty == \A first, later : Laid(<<>>, first, later) = <<>>
<1> TAKE first, later
<1>1. Framed(<<>>, first, later) = <<>>
  BY DEF Framed
<1>2. FlattenSeq(<<>>) = <<>>
  BY FlattenNames, EspeakAssumptionHolds, EP!FlattenSeqIsLast
<1> QED BY <1>1, <1>2 DEF Laid

\* A single sentence is laid as it is.
LEMMA LaidOne ==
    ASSUME NEW X, NEW S, NEW first, NEW later, Spells(first, X, S), Spells(later, X, S),
           NEW texts \in Seq(X), Len(texts) = 1
    PROVE  Laid(texts, first, later) = first[texts[1]]
<1>1. texts[1] \in X
  BY ElementOfSeq
<1>2. PICK own \in Seq(S) : own = first[texts[1]]
  BY <1>1 DEF Spells
<1>3. PICK none \in Seq(Seq(S)) : none = <<>> /\ Len(none) = 0
  BY EmptySeq
<1>4. PICK one \in Seq(Seq(S)) : one = Append(none, own)
  BY AppendProperties
<1>5. Framed(texts, first, later) = one
  <2>1. Len(one) = 1 /\ one[1] = own
    BY <1>3, <1>4, AppendProperties
  <2> DEFINE parts == Framed(texts, first, later)
  <2>2. /\ parts \in Seq(Seq(S)) /\ Len(parts) = Len(texts)
        /\ \A i \in 1..Len(texts) :
              parts[i] = IF i = 1 THEN first[texts[i]] ELSE later[texts[i]]
    BY ONLY Spells(first, X, S), Spells(later, X, S), texts \in Seq(X), FramedTyped
       DEF parts
  <2> HIDE DEF parts
  <2>3. Len(parts) = 1 /\ parts[1] = own
    BY <1>2, <2>2
  <2>4. parts = one
    BY <2>1, <2>2, <2>3, SeqEqual
  <2> QED BY <2>4 DEF parts
<1>6. FlattenSeq(one) = FlattenSeq(none) \o own
  BY <1>4, FlattenNames, EspeakAssumptionHolds, EP!FlattenAppend
<1>7. FlattenSeq(none) = <<>>
  <2>1. FlattenSeq(<<>>) = <<>>
    BY FlattenNames, EspeakAssumptionHolds, EP!FlattenSeqIsLast
  <2> QED BY <1>3, <2>1
<1>8. <<>> \o own = own
  BY ConcatEmptySeq
<1> QED BY <1>2, <1>5, <1>6, <1>7, <1>8 DEF Laid

LEMMA LaidTyped ==
    ASSUME NEW X, NEW S, NEW first, NEW later, Spells(first, X, S), Spells(later, X, S),
           NEW texts \in Seq(X)
    PROVE  Laid(texts, first, later) \in Seq(S)
<1>1. CASE X = {}
  <2>1. texts = <<>>
    BY <1>1, ElementOfSeq, EmptySeq
  <2> QED BY <2>1, LaidEmpty, EmptySeq
<1>2. CASE X # {}
  <2>1. PICK x \in X : TRUE
    BY <1>2
  <2> QED BY LaidAppend
<1> QED BY <1>1, <1>2

Phrases == Seq(Chars)
AsItIs == [text \in Phrases |-> text]
AfterSpace == [text \in Phrases |-> <<Space>> \o text]

LEMMA JoinIsLaid ==
    ASSUME Tables
    PROVE  /\ Spells(AsItIs, Phrases, Chars) /\ Spells(AfterSpace, Phrases, Chars)
           /\ \A texts \in Seq(Phrases) : /\ JoinSentences(texts) = Laid(texts, AsItIs, AfterSpace)
                                         /\ JoinSentences(texts) \in Phrases
<1>1. Spells(AsItIs, Phrases, Chars)
  BY DEF Spells, AsItIs, Phrases
<1>2. Spells(AfterSpace, Phrases, Chars)
  <2>1. PICK space \in Seq(Chars) : space = <<Space>>
    BY JustSpace
  <2>2. \A text \in Seq(Chars) : space \o text \in Seq(Chars)
    BY ConcatProperties
  <2> QED BY <2>1, <2>2 DEF Spells, AfterSpace, Phrases
<1>3. ASSUME NEW texts \in Seq(Phrases)
      PROVE  JoinSentences(texts) = Laid(texts, AsItIs, AfterSpace)
  <2>1. \A i \in DOMAIN texts : texts[i] \in Phrases
    BY ElementOfSeq, LenProperties
  <2>2. [i \in DOMAIN texts |-> IF i = 1 THEN texts[i] ELSE <<Space>> \o texts[i]]
          = Framed(texts, AsItIs, AfterSpace)
    BY <2>1 DEF Framed, AsItIs, AfterSpace
  <2> QED BY <2>2 DEF JoinSentences, Laid
<1>4. ASSUME NEW texts \in Seq(Phrases) PROVE Laid(texts, AsItIs, AfterSpace) \in Phrases
  BY <1>1, <1>2, LaidTyped DEF Phrases
<1> QED BY <1>1, <1>2, <1>3, <1>4

-----------------------------------------------------------------------------
(* The ids and the warnings of a text, by the map of the voice.            *)

IdsOf == [ch \in Chars |-> IF Has(ch) THEN map[ch] \o Sentinel(PAD) ELSE <<>>]

DroppedOf == [ch \in Chars |-> IF Has(ch) THEN <<>> ELSE <<ch>>]

\* The ids of a map.
LEMMA SentinelTyped ==
    ASSUME Tables, map \in Maps, NEW ch \in Chars
    PROVE  /\ Sentinel(ch) \in Seq(Int)
           /\ Has(ch) => map[ch] \in Seq(Int)
<1>1. map \in [DOMAIN map -> Seq(Int)]
  BY EncodingTypes
<1>2. Has(ch) => map[ch] \in Seq(Int)
  BY <1>1 DEF Has
<1>3. <<0>> \in Seq(Int)
  OBVIOUS
<1> QED BY <1>2, <1>3 DEF Sentinel

LEMMA IdsSpelt ==
    ASSUME Tables, map \in Maps
    PROVE  /\ Spells(IdsOf, Chars, Int)
           /\ \A text \in Phrases : Body(text) = Spelt(text, IdsOf)
<1>1. Sentinel(PAD) \in Seq(Int)
  BY EncodingTypes, SentinelTyped
<1>2. ASSUME NEW ch \in Chars PROVE IdsOf[ch] \in Seq(Int)
  <2>1. CASE Has(ch)
    <3>1. PICK pad \in Seq(Int) : pad = Sentinel(PAD)
      BY <1>1
    <3>2. PICK own \in Seq(Int) : own = map[ch]
      BY <2>1, SentinelTyped
    <3>3. own \o pad \in Seq(Int)
      BY ConcatProperties
    <3> QED BY <2>1, <3>1, <3>2, <3>3 DEF IdsOf
  <2>2. CASE ~Has(ch)
    BY <2>2, EmptySeq DEF IdsOf
  <2> QED BY <2>1, <2>2
<1>3. Spells(IdsOf, Chars, Int)
  <2>1. IdsOf = [ch \in Chars |-> IdsOf[ch]]
    BY DEF IdsOf
  <2> HIDE DEF IdsOf
  <2> QED BY <1>2, <2>1 DEF Spells
<1>4. ASSUME NEW text \in Phrases PROVE Body(text) = Spelt(text, IdsOf)
  <2>1. \A i \in DOMAIN text : text[i] \in Chars
    BY ElementOfSeq, LenProperties DEF Phrases
  <2>2. [i \in DOMAIN text |->
           IF Has(text[i]) THEN map[text[i]] \o Sentinel(PAD) ELSE <<>>]
          = Replaced(text, IdsOf)
    BY <2>1 DEF Replaced, IdsOf
  <2> QED BY <2>2 DEF Body, Spelt
<1> QED BY <1>3, <1>4

LEMMA DroppedSpelt ==
    ASSUME Tables
    PROVE  /\ Spells(DroppedOf, Chars, Chars)
           /\ \A text \in Phrases : Unmapped(text) = Spelt(text, DroppedOf)
<1>1. ASSUME NEW ch \in Chars PROVE DroppedOf[ch] \in Seq(Chars)
  BY EmptySeq DEF DroppedOf
<1>2. Spells(DroppedOf, Chars, Chars)
  <2>1. DroppedOf = [ch \in Chars |-> DroppedOf[ch]]
    BY DEF DroppedOf
  <2> HIDE DEF DroppedOf
  <2> QED BY <1>1, <2>1 DEF Spells
<1>3. ASSUME NEW text \in Phrases PROVE Unmapped(text) = Spelt(text, DroppedOf)
  <2>1. \A i \in DOMAIN text : text[i] \in Chars
    BY ElementOfSeq, LenProperties DEF Phrases
  <2>2. [i \in DOMAIN text |-> IF Has(text[i]) THEN <<>> ELSE <<text[i]>>]
          = Replaced(text, DroppedOf)
    BY <2>1 DEF Replaced, DroppedOf
  <2> QED BY <2>2 DEF Unmapped, Spelt
<1> QED BY <1>2, <1>3

Alerts == {"MissingSentinel", "UnmappedPhoneme"} \X Chars

\* A warning more for a character more.
LEMMA WarnedOfOneMore ==
    ASSUME Tables, NEW kind \in {"MissingSentinel", "UnmappedPhoneme"},
           NEW chars \in Phrases
    PROVE  /\ Warn(kind, chars) \in Seq(Alerts)
           /\ \A ch \in Chars :
                 Warn(kind, Append(chars, ch)) = Append(Warn(kind, chars), <<kind, ch>>)
<1> DEFINE Of(text) == Warn(kind, text)
<1>1. ASSUME NEW text \in Phrases
      PROVE  /\ Of(text) \in Seq(Alerts) /\ Len(Of(text)) = Len(text)
             /\ \A i \in 1..Len(text) : Of(text)[i] = <<kind, text[i]>>
  <2>1. Len(text) \in Nat /\ DOMAIN text = 1..Len(text)
    BY LenProperties DEF Phrases
  <2>2. \A i \in 1..Len(text) : <<kind, text[i]>> \in Alerts
    BY ElementOfSeq DEF Phrases, Alerts
  <2> QED BY <2>1, <2>2 DEF Warn
<1> HIDE DEF Of
<1>2. ASSUME NEW ch \in Chars PROVE Of(Append(chars, ch)) = Append(Of(chars), <<kind, ch>>)
  <2>1. PICK alert \in Alerts : alert = <<kind, ch>>
    BY DEF Alerts
  <2>2. PICK text \in Phrases : text = Append(chars, ch)
    BY AppendProperties DEF Phrases
  <2>3. /\ Len(text) = Len(chars) + 1 /\ Len(chars) \in Nat
        /\ \A i \in 1..Len(chars) : text[i] = chars[i]
        /\ text[Len(chars) + 1] = ch
    BY <2>2, AppendProperties, LenProperties DEF Phrases
  <2>4. PICK more \in Seq(Alerts) : more = Append(Of(chars), alert)
    BY <1>1, AppendProperties
  <2>5. /\ Len(more) = Len(chars) + 1
        /\ \A i \in 1..Len(chars) : more[i] = Of(chars)[i]
        /\ more[Len(chars) + 1] = alert
    BY <1>1, <2>4, AppendProperties
  <2>6. ASSUME NEW i \in 1..(Len(chars) + 1) PROVE Of(text)[i] = more[i]
    <3>1. Of(text)[i] = <<kind, text[i]>>
      BY <1>1, <2>3
    <3>2. CASE i = Len(chars) + 1
      BY <2>1, <2>3, <2>5, <3>1, <3>2
    <3>3. CASE i \in 1..Len(chars)
      BY <1>1, <2>3, <2>5, <3>1, <3>3
    <3> QED BY <2>3, <3>2, <3>3
  <2>7. Of(text) = more
    BY <1>1, <2>3, <2>5, <2>6, SeqEqual
  <2> QED BY <2>1, <2>2, <2>4, <2>7
<1> QED BY <1>1, <1>2 DEF Of

LEMMA SentinelsWarnedOf ==
    ASSUME Tables
    PROVE  MissingSentinels \in Seq(Alerts)
<1>1. PICK sentinels \in Phrases : sentinels = <<BOS, PAD, EOS>>
  <2>1. BOS \in Chars /\ PAD \in Chars /\ EOS \in Chars
    BY EncodingTypes
  <2>2. <<BOS, PAD, EOS>> \in Seq(Chars)
    BY <2>1
  <2> QED BY <2>2 DEF Phrases
<1>2. Unmapped(sentinels) \in Phrases
  BY DroppedSpelt, SpeltTyped DEF Phrases
<1> QED BY <1>1, <1>2, WarnedOfOneMore DEF MissingSentinels

-----------------------------------------------------------------------------
(* The encoding, step by step: what was seen of the text and what is left.  *)

Text == NFD(JoinSentences(sentences))

SoFar(seen) == Sentinel(BOS) \o Body(seen)

WarnedOf(seen) ==
    MissingSentinels \o Warn("UnmappedPhoneme", Unmapped(seen))

Encoding ==
    /\ map \in Maps
    /\ sentences \in Seq(Phrases)
    /\ pc \in {"loop", "done"} =>
          \E seen \in Phrases :
             /\ rest \in Phrases
             /\ Text = seen \o rest
             /\ warnings = WarnedOf(seen)
             /\ pc = "loop" => ids = SoFar(seen)
             /\ pc = "done" => rest = <<>> /\ ids = SoFar(seen) \o Sentinel(EOS)

\* What a step leaves alone leaves these alone.
LEMMA SameMap ==
    ASSUME map' = map
    PROVE  /\ \A seen \in Phrases : SoFar(seen)' = SoFar(seen) /\ WarnedOf(seen)' = WarnedOf(seen)
           /\ Sentinel(EOS)' = Sentinel(EOS)
<1>1. ASSUME NEW text \in Phrases
      PROVE  Body(text)' = Body(text) /\ Unmapped(text)' = Unmapped(text)
  BY DEF Body, Unmapped, Has, Sentinel
<1>2. \A ch : Sentinel(ch)' = Sentinel(ch)
  BY DEF Has, Sentinel
<1>3. MissingSentinels' = MissingSentinels
  BY DEF MissingSentinels, Unmapped, Has
<1> QED BY <1>1, <1>2, <1>3 DEF SoFar, WarnedOf

LEMMA SameText ==
    ASSUME sentences' = sentences
    PROVE  Text' = Text
BY DEF Text

\* One character more of the text.
LEMMA OneMoreSeen ==
    ASSUME NEW seen \in Phrases, rest \in Phrases, rest # <<>>
    PROVE  /\ Head(rest) \in Chars /\ Tail(rest) \in Phrases
           /\ Append(seen, Head(rest)) \in Phrases
           /\ Append(seen, Head(rest)) \o Tail(rest) = seen \o rest
<1>1. PICK ch \in Chars, left \in Phrases : ch = Head(rest) /\ left = Tail(rest)
  BY HeadTailProperties DEF Phrases
<1>2. PICK one \in Phrases : one = <<ch>>
  <2>1. <<ch>> \in Seq(Chars)
    OBVIOUS
  <2> QED BY <2>1 DEF Phrases
<1>3. rest = one \o left
  <2>1. /\ Len(left) = Len(rest) - 1 /\ Len(rest) \in Nat /\ rest[1] = ch
        /\ \A i \in 1..Len(left) : left[i] = rest[i + 1]
    BY <1>1, HeadTailProperties, LenProperties DEF Phrases
  <2>2. Len(one) = 1 /\ one[1] = ch
    BY <1>2
  <2>3. PICK whole \in Phrases : whole = one \o left
    BY ConcatProperties DEF Phrases
  <2>4. /\ Len(whole) = 1 + Len(left)
        /\ \A i \in 1..(1 + Len(left)) : whole[i] = IF i <= 1 THEN one[i] ELSE left[i - 1]
    <3>1. one \in Seq(Chars) /\ left \in Seq(Chars)
      BY DEF Phrases
    <3>2. /\ Len(one \o left) = Len(one) + Len(left)
          /\ \A i \in 1..(Len(one) + Len(left)) :
                (one \o left)[i] = IF i <= Len(one) THEN one[i] ELSE left[i - Len(one)]
      BY <3>1, ConcatProperties
    <3> QED BY <2>2, <2>3, <3>2
  <2>5. ASSUME NEW i \in 1..Len(rest) PROVE whole[i] = rest[i]
    <3>1. CASE i = 1
      BY <2>1, <2>2, <2>4, <3>1
    <3>2. CASE i # 1
      <4>1. i - 1 \in 1..Len(left) /\ (i - 1) + 1 = i
        BY <2>1, <3>2
      <4> QED BY <2>1, <2>4, <4>1
    <3> QED BY <3>1, <3>2
  <2>6. whole \in Seq(Chars) /\ rest \in Seq(Chars) /\ Len(whole) = Len(rest)
    BY <2>1, <2>4, LenProperties DEF Phrases
  <2>7. whole = rest
    BY <2>5, <2>6, SeqEqual
  <2> QED BY <2>3, <2>7
<1>4. PICK grown \in Phrases : grown = Append(seen, ch) /\ grown = seen \o one
  BY <1>2, AppendProperties, AppendIsConcat DEF Phrases
<1>5. (seen \o one) \o left = seen \o (one \o left)
  BY ConcatAssociative DEF Phrases
<1> QED BY <1>1, <1>3, <1>4, <1>5

IdSeqs == Seq(Int)

Associate(a, b, c) == (a \o b) \o c = a \o (b \o c)

LEMMA IdSeqsJoin ==
    ASSUME NEW a \in IdSeqs, NEW b \in IdSeqs, NEW c \in IdSeqs
    PROVE  a \o b \in IdSeqs /\ Associate(a, b, c)
<1>1. a \o b \in IdSeqs
  BY ConcatProperties DEF IdSeqs
<1>2. OverSet(Int, a, b, c)
  BY DEF OverSet, IdSeqs
<1> QED BY <1>1, <1>2, Regrouped DEF Associate

\* What a character more does to the ids and to the warnings.
LEMMA SeenGrows ==
    ASSUME Tables, map \in Maps, NEW seen \in Phrases, NEW ch \in Chars
    PROVE  /\ SoFar(Append(seen, ch)) =
                IF Has(ch) THEN (SoFar(seen) \o map[ch]) \o Sentinel(PAD)
                ELSE SoFar(seen)
           /\ WarnedOf(Append(seen, ch)) =
                IF Has(ch) THEN WarnedOf(seen)
                ELSE Append(WarnedOf(seen), <<"UnmappedPhoneme", ch>>)
<1>1. PICK grown \in Phrases : grown = Append(seen, ch)
  BY AppendProperties DEF Phrases
<1>2. PICK bos \in IdSeqs, pad \in IdSeqs :
         bos = Sentinel(BOS) /\ pad = Sentinel(PAD)
  BY EncodingTypes, SentinelTyped DEF IdSeqs
<1>3. PICK body \in IdSeqs : body = Body(seen)
  BY IdsSpelt, SpeltTyped DEF Phrases, IdSeqs
<1>4. Body(grown) = body \o IdsOf[ch]
  <2>1. Spelt(Append(seen, ch), IdsOf) = Spelt(seen, IdsOf) \o IdsOf[ch]
    BY IdsSpelt, SpeltAppend DEF Phrases
  <2> QED BY <1>1, <1>3, <2>1, IdsSpelt
<1>5. SoFar(grown) = IF Has(ch) THEN (SoFar(seen) \o map[ch]) \o Sentinel(PAD)
                     ELSE SoFar(seen)
  <2>1. CASE Has(ch)
    <3>1. PICK own \in IdSeqs : own = map[ch]
      BY <2>1, SentinelTyped DEF IdSeqs
    <3>2. IdsOf[ch] = own \o pad
      BY <1>2, <2>1, <3>1 DEF IdsOf
    <3>3. PICK front \in IdSeqs : front = bos \o body
      BY IdSeqsJoin
    <3>4. PICK both \in IdSeqs : both = own \o pad
      BY IdSeqsJoin
    <3>5. Associate(bos, body, both)
      BY IdSeqsJoin
    <3>6. Associate(front, own, pad)
      BY IdSeqsJoin
    <3> QED BY <1>2, <1>3, <1>4, <2>1, <3>1, <3>2, <3>3, <3>4, <3>5, <3>6
          DEF SoFar, Associate
  <2>2. CASE ~Has(ch)
    <3>1. IdsOf[ch] = <<>> /\ body \o <<>> = body
      BY <2>2, ConcatEmptySeq DEF IdsOf, IdSeqs
    <3> QED BY <1>3, <1>4, <2>2, <3>1 DEF SoFar
  <2> QED BY <2>1, <2>2
<1>6. PICK dropped \in Phrases : dropped = Unmapped(seen)
  BY DroppedSpelt, SpeltTyped DEF Phrases
<1>7. Unmapped(grown) = dropped \o DroppedOf[ch]
  <2>1. Spelt(Append(seen, ch), DroppedOf) = Spelt(seen, DroppedOf) \o DroppedOf[ch]
    BY DroppedSpelt, SpeltAppend DEF Phrases
  <2> QED BY <1>1, <1>6, <2>1, DroppedSpelt
<1>8. WarnedOf(grown) = IF Has(ch) THEN WarnedOf(seen)
                        ELSE Append(WarnedOf(seen), <<"UnmappedPhoneme", ch>>)
  <2>1. CASE Has(ch)
    <3>1. DroppedOf[ch] = <<>> /\ dropped \o <<>> = dropped
      BY <2>1, ConcatEmptySeq DEF DroppedOf, Phrases
    <3> QED BY <1>6, <1>7, <2>1, <3>1 DEF WarnedOf
  <2>2. CASE ~Has(ch)
    <3>1. DroppedOf[ch] = <<ch>>
      BY <2>2 DEF DroppedOf
    <3>2. dropped \o <<ch>> = Append(dropped, ch)
      BY AppendIsConcat DEF Phrases
    <3>3. PICK alert \in Alerts : alert = <<"UnmappedPhoneme", ch>>
      BY DEF Alerts
    <3>4. PICK missing \in Seq(Alerts), warned \in Seq(Alerts) :
             missing = MissingSentinels /\ warned = Warn("UnmappedPhoneme", dropped)
      BY SentinelsWarnedOf, WarnedOfOneMore
    <3>5. Warn("UnmappedPhoneme", Append(dropped, ch)) = Append(warned, alert)
      BY <3>3, <3>4, WarnedOfOneMore
    <3>6. missing \o Append(warned, alert) = Append(missing \o warned, alert)
      BY EspeakAssumptionHolds, EP!ConcatAppend
    <3> QED BY <1>6, <1>7, <2>2, <3>1, <3>2, <3>3, <3>4, <3>5, <3>6 DEF WarnedOf
  <2> QED BY <2>1, <2>2
<1> QED BY <1>1, <1>5, <1>8

-----------------------------------------------------------------------------
(* Loops.  Loop is a recursive function, chosen by CHOOSE: that there is    *)
(* one, and what each turn of it keeps, are inductions over its items.      *)

\* The states of a loop over n items, from base on.
Turns(f, step, base, items, n) ==
    f[0] = base /\ \A i \in 1..n : f[i] = step[<<f[i - 1], items[i]>>]

LEMMA LoopRuns ==
    ASSUME NEW S, NEW X, NEW step \in [S \X X -> S], NEW base \in S, NEW items \in Seq(X)
    PROVE  \E f \in [0..Len(items) -> S] : Turns(f, step, base, items, Len(items))
<1> DEFINE Runs(n) == \E f \in [0..n -> S] : Turns(f, step, base, items, n)
           Good == {n \in Nat : n <= Len(items) => Runs(n)}
<1>0. Len(items) \in Nat /\ \A i \in 1..Len(items) : items[i] \in X
  BY LenProperties, ElementOfSeq
<1>1. 0 \in Good
  <2>1. [i \in 0..0 |-> base] \in [0..0 -> S] /\ Turns([i \in 0..0 |-> base], step, base, items, 0)
    BY DEF Turns
  <2> QED BY <2>1
<1>2. ASSUME NEW n \in Good PROVE n + 1 \in Good
  <2>1. SUFFICES ASSUME n + 1 <= Len(items) PROVE Runs(n + 1)
    OBVIOUS
  <2>2. PICK f \in [0..n -> S] : Turns(f, step, base, items, n)
    BY <1>0, <2>1
  <2>3. PICK e \in S : e = step[<<f[n], items[n + 1]>>]
    BY <1>0, <2>1
  <2> DEFINE g == [i \in 0..(n + 1) |-> IF i = n + 1 THEN e ELSE f[i]]
  <2>4. g \in [0..(n + 1) -> S]
    OBVIOUS
  <2>5. /\ g[0] = f[0] /\ g[n + 1] = e /\ g[n] = f[n]
        /\ \A i \in 1..n : g[i] = f[i] /\ g[i - 1] = f[i - 1]
    OBVIOUS
  <2> HIDE DEF g
  <2>6. Turns(g, step, base, items, n + 1)
    <3>1. ASSUME NEW i \in 1..(n + 1) PROVE g[i] = step[<<g[i - 1], items[i]>>]
      <4>1. CASE i = n + 1
        <5>1. i - 1 = n
          BY <4>1
        <5> QED BY <2>3, <2>5, <4>1, <5>1
      <4>2. CASE i \in 1..n
        BY <2>2, <2>5, <4>2 DEF Turns
      <4> QED BY <3>1, <4>1, <4>2
    <3> QED BY <2>2, <2>5, <3>1 DEF Turns
  <2> QED BY <2>4, <2>6
<1>3. Good = Nat
  <2>1. Good \subseteq Nat
    OBVIOUS
  <2> HIDE DEF Good
  <2> QED BY <1>1, <1>2, <2>1, EspeakAssumptionHolds, EP!SetInduction
<1> HIDE DEF Runs
<1>4. Runs(Len(items))
  BY <1>0, <1>3
<1> QED BY <1>4 DEF Runs

\* What holds before the first turn, and after a turn if it held before, holds
\* at the end.
LEMMA LoopKeeps ==
    ASSUME NEW len \in Nat, NEW f, NEW good, f[0] \in good[0],
           \A n \in 1..len : f[n - 1] \in good[n - 1] => f[n] \in good[n]
    PROVE  \A n \in 0..len : f[n] \in good[n]
<1> DEFINE Fine == {n \in Nat : n <= len => f[n] \in good[n]}
<1>1. 0 \in Fine
  OBVIOUS
<1>2. ASSUME NEW n \in Fine PROVE n + 1 \in Fine
  <2>1. SUFFICES ASSUME n + 1 <= len PROVE f[n + 1] \in good[n + 1]
    OBVIOUS
  <2>2. n + 1 \in 1..len /\ (n + 1) - 1 = n /\ f[n] \in good[n]
    BY <2>1
  <2> QED BY <2>2
<1>3. Fine = Nat
  <2>1. Fine \subseteq Nat
    OBVIOUS
  <2> HIDE DEF Fine
  <2> QED BY <1>1, <1>2, <2>1, EspeakAssumptionHolds, EP!SetInduction
<1> QED BY <1>3

\* Two loops that start alike and go on alike are the same.
LEMMA LoopsAgree ==
    ASSUME NEW len \in Nat, NEW f, NEW g, f[0] = g[0],
           \A n \in 1..len : f[n - 1] = g[n - 1] => f[n] = g[n]
    PROVE  f[len] = g[len]
<1> DEFINE good == [n \in 0..len |-> {g[n]}]
<1>1. \A n \in 0..len : good[n] = {g[n]}
  OBVIOUS
<1> HIDE DEF good
<1>2. f[0] \in good[0]
  BY <1>1
<1>3. ASSUME NEW n \in 1..len, f[n - 1] \in good[n - 1] PROVE f[n] \in good[n]
  <2>1. n - 1 \in 0..len /\ n \in 0..len
    OBVIOUS
  <2> QED BY <1>1, <1>3, <2>1
<1>4. \A n \in 0..len : f[n] \in good[n]
  BY <1>2, <1>3, LoopKeeps
<1> QED BY <1>1, <1>4

-----------------------------------------------------------------------------
(* strip_lang_switches.                                                     *)

Stripping(S) == [out : Seq(S), depth : Nat]

NothingStripped == [out |-> <<>>, depth |-> 0]

IsStrip(f, text) ==
    f = [n \in 0..Len(text) |-> IF n = 0 THEN NothingStripped
                                ELSE StripChar(f[n - 1], text[n])]

LEMMA StripIs ==
    ASSUME NEW text
    PROVE  StripLangSwitches(text) = (CHOOSE f : IsStrip(f, text))[Len(text)].out
BY DEF StripLangSwitches, Loop, IsStrip, NothingStripped

LEMMA StripCharTyped ==
    ASSUME NEW S, NEW acc \in Stripping(S), NEW ch \in S
    PROVE  /\ StripChar(acc, ch) \in Stripping(S)
           /\ ch = "(" => StripChar(acc, ch) = [out |-> acc.out, depth |-> acc.depth + 1]
           /\ ch = ")" => StripChar(acc, ch) =
                 [out |-> acc.out, depth |-> IF acc.depth = 0 THEN 0 ELSE acc.depth - 1]
           /\ ch \notin {"(", ")"} => StripChar(acc, ch) =
                 [out |-> IF acc.depth = 0 THEN Append(acc.out, ch) ELSE acc.out,
                  depth |-> acc.depth]
<1>1. CASE ch = "("
  BY <1>1 DEF StripChar, Stripping
<1>2. CASE ch = ")"
  BY <1>2 DEF StripChar, Stripping
<1>3. CASE ch \notin {"(", ")"}
  <2>1. Append(acc.out, ch) \in Seq(S)
    BY AppendProperties DEF Stripping
  <2> QED BY <1>3, <2>1 DEF StripChar, Stripping
<1> QED BY <1>1, <1>2, <1>3

LEMMA StripCharFields ==
    ASSUME NEW S, NEW acc \in Stripping(S), NEW ch \in S
    PROVE  /\ StripChar(acc, ch).depth = IF ch = "(" THEN acc.depth + 1
                                        ELSE IF ch = ")"
                                             THEN IF acc.depth = 0 THEN 0 ELSE acc.depth - 1
                                        ELSE acc.depth
           /\ StripChar(acc, ch).out = IF ch \in {"(", ")"} \/ acc.depth # 0 THEN acc.out
                                      ELSE Append(acc.out, ch)
<1>1. CASE ch = "("
  BY <1>1, StripCharTyped
<1>2. CASE ch = ")"
  BY <1>2, StripCharTyped
<1>3. CASE ch \notin {"(", ")"}
  <2>1. StripChar(acc, ch) =
           [out |-> IF acc.depth = 0 THEN Append(acc.out, ch) ELSE acc.out,
            depth |-> acc.depth]
    BY <1>3, StripCharTyped
  <2>2. ch # "(" /\ ch # ")"
    BY <1>3
  <2> QED BY <2>1, <2>2
<1> QED BY <1>1, <1>2, <1>3

\* The states of the loop.
LEMMA StripRuns ==
    ASSUME NEW S, NEW text \in Seq(S)
    PROVE  \E f \in [0..Len(text) -> Stripping(S)] :
              /\ f[0] = NothingStripped
              /\ \A n \in 1..Len(text) : f[n] = StripChar(f[n - 1], text[n])
              /\ StripLangSwitches(text) = f[Len(text)].out
<1> DEFINE f == CHOOSE g : IsStrip(g, text)
           step == [p \in Stripping(S) \X S |-> StripChar(p[1], p[2])]
<1>0. Len(text) \in Nat /\ \A i \in 1..Len(text) : text[i] \in S
  BY LenProperties, ElementOfSeq
<1>1. NothingStripped \in Stripping(S)
  BY EmptySeq DEF NothingStripped, Stripping
<1>2. step \in [Stripping(S) \X S -> Stripping(S)]
  BY StripCharTyped
<1>3. \A acc \in Stripping(S), ch \in S : step[<<acc, ch>>] = StripChar(acc, ch)
  OBVIOUS
<1> HIDE DEF step
<1>4. PICK g \in [0..Len(text) -> Stripping(S)] :
         Turns(g, step, NothingStripped, text, Len(text))
  BY <1>1, <1>2, LoopRuns
<1>5. ASSUME NEW n \in 0..Len(text)
      PROVE  g[n] = IF n = 0 THEN NothingStripped ELSE StripChar(g[n - 1], text[n])
  <2>1. CASE n = 0
    BY <1>4, <2>1 DEF Turns
  <2>2. CASE n \in 1..Len(text)
    <3>1. g[n] = step[<<g[n - 1], text[n]>>] /\ n # 0 /\ n - 1 \in 0..Len(text)
      BY <1>0, <1>4, <2>2 DEF Turns
    <3> QED BY <1>0, <1>3, <2>2, <3>1
  <2> QED BY <1>0, <2>1, <2>2
<1>6. IsStrip(g, text)
  <2>1. g = [n \in 0..Len(text) |-> g[n]]
    OBVIOUS
  <2> QED BY <1>5, <2>1, Zenon DEF IsStrip
<1>7. IsStrip(f, text)
  BY <1>6, Zenon
<1>8. f[Len(text)].out = StripLangSwitches(text)
  BY StripIs
<1> HIDE DEF f
<1>9. f[0] = NothingStripped /\ \A n \in 1..Len(text) : f[n] = StripChar(f[n - 1], text[n])
  BY <1>0, <1>7 DEF IsStrip
<1>10. g[0] = NothingStripped /\ \A n \in 1..Len(text) : g[n] = StripChar(g[n - 1], text[n])
  BY <1>0, <1>5
<1>11. f[Len(text)] = g[Len(text)]
  <2>1. f[0] = g[0] /\ \A n \in 1..Len(text) : f[n - 1] = g[n - 1] => f[n] = g[n]
    BY <1>9, <1>10
  <2> QED BY <1>0, <2>1, LoopsAgree
<1> QED BY <1>8, <1>10, <1>11

\* The first n + 1 parts, put together, are the first n and one more.
LEMMA FlattenPrefix ==
    ASSUME NEW S, NEW n \in Nat, NEW p, \A i \in 1..(n + 1) : p[i] \in Seq(S)
    PROVE  /\ FlattenSeq([i \in 1..n |-> p[i]]) \in Seq(S)
           /\ FlattenSeq([i \in 1..(n + 1) |-> p[i]])
                = FlattenSeq([i \in 1..n |-> p[i]]) \o p[n + 1]
<1> DEFINE some == [i \in 1..n |-> p[i]]
           more == [i \in 1..(n + 1) |-> p[i]]
<1>1. /\ some \in Seq(Seq(S)) /\ Len(some) = n /\ \A i \in 1..n : some[i] = p[i]
      /\ more \in Seq(Seq(S)) /\ Len(more) = n + 1 /\ \A i \in 1..(n + 1) : more[i] = p[i]
  OBVIOUS
<1> HIDE DEF some, more
<1>2. PICK x \in Seq(S) : x = p[n + 1]
  OBVIOUS
<1>3. PICK grown \in Seq(Seq(S)) : grown = Append(some, x)
  BY <1>1, AppendProperties
<1>4. /\ Len(grown) = n + 1 /\ grown[n + 1] = x
      /\ \A i \in 1..n : grown[i] = some[i]
  BY <1>1, <1>3, AppendProperties
<1>5. ASSUME NEW i \in 1..(n + 1) PROVE grown[i] = more[i]
  <2>1. CASE i = n + 1
    BY <1>1, <1>2, <1>4, <2>1
  <2>2. CASE i \in 1..n
    BY <1>1, <1>4, <2>2
  <2> QED BY <2>1, <2>2
<1>6. grown = more
  BY <1>1, <1>3, <1>4, <1>5, SeqEqual
<1>7. FlattenSeq(some) \in Seq(S) /\ FlattenSeq(Append(some, x)) = FlattenSeq(some) \o x
  BY <1>1, FlattenNames, EspeakAssumptionHolds, EP!FlattenAppend
<1> QED BY <1>2, <1>3, <1>6, <1>7 DEF some, more

LEMMA FlattenNone == FlattenSeq(<<>>) = <<>>
BY FlattenNames, EspeakAssumptionHolds, EP!FlattenSeqIsLast

LEMMA CountGrows ==
    ASSUME NEW text, NEW C, NEW n \in Nat, NEW j \in 1..(n + 1)
    PROVE  /\ Count(text, C, j, n) \in Nat
           /\ Count(text, C, j, n + 1)
                = Count(text, C, j, n) + (IF text[n + 1] \in C THEN 1 ELSE 0)
           /\ j = n + 1 => Count(text, C, j, n) = 0
<1> DEFINE A == {k \in j..n : text[k] \in C}
           B == {k \in j..(n + 1) : text[k] \in C}
<1>1. IsFiniteSet(j..n)
  BY FS_Interval
<1>2. IsFiniteSet(A) /\ Cardinality(A) \in Nat
  <2>1. A \subseteq j..n
    OBVIOUS
  <2> HIDE DEF A
  <2> QED BY <1>1, <2>1, FS_Subset, FS_CardinalityType
<1>3. Count(text, C, j, n) = Cardinality(A) /\ Count(text, C, j, n + 1) = Cardinality(B)
  BY DEF Count
<1>4. j = n + 1 => Cardinality(A) = 0
  <2>1. j = n + 1 => A = {}
    OBVIOUS
  <2> HIDE DEF A
  <2> QED BY <2>1, FS_EmptySet
<1>5. Count(text, C, j, n) \in Nat /\ (j = n + 1 => Count(text, C, j, n) = 0)
  <2> HIDE DEF A, B
  <2> QED BY <1>2, <1>3, <1>4
<1>6. CASE text[n + 1] \in C
  <2>1. B = A \cup {n + 1} /\ n + 1 \notin A
    BY <1>6
  <2> HIDE DEF A, B
  <2>2. Cardinality(B) = Cardinality(A) + 1
    BY <1>2, <2>1, FS_AddElement
  <2> QED BY <1>2, <1>3, <1>5, <1>6, <2>2
<1>7. CASE text[n + 1] \notin C
  <2>1. B = A
    BY <1>7
  <2> HIDE DEF A, B
  <2> QED BY <1>2, <1>3, <1>5, <1>7, <2>1
<1> QED BY <1>6, <1>7

\* How many more parentheses of text[j..n] open than close.
Excess(text, j, n) == Count(text, {"("}, j, n) - Count(text, {")"}, j, n)

\* The depth of the loop after n characters is the largest excess of those that
\* end there, or 0.
DepthIs(text, n, depth) ==
    /\ \A j \in 1..n : Excess(text, j, n) <= depth
    /\ depth = 0 \/ \E j \in 1..n : Excess(text, j, n) = depth

LEMMA ExcessGrows ==
    ASSUME NEW text, NEW n \in Nat, NEW j \in 1..(n + 1)
    PROVE  /\ Excess(text, j, n) \in Int
           /\ Excess(text, j, n + 1) = Excess(text, j, n)
                + (IF text[n + 1] = "(" THEN 1 ELSE IF text[n + 1] = ")" THEN -1 ELSE 0)
           /\ j = n + 1 => Excess(text, j, n) = 0
<1>1. /\ Count(text, {"("}, j, n) \in Nat /\ Count(text, {")"}, j, n) \in Nat
      /\ Count(text, {"("}, j, n + 1)
            = Count(text, {"("}, j, n) + (IF text[n + 1] = "(" THEN 1 ELSE 0)
      /\ Count(text, {")"}, j, n + 1)
            = Count(text, {")"}, j, n) + (IF text[n + 1] = ")" THEN 1 ELSE 0)
      /\ j = n + 1 => Count(text, {"("}, j, n) = 0 /\ Count(text, {")"}, j, n) = 0
  <2>1. \A C : /\ Count(text, C, j, n) \in Nat
               /\ Count(text, C, j, n + 1)
                    = Count(text, C, j, n) + (IF text[n + 1] \in C THEN 1 ELSE 0)
               /\ j = n + 1 => Count(text, C, j, n) = 0
    BY CountGrows
  <2> QED BY <2>1
<1> QED BY <1>1 DEF Excess

LEMMA DepthGrows ==
    ASSUME NEW text, NEW n \in Nat, NEW depth \in Nat, DepthIs(text, n, depth)
    PROVE  DepthIs(text, n + 1,
              IF text[n + 1] = "(" THEN depth + 1
              ELSE IF text[n + 1] = ")" THEN IF depth = 0 THEN 0 ELSE depth - 1
              ELSE depth)
<1>1. \A j \in 1..(n + 1) :
        /\ Excess(text, j, n) \in Int
        /\ Excess(text, j, n + 1) = Excess(text, j, n)
             + (IF text[n + 1] = "(" THEN 1 ELSE IF text[n + 1] = ")" THEN -1 ELSE 0)
        /\ j = n + 1 => Excess(text, j, n) = 0
        /\ j # n + 1 => Excess(text, j, n) <= depth
  BY ExcessGrows DEF DepthIs
<1>2. n + 1 \in 1..(n + 1)
  OBVIOUS
<1>3. depth = 0 \/ \E j \in 1..(n + 1) : Excess(text, j, n) = depth
  BY DEF DepthIs
<1>4. \A j \in 1..(n + 1) : Excess(text, j, n) <= depth
  BY <1>1
<1>5. CASE text[n + 1] = "("
  <2>1. \A j \in 1..(n + 1) : Excess(text, j, n + 1) = Excess(text, j, n) + 1
    BY <1>1, <1>5
  <2>2. \E j \in 1..(n + 1) : Excess(text, j, n) = depth
    BY <1>1, <1>2, <1>3
  <2>3. \E j \in 1..(n + 1) : Excess(text, j, n + 1) = depth + 1
    BY <2>1, <2>2
  <2>4. \A j \in 1..(n + 1) : Excess(text, j, n + 1) <= depth + 1
    BY <1>1, <1>4, <2>1
  <2> QED BY <1>5, <2>3, <2>4 DEF DepthIs
<1>6. CASE text[n + 1] = ")"
  <2>1. \A j \in 1..(n + 1) : Excess(text, j, n + 1) = Excess(text, j, n) - 1
    BY <1>1, <1>6
  <2>2. CASE depth = 0
    <3>1. \A j \in 1..(n + 1) : Excess(text, j, n + 1) <= 0
      BY <1>1, <1>4, <2>1, <2>2
    <3> QED BY <1>6, <2>2, <3>1 DEF DepthIs
  <2>3. CASE depth # 0
    <3>1. \A j \in 1..(n + 1) : Excess(text, j, n + 1) <= depth - 1
      BY <1>1, <1>4, <2>1
    <3>2. \E j \in 1..(n + 1) : Excess(text, j, n + 1) = depth - 1
      BY <1>3, <2>1, <2>3
    <3> QED BY <1>6, <2>3, <3>1, <3>2 DEF DepthIs
  <2> QED BY <2>2, <2>3
<1>7. CASE text[n + 1] \notin {"(", ")"}
  <2>1. \A j \in 1..(n + 1) : Excess(text, j, n + 1) = Excess(text, j, n)
    BY <1>1, <1>7
  <2> QED BY <1>3, <1>4, <1>7, <2>1 DEF DepthIs
<1> QED BY <1>5, <1>6, <1>7

\* What Outside makes of a character.
Kept(text, i) ==
    IF text[i] \in {"(", ")"} \/ \E j \in 1..i : Count(text, {"("}, j, i) > Count(text, {")"}, j, i)
    THEN <<>> ELSE <<text[i]>>

LEMMA KeptAtDepth ==
    ASSUME NEW S, NEW text \in Seq(S), NEW n \in Nat, n + 1 <= Len(text),
           NEW depth \in Nat, DepthIs(text, n + 1, depth)
    PROVE  Kept(text, n + 1) =
              IF text[n + 1] \in {"(", ")"} \/ depth # 0 THEN <<>> ELSE <<text[n + 1]>>
<1>1. ASSUME NEW j \in 1..(n + 1)
      PROVE  /\ Excess(text, j, n + 1) \in Int
             /\ Count(text, {"("}, j, n + 1) > Count(text, {")"}, j, n + 1)
                  <=> Excess(text, j, n + 1) > 0
  <2>1. \A C : /\ Count(text, C, j, n) \in Nat
               /\ Count(text, C, j, n + 1)
                    = Count(text, C, j, n) + (IF text[n + 1] \in C THEN 1 ELSE 0)
    BY CountGrows
  <2>2. \A C : Count(text, C, j, n + 1) \in Nat
    BY <2>1
  <2> QED BY <2>2 DEF Excess
<1>2. (\E j \in 1..(n + 1) : Count(text, {"("}, j, n + 1) > Count(text, {")"}, j, n + 1))
        <=> depth # 0
  <2>1. ASSUME NEW j \in 1..(n + 1), Excess(text, j, n + 1) > 0 PROVE depth # 0
    BY <1>1, <2>1 DEF DepthIs
  <2>2. ASSUME depth # 0 PROVE \E j \in 1..(n + 1) : Excess(text, j, n + 1) > 0
    BY <2>2 DEF DepthIs
  <2> QED BY <1>1, <2>1, <2>2
<1> QED BY <1>2 DEF Kept

\* strip_lang_switches keeps what is outside.
LEMMA StripIsOutside ==
    ASSUME NEW S, NEW text \in Seq(S)
    PROVE  StripLangSwitches(text) \in Seq(S) /\ StripLangSwitches(text) = Outside(text)
<1> DEFINE kept == [i \in 1..Len(text) |-> Kept(text, i)]
           So(n) == FlattenSeq([i \in 1..n |-> kept[i]])
<1>0. Len(text) \in Nat /\ DOMAIN text = 1..Len(text)
      /\ \A i \in 1..Len(text) : text[i] \in S
  BY LenProperties, ElementOfSeq
<1>1. PICK f \in [0..Len(text) -> Stripping(S)] :
         /\ f[0] = NothingStripped
         /\ \A n \in 1..Len(text) : f[n] = StripChar(f[n - 1], text[n])
         /\ StripLangSwitches(text) = f[Len(text)].out
  BY StripRuns
<1>2. \A i \in 1..Len(text) : kept[i] = Kept(text, i) /\ kept[i] \in Seq(S)
  <2>1. \A i \in 1..Len(text) : <<>> \in Seq(S) /\ <<text[i]>> \in Seq(S)
    BY <1>0
  <2> QED BY <2>1 DEF Kept
<1>3. Outside(text) = FlattenSeq(kept)
  BY <1>0 DEF Outside, Kept
<1> HIDE DEF kept
<1> DEFINE good == [n \in 0..Len(text) |->
                      {acc \in Stripping(S) : acc.out = So(n) /\ DepthIs(text, n, acc.depth)}]
<1>4. f[0] \in good[0]
  <2>1. So(0) = <<>>
    BY FlattenNone
  <2>2. DepthIs(text, 0, 0)
    BY DEF DepthIs
  <2> HIDE DEF So
  <2>3. good[0] = {acc \in Stripping(S) : acc.out = So(0) /\ DepthIs(text, 0, acc.depth)}
    BY <1>0
  <2> HIDE DEF good
  <2> QED BY <1>0, <1>1, <2>1, <2>2, <2>3 DEF NothingStripped
<1>5. ASSUME NEW n \in 1..Len(text), f[n - 1] \in good[n - 1]
      PROVE  f[n] \in good[n]
  <2>1. PICK m \in Nat : n = m + 1 /\ m \in 0..Len(text) /\ m = n - 1
    BY <1>0
  <2>2. /\ f[m] \in Stripping(S) /\ f[m].out = So(m) /\ DepthIs(text, m, f[m].depth)
    <3> HIDE DEF So
    <3> QED BY <1>5, <2>1
  <2>3. So(m + 1) = So(m) \o kept[m + 1]
    <3>1. \A i \in 1..(m + 1) : kept[i] \in Seq(S)
      BY <1>0, <1>2, <2>1
    <3> QED BY <3>1, FlattenPrefix
  <2> HIDE DEF So
  <2>4. f[n] = StripChar(f[m], text[m + 1]) /\ text[m + 1] \in S /\ f[n] \in Stripping(S)
    BY <1>0, <1>1, <2>1
  <2>5. f[n].depth = IF text[m + 1] = "(" THEN f[m].depth + 1
                     ELSE IF text[m + 1] = ")"
                          THEN IF f[m].depth = 0 THEN 0 ELSE f[m].depth - 1
                     ELSE f[m].depth
    BY <2>2, <2>4, StripCharFields
  <2>6. f[m].depth \in Nat /\ f[n].depth \in Nat
    BY <2>2, <2>4 DEF Stripping
  <2>7. DepthIs(text, n, f[n].depth)
    BY <2>1, <2>2, <2>5, <2>6, DepthGrows
  <2>8. kept[m + 1] = IF text[m + 1] \in {"(", ")"} \/ f[n].depth # 0
                      THEN <<>> ELSE <<text[m + 1]>>
    BY <1>0, <1>2, <2>1, <2>6, <2>7, KeptAtDepth
  <2>9. PICK out \in Seq(S) : out = f[m].out
    BY <2>2 DEF Stripping
  <2>10. f[n].out = out \o kept[m + 1]
    <3>1. CASE text[m + 1] \in {"(", ")"}
      <4>1. f[n].out = f[m].out
        BY <2>2, <2>4, <2>5, <3>1, StripCharFields
      <4> QED BY <2>8, <2>9, <3>1, <4>1, ConcatEmptySeq
    <3>2. CASE text[m + 1] \notin {"(", ")"} /\ f[m].depth # 0
      <4>1. f[n].out = f[m].out /\ f[n].depth # 0
        BY <2>2, <2>4, <2>5, <3>2, StripCharFields
      <4> QED BY <2>8, <2>9, <4>1, ConcatEmptySeq
    <3>3. CASE text[m + 1] \notin {"(", ")"} /\ f[m].depth = 0
      <4>0. text[m + 1] # "(" /\ text[m + 1] # ")"
        BY <3>3
      <4>1. f[n].out = Append(f[m].out, text[m + 1]) /\ f[n].depth = 0
        <5>1. f[n].depth = 0
          BY <2>5, <3>3, <4>0
        <5>2. f[n].out = IF text[m + 1] \in {"(", ")"} \/ f[m].depth # 0 THEN f[m].out
                         ELSE Append(f[m].out, text[m + 1])
          BY <2>2, <2>4, StripCharFields
        <5> QED BY <3>3, <5>1, <5>2
      <4>2. Append(out, text[m + 1]) = out \o <<text[m + 1]>>
        BY <2>4, AppendIsConcat
      <4> QED BY <2>8, <2>9, <3>3, <4>1, <4>2
    <3> QED BY <3>1, <3>2, <3>3
  <2>11. f[n].out = So(n)
    BY <2>1, <2>2, <2>3, <2>9, <2>10
  <2> QED BY <2>4, <2>7, <2>11
<1>6. \A n \in 0..Len(text) : f[n] \in good[n]
  <2> HIDE DEF good
  <2> QED BY <1>0, <1>4, <1>5, LoopKeeps
<1>7. f[Len(text)].out = So(Len(text)) /\ f[Len(text)].out \in Seq(S)
  <2> HIDE DEF So
  <2>1. Len(text) \in 0..Len(text)
    BY <1>0
  <2>2. f[Len(text)] \in good[Len(text)]
    BY <1>6, <2>1
  <2> QED BY <2>1, <2>2 DEF Stripping
<1>8. kept = [i \in 1..Len(text) |-> kept[i]]
  BY DEF kept
<1> QED BY <1>1, <1>3, <1>7, <1>8

-----------------------------------------------------------------------------
(* The sentences of text_to_phonemes.                                       *)

\* Sentences, none of them empty, and the one that is being put together.
Gathered ==
    {acc \in [sentences : Seq(Phrases), current : Phrases] :
        \A i \in 1..Len(acc.sentences) : acc.sentences[i] # <<>>}

Pending(acc) == FlattenSeq(acc.sentences) \o acc.current

LEMMA PendingTyped ==
    ASSUME NEW acc \in Gathered
    PROVE  /\ acc.sentences \in Seq(Phrases) /\ acc.current \in Phrases
           /\ FlattenSeq(acc.sentences) \in Phrases /\ Pending(acc) \in Phrases
<1>1. acc.sentences \in Seq(Phrases) /\ acc.current \in Phrases
  BY DEF Gathered
<1>2. FlattenSeq(acc.sentences) \in Phrases
  BY <1>1, EmptySeq, FlattenNames, EspeakAssumptionHolds, EP!FlattenAppend DEF Phrases
<1> QED BY <1>1, <1>2, ConcatProperties DEF Pending, Phrases

LEMMA PushIfAnyKeeps ==
    ASSUME NEW acc \in Gathered
    PROVE  /\ PushIfAny(acc) \in Gathered
           /\ Pending(PushIfAny(acc)) = Pending(acc)
           /\ PushIfAny(acc).current = <<>>
<1>1. CASE acc.current = <<>>
  BY <1>1 DEF PushIfAny
<1>2. CASE acc.current # <<>>
  <2>1. PICK old \in Seq(Phrases), cur \in Phrases : old = acc.sentences /\ cur = acc.current
    BY PendingTyped
  <2>2. PICK new \in Seq(Phrases) : new = Append(old, cur)
    BY AppendProperties
  <2>3. PushIfAny(acc) = [sentences |-> new, current |-> <<>>]
    BY <1>2, <2>1, <2>2 DEF PushIfAny
  <2>4. ASSUME NEW i \in 1..Len(new) PROVE new[i] # <<>>
    <3>1. /\ Len(new) = Len(old) + 1 /\ Len(old) \in Nat /\ new[Len(old) + 1] = cur
          /\ \A j \in 1..Len(old) : new[j] = old[j]
      BY <2>2, AppendProperties, LenProperties
    <3>2. \A j \in 1..Len(old) : old[j] # <<>>
      BY <2>1 DEF Gathered
    <3> QED BY <1>2, <2>1, <3>1, <3>2
  <2>5. [sentences |-> new, current |-> <<>>] \in Gathered
    BY <2>4, EmptySeq DEF Gathered, Phrases
  <2>6. FlattenSeq(new) = FlattenSeq(old) \o cur /\ FlattenSeq(new) \in Phrases
    BY <2>2, FlattenNames, EspeakAssumptionHolds, EP!FlattenAppend DEF Phrases
  <2>7. FlattenSeq(new) \o <<>> = FlattenSeq(new)
    BY <2>6, ConcatEmptySeq DEF Phrases
  <2>8. Pending(PushIfAny(acc)) = FlattenSeq(new) \o <<>>
    BY <2>3 DEF Pending
  <2>9. Pending(acc) = FlattenSeq(old) \o cur
    BY <2>1 DEF Pending
  <2> QED BY <2>3, <2>5, <2>6, <2>7, <2>8, <2>9
<1> QED BY <1>1, <1>2

\* What a clause adds, without reference to the loops of the code.
Uttered(clause) == Outside(clause.text) \o TerminatorChar(clause)

LEMMA RenderedIs ==
    ASSUME Tables, NEW clause \in Clauses
    PROVE  Rendered(clause) = Uttered(clause) /\ Uttered(clause) \in Phrases
<1>1. clause.text \in Seq(Chars)
  BY DEF Clauses
<1>2. StripLangSwitches(clause.text) = Outside(clause.text) /\ Outside(clause.text) \in Phrases
  BY <1>1, StripIsOutside DEF Phrases
<1>3. TerminatorChar(clause) \in Phrases
  <2>1. /\ "." \in Chars /\ ":" \in Chars /\ "," \in Chars /\ "?" \in Chars /\ "!" \in Chars
    BY DEF Tables, EncodingAssumption
  <2>2. \A ch \in Chars : <<ch>> \in Phrases
    BY DEF Phrases
  <2>3. <<>> \in Phrases
    BY EmptySeq DEF Phrases
  <2>4. TerminatorChar(clause) \in {<<".">>, <<":">>, <<",">>, <<"?">>, <<"!">>, <<>>}
    BY DEF TerminatorChar, Clauses
  <2> QED BY <2>1, <2>2, <2>3, <2>4
<1> QED BY <1>2, <1>3, ConcatProperties DEF Rendered, Uttered, Phrases

LEMMA PushClauseAdds ==
    ASSUME Tables, NEW acc \in Gathered, NEW clause \in Clauses
    PROVE  /\ PushClause(acc, clause) \in Gathered
           /\ Pending(PushClause(acc, clause)) = Pending(acc) \o Uttered(clause)
<1> DEFINE grown == [acc EXCEPT !.current = acc.current \o Rendered(clause)]
<1>1. /\ acc.sentences \in Seq(Phrases) /\ acc.current \in Phrases
      /\ FlattenSeq(acc.sentences) \in Phrases
      /\ Rendered(clause) = Uttered(clause) /\ Uttered(clause) \in Phrases
  BY PendingTyped, RenderedIs
<1>2. PICK cur \in Phrases : cur = acc.current \o Uttered(clause)
  BY <1>1, ConcatProperties DEF Phrases
<1>3. grown \in Gathered /\ grown.sentences = acc.sentences /\ grown.current = cur
  BY <1>1, <1>2 DEF Gathered
<1>4. Pending(grown) = Pending(acc) \o Uttered(clause)
  <2>1. PICK a \in Phrases, b \in Phrases, c \in Phrases :
           a = FlattenSeq(acc.sentences) /\ b = acc.current /\ c = Uttered(clause)
    BY <1>1
  <2>2. (a \o b) \o c = a \o (b \o c)
    BY ConcatAssociative DEF Phrases
  <2> HIDE DEF grown
  <2> QED BY <1>2, <1>3, <2>1, <2>2 DEF Pending
<1>5. PushClause(acc, clause) = IF clause.sentence THEN PushIfAny(grown) ELSE grown
  BY DEF PushClause
<1> HIDE DEF grown
<1> QED BY <1>3, <1>4, <1>5, PushIfAnyKeeps

IsClauseLoop(f, acc, line) ==
    f = [n \in 0..Len(line) |-> IF n = 0 THEN acc ELSE PushClause(f[n - 1], line[n])]

\* The states of the loop over the clauses of a line.
LEMMA ClausesRun ==
    ASSUME Tables, NEW acc \in Gathered, NEW line \in Seq(Clauses)
    PROVE  \E g \in [0..Len(line) -> Gathered] :
              /\ g[0] = acc
              /\ \A n \in 1..Len(line) : g[n] = PushClause(g[n - 1], line[n])
              /\ PushLine(acc, line) = PushIfAny(g[Len(line)])
<1> DEFINE f == CHOOSE g : IsClauseLoop(g, acc, line)
           step == [p \in Gathered \X Clauses |-> PushClause(p[1], p[2])]
<1>1. Len(line) \in Nat /\ \A i \in 1..Len(line) : line[i] \in Clauses
  BY LenProperties, ElementOfSeq
<1>2. step \in [Gathered \X Clauses -> Gathered]
  BY PushClauseAdds
<1>3. \A a \in Gathered, c \in Clauses : step[<<a, c>>] = PushClause(a, c)
  OBVIOUS
<1> HIDE DEF step
<1>4. PICK g \in [0..Len(line) -> Gathered] : Turns(g, step, acc, line, Len(line))
  BY <1>2, LoopRuns
<1>5. g[0] = acc /\ \A n \in 1..Len(line) : g[n] = PushClause(g[n - 1], line[n])
  <2>1. ASSUME NEW n \in 1..Len(line) PROVE g[n] = PushClause(g[n - 1], line[n])
    <3>1. n - 1 \in 0..Len(line) /\ line[n] \in Clauses
      BY <1>1
    <3> QED BY <1>3, <1>4, <3>1 DEF Turns
  <2> QED BY <1>4, <2>1 DEF Turns
<1>6. IsClauseLoop(g, acc, line)
  <2>1. \A n \in 0..Len(line) :
           g[n] = IF n = 0 THEN acc ELSE PushClause(g[n - 1], line[n])
    BY <1>1, <1>5
  <2>2. g = [n \in 0..Len(line) |-> g[n]]
    OBVIOUS
  <2> QED BY <2>1, <2>2, Zenon DEF IsClauseLoop
<1>7. IsClauseLoop(f, acc, line)
  BY <1>6, Zenon
<1>8. PushLine(acc, line) = PushIfAny(f[Len(line)])
  BY DEF PushLine, Loop, IsClauseLoop
<1> HIDE DEF f
<1>9. f[0] = acc /\ \A n \in 1..Len(line) : f[n] = PushClause(f[n - 1], line[n])
  BY <1>1, <1>7 DEF IsClauseLoop
<1>10. f[Len(line)] = g[Len(line)]
  <2>1. f[0] = g[0] /\ \A n \in 1..Len(line) : f[n - 1] = g[n - 1] => f[n] = g[n]
    BY <1>5, <1>9
  <2> QED BY <1>1, <2>1, LoopsAgree
<1> QED BY <1>5, <1>8, <1>10

UtteredLine(line) == FlattenSeq([k \in DOMAIN line |-> Uttered(line[k])])

\* A line adds what its clauses say, and leaves no sentence open.
LEMMA PushLineAdds ==
    ASSUME Tables, NEW acc \in Gathered, NEW line \in Seq(Clauses)
    PROVE  /\ PushLine(acc, line) \in Gathered /\ PushLine(acc, line).current = <<>>
           /\ UtteredLine(line) \in Phrases
           /\ Pending(PushLine(acc, line)) = Pending(acc) \o UtteredLine(line)
<1> DEFINE parts == [k \in 1..Len(line) |-> Uttered(line[k])]
           So(n) == FlattenSeq([i \in 1..n |-> parts[i]])
           good == [n \in 0..Len(line) |->
                      {a \in Gathered : So(n) \in Phrases /\ Pending(a) = Pending(acc) \o So(n)}]
<1>0. /\ Len(line) \in Nat /\ DOMAIN line = 1..Len(line)
      /\ \A i \in 1..Len(line) : line[i] \in Clauses
  BY LenProperties, ElementOfSeq
<1>1. PICK g \in [0..Len(line) -> Gathered] :
         /\ g[0] = acc
         /\ \A n \in 1..Len(line) : g[n] = PushClause(g[n - 1], line[n])
         /\ PushLine(acc, line) = PushIfAny(g[Len(line)])
  BY ClausesRun
<1>2. \A k \in 1..Len(line) : parts[k] = Uttered(line[k]) /\ parts[k] \in Phrases
  BY <1>0, RenderedIs
<1>3. UtteredLine(line) = So(Len(line))
  BY <1>0 DEF UtteredLine
<1> HIDE DEF parts
<1>4. So(0) = <<>> /\ <<>> \in Phrases
  BY FlattenNone, EmptySeq DEF Phrases
<1>5. ASSUME NEW n \in Nat, n + 1 <= Len(line)
      PROVE  So(n) \in Phrases /\ So(n + 1) = So(n) \o parts[n + 1]
  <2>1. \A i \in 1..(n + 1) : parts[i] \in Seq(Chars)
    BY <1>0, <1>2, <1>5 DEF Phrases
  <2> QED BY <2>1, FlattenPrefix DEF Phrases
<1> HIDE DEF So
<1>6. \A n \in 0..Len(line) :
         good[n] = {a \in Gathered : So(n) \in Phrases /\ Pending(a) = Pending(acc) \o So(n)}
  OBVIOUS
<1> HIDE DEF good
<1>7. g[0] \in good[0]
  <2>1. Pending(acc) \o <<>> = Pending(acc)
    BY PendingTyped, ConcatEmptySeq DEF Phrases
  <2>2. good[0] = {a \in Gathered : So(0) \in Phrases /\ Pending(a) = Pending(acc) \o So(0)}
    BY <1>0, <1>6
  <2>3. Pending(acc) = Pending(acc) \o So(0) /\ So(0) \in Phrases
    BY <1>4, <2>1
  <2> QED BY <1>1, <2>2, <2>3
<1>8. ASSUME NEW n \in 1..Len(line), g[n - 1] \in good[n - 1] PROVE g[n] \in good[n]
  <2>1. PICK m \in Nat : m = n - 1 /\ n = m + 1 /\ m \in 0..Len(line) /\ n \in 0..Len(line)
    BY <1>0
  <2>2. g[m] \in Gathered /\ Pending(g[m]) = Pending(acc) \o So(m) /\ So(m) \in Phrases
    BY <1>6, <1>8, <2>1
  <2>3. /\ g[n] = PushClause(g[m], line[n]) /\ line[n] \in Clauses
        /\ parts[n] = Uttered(line[n]) /\ parts[n] \in Phrases /\ So(n) = So(m) \o parts[n]
    <3>0. m + 1 <= Len(line)
      BY <1>0, <2>1
    <3>1. So(m + 1) = So(m) \o parts[m + 1]
      BY <1>5, <3>0
    <3>2. g[n] = PushClause(g[m], line[n]) /\ line[n] \in Clauses
      BY <1>0, <1>1, <2>1
    <3> QED BY <1>2, <2>1, <3>1, <3>2
  <2>4. g[n] \in Gathered /\ Pending(g[n]) = (Pending(acc) \o So(m)) \o parts[n]
    BY <2>2, <2>3, PushClauseAdds
  <2>5. OverSet(Chars, Pending(acc), So(m), parts[n])
    BY <2>2, <2>3, PendingTyped DEF OverSet, Phrases
  <2>6. So(n) \in Phrases
    BY <2>2, <2>3, ConcatProperties DEF Phrases
  <2>7. Pending(g[n]) = Pending(acc) \o So(n)
    BY <2>3, <2>4, <2>5, Regrouped
  <2> QED BY <1>6, <2>1, <2>4, <2>6, <2>7
<1>9. g[Len(line)] \in good[Len(line)]
  <2>1. \A n \in 0..Len(line) : g[n] \in good[n]
    BY <1>0, <1>7, <1>8, LoopKeeps
  <2> QED BY <1>0, <2>1
<1>10. /\ g[Len(line)] \in Gathered /\ So(Len(line)) \in Phrases
       /\ Pending(g[Len(line)]) = Pending(acc) \o So(Len(line))
  BY <1>0, <1>6, <1>9
<1> QED BY <1>1, <1>3, <1>10, PushIfAnyKeeps

IsLineLoop(f, lines) ==
    f = [n \in 0..Len(lines) |-> IF n = 0 THEN NothingYet ELSE PushLine(f[n - 1], lines[n])]

LEMMA NothingGathered ==
    /\ NothingYet \in Gathered /\ Pending(NothingYet) = <<>>
    /\ NothingYet.sentences = <<>> /\ NothingYet.current = <<>>
<1>1. /\ NothingYet.sentences = <<>> /\ NothingYet.current = <<>>
      /\ NothingYet \in [sentences : Seq(Phrases), current : Phrases]
  BY EmptySeq DEF NothingYet, Phrases
<1>2. Len(<<>>) = 0
  OBVIOUS
<1>3. <<>> \o <<>> = <<>>
  OBVIOUS
<1> QED BY <1>1, <1>2, <1>3, FlattenNone DEF Gathered, Pending

\* The states of the loop over lines.
LEMMA LinesRun ==
    ASSUME Tables, NEW lines \in Seq(Seq(Clauses))
    PROVE  \E g \in [0..Len(lines) -> Gathered] :
              /\ g[0] = NothingYet
              /\ \A n \in 1..Len(lines) : g[n] = PushLine(g[n - 1], lines[n])
              /\ TextToPhonemes(lines) = g[Len(lines)].sentences
<1> DEFINE f == CHOOSE g : IsLineLoop(g, lines)
           step == [p \in Gathered \X Seq(Clauses) |-> PushLine(p[1], p[2])]
<1>1. Len(lines) \in Nat /\ \A i \in 1..Len(lines) : lines[i] \in Seq(Clauses)
  BY LenProperties, ElementOfSeq
<1>2. step \in [Gathered \X Seq(Clauses) -> Gathered]
  BY PushLineAdds
<1>3. \A a \in Gathered, c \in Seq(Clauses) : step[<<a, c>>] = PushLine(a, c)
  OBVIOUS
<1> HIDE DEF step
<1>4. PICK g \in [0..Len(lines) -> Gathered] : Turns(g, step, NothingYet, lines, Len(lines))
  BY <1>2, NothingGathered, LoopRuns
<1>5. g[0] = NothingYet /\ \A n \in 1..Len(lines) : g[n] = PushLine(g[n - 1], lines[n])
  <2>1. ASSUME NEW n \in 1..Len(lines) PROVE g[n] = PushLine(g[n - 1], lines[n])
    <3>1. n - 1 \in 0..Len(lines) /\ lines[n] \in Seq(Clauses)
      BY <1>1
    <3> QED BY <1>3, <1>4, <3>1 DEF Turns
  <2> QED BY <1>4, <2>1 DEF Turns
<1>6. IsLineLoop(g, lines)
  <2>1. \A n \in 0..Len(lines) :
           g[n] = IF n = 0 THEN NothingYet ELSE PushLine(g[n - 1], lines[n])
    BY <1>1, <1>5
  <2>2. g = [n \in 0..Len(lines) |-> g[n]]
    OBVIOUS
  <2> QED BY <2>1, <2>2, Zenon DEF IsLineLoop
<1>7. IsLineLoop(f, lines)
  BY <1>6, Zenon
<1>8. TextToPhonemes(lines) = f[Len(lines)].sentences
  BY DEF TextToPhonemes, Loop, IsLineLoop
<1> HIDE DEF f
<1>9. f[0] = NothingYet /\ \A n \in 1..Len(lines) : f[n] = PushLine(f[n - 1], lines[n])
  BY <1>1, <1>7 DEF IsLineLoop
<1>10. f[Len(lines)] = g[Len(lines)]
  <2>1. f[0] = g[0] /\ \A n \in 1..Len(lines) : f[n - 1] = g[n - 1] => f[n] = g[n]
    BY <1>5, <1>9
  <2> QED BY <1>1, <2>1, LoopsAgree
<1> QED BY <1>5, <1>8, <1>10

\* The sentences of text_to_phonemes, put together, are what the clauses say.
LEMMA EspeakAnswers ==
    ASSUME Tables, NEW lines \in Seq(Seq(Clauses))
    PROVE  /\ TextToPhonemes(lines) \in Seq(Phrases)
           /\ \A i \in DOMAIN TextToPhonemes(lines) : TextToPhonemes(lines)[i] # <<>>
           /\ FlattenSeq(TextToPhonemes(lines)) = Said(lines)
<1> DEFINE parts == [l \in 1..Len(lines) |-> UtteredLine(lines[l])]
           So(n) == FlattenSeq([i \in 1..n |-> parts[i]])
           good == [n \in 0..Len(lines) |->
                      {a \in Gathered : a.current = <<>> /\ Pending(a) = So(n)}]
<1>0. /\ Len(lines) \in Nat /\ DOMAIN lines = 1..Len(lines)
      /\ \A i \in 1..Len(lines) : lines[i] \in Seq(Clauses)
  BY LenProperties, ElementOfSeq
<1>1. PICK g \in [0..Len(lines) -> Gathered] :
         /\ g[0] = NothingYet
         /\ \A n \in 1..Len(lines) : g[n] = PushLine(g[n - 1], lines[n])
         /\ TextToPhonemes(lines) = g[Len(lines)].sentences
  BY LinesRun
<1>2. \A l \in 1..Len(lines) : parts[l] = UtteredLine(lines[l]) /\ parts[l] \in Phrases
  BY <1>0, NothingGathered, PushLineAdds
<1>3. Said(lines) = So(Len(lines))
  BY <1>0 DEF Said, UtteredLine, Uttered
<1> HIDE DEF parts
<1>4. So(0) = <<>>
  BY FlattenNone
<1>5. ASSUME NEW n \in Nat, n + 1 <= Len(lines) PROVE So(n + 1) = So(n) \o parts[n + 1]
  <2>1. \A i \in 1..(n + 1) : parts[i] \in Seq(Chars)
    BY <1>0, <1>2, <1>5 DEF Phrases
  <2> QED BY <2>1, FlattenPrefix
<1> HIDE DEF So
<1>6. \A n \in 0..Len(lines) :
         good[n] = {a \in Gathered : a.current = <<>> /\ Pending(a) = So(n)}
  OBVIOUS
<1> HIDE DEF good
<1>7. g[0] \in good[0]
  BY <1>0, <1>1, <1>4, <1>6, NothingGathered
<1>8. ASSUME NEW n \in 1..Len(lines), g[n - 1] \in good[n - 1] PROVE g[n] \in good[n]
  <2>1. PICK m \in Nat : m = n - 1 /\ n = m + 1 /\ m \in 0..Len(lines) /\ n \in 0..Len(lines)
    BY <1>0
  <2>2. g[m] \in Gathered /\ Pending(g[m]) = So(m)
    BY <1>6, <1>8, <2>1
  <2>3. /\ g[n] = PushLine(g[m], lines[n]) /\ lines[n] \in Seq(Clauses)
        /\ parts[n] = UtteredLine(lines[n]) /\ So(n) = So(m) \o parts[n]
    <3>0. m + 1 <= Len(lines)
      BY <1>0, <2>1
    <3>1. So(m + 1) = So(m) \o parts[m + 1]
      BY <1>5, <3>0
    <3>2. g[n] = PushLine(g[m], lines[n]) /\ lines[n] \in Seq(Clauses)
      BY <1>0, <1>1, <2>1
    <3> QED BY <1>2, <2>1, <3>1, <3>2
  <2>4. g[n] \in Gathered /\ g[n].current = <<>> /\ Pending(g[n]) = So(n)
    BY <2>2, <2>3, PushLineAdds
  <2> QED BY <1>6, <2>1, <2>4
<1>9. g[Len(lines)] \in good[Len(lines)]
  <2>1. \A n \in 0..Len(lines) : g[n] \in good[n]
    BY <1>0, <1>7, <1>8, LoopKeeps
  <2> QED BY <1>0, <2>1
<1>10. PICK acc \in Gathered : /\ acc = g[Len(lines)] /\ acc.current = <<>>
                               /\ Pending(acc) = So(Len(lines))
  BY <1>0, <1>6, <1>9
<1>11. /\ acc.sentences \in Seq(Phrases) /\ FlattenSeq(acc.sentences) \in Phrases
       /\ \A i \in 1..Len(acc.sentences) : acc.sentences[i] # <<>>
  BY PendingTyped DEF Gathered
<1>12. DOMAIN acc.sentences = 1..Len(acc.sentences)
  BY <1>11, LenProperties
<1>13. FlattenSeq(acc.sentences) \o <<>> = FlattenSeq(acc.sentences)
  BY <1>11, ConcatEmptySeq DEF Phrases
<1> QED BY <1>1, <1>3, <1>10, <1>11, <1>12, <1>13 DEF Pending

-----------------------------------------------------------------------------
(* split_into_sentences.                                                    *)

SolidOf == [ch \in Chars |-> IF IsSpace(ch) THEN <<>> ELSE <<ch>>]

LEMMA SolidIs ==
    /\ Spells(SolidOf, Chars, Chars)
    /\ \A text \in Phrases : Solid(text) = Spelt(text, SolidOf) /\ Solid(text) \in Phrases
<1>1. Spells(SolidOf, Chars, Chars)
  <2>1. \A ch \in Chars : <<>> \in Seq(Chars) /\ <<ch>> \in Seq(Chars)
    OBVIOUS
  <2> QED BY <2>1 DEF Spells, SolidOf
<1>2. ASSUME NEW text \in Phrases
      PROVE  Solid(text) = Spelt(text, SolidOf) /\ Solid(text) \in Phrases
  <2>1. \A i \in DOMAIN text : text[i] \in Chars
    BY ElementOfSeq, LenProperties DEF Phrases
  <2>2. [i \in DOMAIN text |-> IF IsSpace(text[i]) THEN <<>> ELSE <<text[i]>>]
          = Replaced(text, SolidOf)
    BY <2>1 DEF Replaced, SolidOf
  <2>3. Solid(text) = Spelt(text, SolidOf)
    BY <2>2 DEF Solid, Spelt
  <2>4. PICK letters : letters = Chars
    OBVIOUS
  <2>5. Spells(SolidOf, Chars, letters)
    BY <1>1, <2>4
  <2>6. Spelt(text, SolidOf) \in Seq(letters)
    BY <2>5, SpeltTyped DEF Phrases
  <2> QED BY <2>3, <2>4, <2>6 DEF Phrases
<1> QED BY <1>1, <1>2

LEMMA SolidConcat ==
    ASSUME NEW s \in Phrases, NEW t \in Phrases
    PROVE  s \o t \in Phrases /\ Solid(s \o t) = Solid(s) \o Solid(t)
<1>1. PICK letters : letters = Chars
  OBVIOUS
<1>2. Spells(SolidOf, Chars, letters)
  BY <1>1, SolidIs
<1>3. Spelt(s \o t, SolidOf) = Spelt(s, SolidOf) \o Spelt(t, SolidOf)
  BY <1>2, SpeltConcat DEF Phrases
<1>4. s \o t \in Phrases
  BY ConcatProperties DEF Phrases
<1> QED BY <1>3, <1>4, SolidIs

LEMMA SolidAppend ==
    ASSUME NEW s \in Phrases, NEW ch \in Chars
    PROVE  Append(s, ch) \in Phrases /\ Solid(Append(s, ch)) = Solid(s) \o SolidOf[ch]
<1>1. PICK letters : letters = Chars
  OBVIOUS
<1>2. Spells(SolidOf, Chars, letters)
  BY <1>1, SolidIs
<1>3. Spelt(Append(s, ch), SolidOf) = Spelt(s, SolidOf) \o SolidOf[ch]
  BY <1>2, SpeltAppend DEF Phrases
<1>4. Append(s, ch) \in Phrases
  BY AppendProperties DEF Phrases
<1> QED BY <1>3, <1>4, SolidIs

\* Nothing is left of spaces.
LEMMA SolidBlank ==
    ASSUME NEW text \in Phrases, \A i \in 1..Len(text) : IsSpace(text[i])
    PROVE  Solid(text) = <<>>
<1> DEFINE parts == [i \in 1..Len(text) |-> <<>>]
           So(n) == FlattenSeq([i \in 1..n |-> parts[i]])
           f == [n \in 0..Len(text) |-> So(n)]
           good == [n \in 0..Len(text) |-> {<<>>}]
<1>0. Len(text) \in Nat /\ DOMAIN text = 1..Len(text)
  BY LenProperties DEF Phrases
<1>1. So(0) = <<>>
  BY FlattenNone
<1>2. ASSUME NEW n \in Nat, n + 1 <= Len(text) PROVE So(n + 1) = So(n) \o <<>>
  <2>1. \A i \in 1..(n + 1) : parts[i] \in Seq(Chars) /\ parts[i] = <<>>
    BY <1>0, <1>2, EmptySeq
  <2> HIDE DEF parts
  <2>2. FlattenSeq([i \in 1..(n + 1) |-> parts[i]])
          = FlattenSeq([i \in 1..n |-> parts[i]]) \o parts[n + 1]
    BY <2>1, FlattenPrefix
  <2>3. n + 1 \in 1..(n + 1)
    OBVIOUS
  <2> QED BY <2>1, <2>2, <2>3
<1>3. Solid(text) = So(Len(text))
  <2>1. [i \in DOMAIN text |-> IF IsSpace(text[i]) THEN <<>> ELSE <<text[i]>>]
          = [i \in 1..Len(text) |-> parts[i]]
    BY <1>0
  <2> QED BY <2>1 DEF Solid
<1> HIDE DEF So
<1>4. \A n \in 0..Len(text) : f[n] = So(n) /\ good[n] = {<<>>}
  OBVIOUS
<1> HIDE DEF f, good, parts
<1>5. f[0] \in good[0]
  BY <1>0, <1>1, <1>4
<1>6. ASSUME NEW n \in 1..Len(text), f[n - 1] \in good[n - 1] PROVE f[n] \in good[n]
  <2>1. PICK m \in Nat : m = n - 1 /\ n = m + 1 /\ m \in 0..Len(text) /\ m + 1 <= Len(text)
    BY <1>0
  <2>2. So(m) = <<>>
    BY <1>4, <1>6, <2>1
  <2>3. So(m + 1) = <<>> \o <<>>
    BY <1>2, <2>1, <2>2
  <2>4. <<>> \o <<>> = <<>>
    OBVIOUS
  <2> QED BY <1>0, <1>4, <2>1, <2>3, <2>4
<1>7. f[Len(text)] \in good[Len(text)]
  <2>1. \A n \in 0..Len(text) : f[n] \in good[n]
    BY <1>0, <1>5, <1>6, LoopKeeps
  <2> QED BY <1>0, <2>1
<1> QED BY <1>0, <1>3, <1>4, <1>7

\* Of some numbers there is a least, and a greatest below a bound.
LEMMA Extremes ==
    ASSUME NEW len \in Nat, NEW A \in SUBSET (1..len), A # {}
    PROVE  /\ \E i \in A : \A j \in A : i <= j
           /\ \E i \in A : \A j \in A : j <= i
<1>1. \E i \in A : \A j \in A : i <= j
  <2> SUFFICES ASSUME \A i \in A : \E j \in A : j < i PROVE FALSE
    OBVIOUS
  <2> DEFINE Good == {n \in Nat : \A i \in A : i > n}
  <2>1. 0 \in Good
    OBVIOUS
  <2>2. ASSUME NEW n \in Good PROVE n + 1 \in Good
    OBVIOUS
  <2>3. Good = Nat
    <3>1. Good \subseteq Nat
      OBVIOUS
    <3> HIDE DEF Good
    <3> QED BY <2>1, <2>2, <3>1, EspeakAssumptionHolds, EP!SetInduction
  <2>4. len \in Good
    <3> HIDE DEF Good
    <3> QED BY <2>3
  <2>5. PICK i \in A : TRUE
    OBVIOUS
  <2>6. i \in 1..len /\ i > len
    BY <2>4
  <2> QED BY <2>6
<1>2. \E i \in A : \A j \in A : j <= i
  <2> SUFFICES ASSUME \A i \in A : \E j \in A : j > i PROVE FALSE
    OBVIOUS
  <2> DEFINE Good == {n \in Nat : \A i \in A : i + n <= len}
  <2>1. 0 \in Good
    OBVIOUS
  <2>2. ASSUME NEW n \in Good PROVE n + 1 \in Good
    <3>1. ASSUME NEW i \in A PROVE i + (n + 1) <= len
      <4>1. PICK j \in A : j > i
        OBVIOUS
      <4>2. j + n <= len
        OBVIOUS
      <4> QED BY <4>1, <4>2
    <3> QED BY <3>1
  <2>3. Good = Nat
    <3>1. Good \subseteq Nat
      OBVIOUS
    <3> HIDE DEF Good
    <3> QED BY <2>1, <2>2, <3>1, EspeakAssumptionHolds, EP!SetInduction
  <2>4. len \in Good
    <3> HIDE DEF Good
    <3> QED BY <2>3
  <2>5. PICK i \in A : TRUE
    OBVIOUS
  <2>6. i \in 1..len /\ i + len <= len
    BY <2>4
  <2> QED BY <2>6
<1> QED BY <1>1, <1>2

\* From the first character that is no space to the last.
Between(text, a, b) ==
    /\ a \in 1..Len(text) /\ b \in 1..Len(text) /\ a <= b
    /\ ~IsSpace(text[a]) /\ ~IsSpace(text[b])
    /\ \A i \in 1..Len(text) : i < a \/ i > b => IsSpace(text[i])

LEMMA TrimIs ==
    ASSUME NEW text \in Phrases
    PROVE  \/ Trim(text) = <<>> /\ \A i \in 1..Len(text) : IsSpace(text[i])
           \/ \E a, b \in Nat : Between(text, a, b) /\ Trim(text) = SubSeq(text, a, b)
<1> DEFINE solid == {i \in DOMAIN text : ~IsSpace(text[i])}
<1>0. Len(text) \in Nat /\ DOMAIN text = 1..Len(text)
  BY LenProperties DEF Phrases
<1>1. CASE solid = {}
  BY <1>0, <1>1 DEF Trim
<1>2. CASE solid # {}
  <2> DEFINE a == CHOOSE i \in solid : \A j \in solid : i <= j
             b == CHOOSE i \in solid : \A j \in solid : j <= i
  <2>1. Trim(text) = SubSeq(text, a, b)
    BY <1>2 DEF Trim
  <2>2. solid \in SUBSET (1..Len(text)) /\ \A i \in solid : ~IsSpace(text[i])
    BY <1>0
  <2>3. \A i \in 1..Len(text) : i \notin solid => IsSpace(text[i])
    BY <1>0
  <2> HIDE DEF solid
  <2>4. /\ a \in solid /\ \A j \in solid : a <= j
        /\ b \in solid /\ \A j \in solid : j <= b
    <3>1. /\ \E i \in solid : \A j \in solid : i <= j
          /\ \E i \in solid : \A j \in solid : j <= i
      BY <1>0, <1>2, <2>2, Extremes
    <3> QED BY <3>1, Zenon
  <2> HIDE DEF a, b
  <2>5. a \in 1..Len(text) /\ b \in 1..Len(text) /\ a <= b
    BY <2>2, <2>4
  <2>6. ASSUME NEW i \in 1..Len(text), i < a \/ i > b PROVE IsSpace(text[i])
    <3>1. i \notin solid
      BY <1>0, <2>4, <2>5, <2>6
    <3> QED BY <2>3, <3>1
  <2>7. Between(text, a, b)
    BY <2>2, <2>4, <2>5, <2>6 DEF Between
  <2>8. a \in Nat /\ b \in Nat
    BY <2>5
  <2> QED BY <2>1, <2>7, <2>8
<1> QED BY <1>1, <1>2

\* A part of a text, character by character.
LEMMA PartOfText ==
    ASSUME NEW text \in Phrases, NEW a \in 1..(Len(text) + 1), NEW b \in 0..Len(text), a <= b + 1
    PROVE  /\ SubSeq(text, a, b) \in Phrases /\ Len(SubSeq(text, a, b)) = b - a + 1
           /\ \A i \in 1..(b - a + 1) : SubSeq(text, a, b)[i] = text[a + i - 1]
<1>0. Len(text) \in Nat
  BY LenProperties DEF Phrases
<1> QED BY <1>0, SubSeqProperties DEF Phrases

LEMMA TrimKeeps ==
    ASSUME NEW text \in Phrases
    PROVE  Trim(text) \in Phrases /\ Solid(Trim(text)) = Solid(text)
<1>0. Len(text) \in Nat
  BY LenProperties DEF Phrases
<1>1. CASE Trim(text) = <<>> /\ \A i \in 1..Len(text) : IsSpace(text[i])
  <2>1. Solid(text) = <<>>
    BY <1>1, SolidBlank
  <2>2. <<>> \in Phrases /\ \A i \in 1..Len(<<>>) : IsSpace(<<>>[i])
    BY EmptySeq DEF Phrases
  <2> QED BY <1>1, <2>1, <2>2, SolidBlank
<1>2. CASE \E a, b \in Nat : Between(text, a, b) /\ Trim(text) = SubSeq(text, a, b)
  <2>1. PICK a \in Nat, b \in Nat : Between(text, a, b) /\ Trim(text) = SubSeq(text, a, b)
    BY <1>2
  <2>2. a >= 1 /\ a <= b /\ b <= Len(text)
    BY <1>0, <2>1 DEF Between
  <2>0. \A i \in 1..Len(text) : text[i] \in Chars
    BY ElementOfSeq DEF Phrases
  <2>3. PICK pre \in Phrases : /\ Len(pre) = a - 1
                              /\ \A i \in 1..(a - 1) : pre[i] = text[i]
    <3>1. [i \in 1..(a - 1) |-> text[i]] \in Phrases
      BY <1>0, <2>0, <2>2 DEF Phrases
    <3>2. Len([i \in 1..(a - 1) |-> text[i]]) = a - 1
      BY <2>2
    <3> QED BY <3>1, <3>2
  <2>4. PICK mid \in Phrases : /\ mid = Trim(text) /\ Len(mid) = b - a + 1
                              /\ \A i \in 1..(b - a + 1) : mid[i] = text[a + i - 1]
    <3>1. a \in 1..(Len(text) + 1) /\ b \in 0..Len(text) /\ a <= b + 1
      BY <1>0, <2>2
    <3>2. /\ SubSeq(text, a, b) \in Phrases /\ Len(SubSeq(text, a, b)) = b - a + 1
          /\ \A i \in 1..(b - a + 1) : SubSeq(text, a, b)[i] = text[a + i - 1]
      BY <3>1, PartOfText
    <3> QED BY <2>1, <3>2
  <2>5. PICK post \in Phrases : /\ Len(post) = Len(text) - b
                               /\ \A i \in 1..(Len(text) - b) : post[i] = text[b + i]
    <3>1. \A i \in 1..(Len(text) - b) : b + i \in 1..Len(text)
      BY <1>0, <2>2
    <3>2. [i \in 1..(Len(text) - b) |-> text[b + i]] \in Phrases
      BY <1>0, <2>0, <2>2, <3>1 DEF Phrases
    <3>3. Len([i \in 1..(Len(text) - b) |-> text[b + i]]) = Len(text) - b
      BY <1>0, <2>2
    <3> QED BY <3>2, <3>3
  <2>6. Solid(pre) = <<>>
    <3>1. \A i \in 1..Len(pre) : IsSpace(pre[i])
      BY <1>0, <2>1, <2>2, <2>3 DEF Between
    <3> QED BY <3>1, SolidBlank
  <2>7. Solid(post) = <<>>
    <3>1. ASSUME NEW i \in 1..Len(post) PROVE IsSpace(post[i])
      <4>1. b + i \in 1..Len(text) /\ b + i > b /\ post[i] = text[b + i]
        BY <1>0, <2>2, <2>5
      <4> QED BY <2>1, <4>1 DEF Between
    <3> QED BY <3>1, SolidBlank
  <2>8. PICK front \in Phrases : front = pre \o mid
    BY SolidConcat
  <2>9. /\ Len(front) = b
        /\ \A i \in 1..b : front[i] = text[i]
    <3>1. /\ Len(front) = (a - 1) + (b - a + 1)
          /\ \A i \in 1..((a - 1) + (b - a + 1)) :
                front[i] = IF i <= a - 1 THEN pre[i] ELSE mid[i - (a - 1)]
      <4>1. /\ Len(front) = Len(pre) + Len(mid)
            /\ \A i \in 1..(Len(pre) + Len(mid)) :
                  front[i] = IF i <= Len(pre) THEN pre[i] ELSE mid[i - Len(pre)]
        BY <2>8, ConcatProperties DEF Phrases
      <4> QED BY <2>3, <2>4, <4>1
    <3>2. (a - 1) + (b - a + 1) = b
      OBVIOUS
    <3>3. ASSUME NEW i \in 1..b PROVE front[i] = text[i]
      <4>1. CASE i <= a - 1
        BY <2>2, <2>3, <3>1, <3>2, <4>1
      <4>2. CASE ~(i <= a - 1)
        <5>1. i - (a - 1) \in 1..(b - a + 1) /\ a + (i - (a - 1)) - 1 = i
          BY <2>2, <4>2
        <5> QED BY <2>4, <3>1, <3>2, <4>2, <5>1
      <4> QED BY <4>1, <4>2
    <3> QED BY <3>1, <3>2, <3>3
  <2>10. PICK all \in Phrases : all = front \o post
    BY SolidConcat
  <2>11. all = text
    <3>1. /\ Len(all) = b + (Len(text) - b)
          /\ \A i \in 1..(b + (Len(text) - b)) :
                all[i] = IF i <= b THEN front[i] ELSE post[i - b]
      BY <2>5, <2>9, <2>10, ConcatProperties DEF Phrases
    <3>2. b + (Len(text) - b) = Len(text)
      BY <1>0
    <3>3. ASSUME NEW i \in 1..Len(text) PROVE all[i] = text[i]
      <4>1. CASE i <= b
        BY <1>0, <2>9, <3>1, <3>2, <4>1
      <4>2. CASE ~(i <= b)
        <5>1. i - b \in 1..(Len(text) - b) /\ b + (i - b) = i
          BY <1>0, <2>2, <4>2
        <5> QED BY <2>5, <3>1, <3>2, <4>2, <5>1
      <4> QED BY <4>1, <4>2
    <3> QED BY <3>1, <3>2, <3>3, SeqEqual DEF Phrases
  <2>12. Solid(text) = (Solid(pre) \o Solid(mid)) \o Solid(post)
    <3>1. Solid(front) = Solid(pre) \o Solid(mid)
      BY <2>8, SolidConcat
    <3>2. Solid(all) = Solid(front) \o Solid(post)
      BY <2>10, SolidConcat
    <3> QED BY <2>11, <3>1, <3>2
  <2>13. PICK solid \in Phrases : solid = Solid(mid)
    BY SolidIs
  <2>14. <<>> \o solid = solid /\ solid \o <<>> = solid
    BY ConcatEmptySeq DEF Phrases
  <2> QED BY <2>4, <2>6, <2>7, <2>12, <2>13, <2>14
<1> QED BY <1>1, <1>2, TrimIs

\* What is trimmed stays as it is.
LEMMA TrimStays ==
    ASSUME NEW text \in Phrases, text # <<>>, ~IsSpace(text[1]), ~IsSpace(text[Len(text)])
    PROVE  Trim(text) = text
<1>1. Len(text) \in Nat /\ Len(text) # 0
  BY LenProperties, EmptySeq DEF Phrases
<1>2. ~IsSpace(text[1]) /\ 1 \in 1..Len(text) /\ Len(text) \in 1..Len(text)
  BY <1>1
<1>3. PICK a \in Nat, b \in Nat : Between(text, a, b) /\ Trim(text) = SubSeq(text, a, b)
  BY <1>2, TrimIs
<1>4. a = 1 /\ b = Len(text)
  <2>1. a \in 1..Len(text) /\ b \in 1..Len(text) /\ ~(1 < a) /\ ~(Len(text) > b)
    BY <1>2, <1>3 DEF Between
  <2> QED BY <1>1, <2>1
<1>5. /\ Trim(text) \in Phrases /\ Len(Trim(text)) = Len(text)
      /\ \A i \in 1..Len(text) : Trim(text)[i] = text[i]
  <2>1. /\ SubSeq(text, 1, Len(text)) \in Phrases
        /\ Len(SubSeq(text, 1, Len(text))) = Len(text) - 1 + 1
        /\ \A i \in 1..(Len(text) - 1 + 1) : SubSeq(text, 1, Len(text))[i] = text[1 + i - 1]
    BY <1>1, PartOfText
  <2>2. Len(text) - 1 + 1 = Len(text) /\ \A i \in Nat : 1 + i - 1 = i
    BY <1>1
  <2> QED BY <1>3, <1>4, <2>1, <2>2
<1> QED BY <1>5, SeqEqual DEF Phrases

\* A text with a terminator nowhere but at its end makes a sentence, if it is
\* not blank.
LEMMA TrimmedText ==
    ASSUME NEW text \in Phrases,
           \A k \in 1..Len(text) : k # Len(text) => text[k] \notin Terminators
    PROVE  /\ Trim(text) # <<>> => Trimmed(Trim(text))
           /\ text # <<>> /\ text[Len(text)] \in Terminators =>
                 Trim(text) # <<>> /\ Last(Trim(text)) \in Terminators
<1>0. Len(text) \in Nat
  BY LenProperties DEF Phrases
<1>1. CASE Trim(text) = <<>> /\ \A i \in 1..Len(text) : IsSpace(text[i])
  <2>1. ASSUME text # <<>>, text[Len(text)] \in Terminators PROVE FALSE
    <3>1. Len(text) \in 1..Len(text)
      BY <1>0, <2>1, EmptySeq DEF Phrases
    <3>2. text[Len(text)] = " "
      BY <1>1, <3>1 DEF IsSpace
    <3> QED BY <2>1, <3>2 DEF Terminators
  <2> QED BY <1>1, <2>1
<1>2. CASE \E a, b \in Nat : Between(text, a, b) /\ Trim(text) = SubSeq(text, a, b)
  <2>1. PICK a \in Nat, b \in Nat : Between(text, a, b) /\ Trim(text) = SubSeq(text, a, b)
    BY <1>2
  <2>2. a >= 1 /\ a <= b /\ b <= Len(text) /\ ~IsSpace(text[a]) /\ ~IsSpace(text[b])
    BY <1>0, <2>1 DEF Between
  <2>3. PICK mid \in Phrases : /\ mid = Trim(text) /\ Len(mid) = b - a + 1
                              /\ \A i \in 1..(b - a + 1) : mid[i] = text[a + i - 1]
    <3>1. a \in 1..(Len(text) + 1) /\ b \in 0..Len(text) /\ a <= b + 1
      BY <1>0, <2>2
    <3>2. /\ SubSeq(text, a, b) \in Phrases /\ Len(SubSeq(text, a, b)) = b - a + 1
          /\ \A i \in 1..(b - a + 1) : SubSeq(text, a, b)[i] = text[a + i - 1]
      BY <3>1, PartOfText
    <3> QED BY <2>1, <3>2
  <2>4. Len(mid) \in Nat /\ Len(mid) >= 1 /\ mid # <<>>
    BY <2>2, <2>3
  <2>5. mid[1] = text[a] /\ mid[Len(mid)] = text[b]
    <3>1. /\ 1 \in 1..(b - a + 1) /\ a + 1 - 1 = a
          /\ b - a + 1 \in 1..(b - a + 1) /\ a + (b - a + 1) - 1 = b
      BY <2>2
    <3> QED BY <2>3, <3>1
  <2>6. Trim(mid) = mid
    BY <2>2, <2>4, <2>5, TrimStays
  <2>7. ASSUME NEW k \in DOMAIN mid \ {Len(mid)} PROVE mid[k] \notin Terminators
    <3>1. k \in 1..(b - a + 1) /\ k # b - a + 1
      BY <2>3, <2>7, LenProperties DEF Phrases
    <3>2. a + k - 1 \in 1..Len(text) /\ a + k - 1 # Len(text)
      BY <1>0, <2>2, <3>1
    <3> QED BY <2>3, <3>1, <3>2
  <2>8. Trimmed(mid)
    BY <2>4, <2>6, <2>7 DEF Trimmed
  <2>9. ASSUME text # <<>>, text[Len(text)] \in Terminators
        PROVE  Last(mid) \in Terminators
    <3>1. ~IsSpace(text[Len(text)])
      BY <2>9 DEF IsSpace, Terminators
    <3>2. b = Len(text)
      <4>1. Len(text) \in 1..Len(text)
        BY <1>0, <2>2
      <4> QED BY <1>0, <2>1, <2>2, <3>1, <4>1 DEF Between
    <3> QED BY <2>5, <2>9, <3>2 DEF Last
  <2> QED BY <2>3, <2>4, <2>8, <2>9
<1> QED BY <1>1, <1>2, TrimIs

\* Sentences that end with a terminator, and what follows the last one.
Split ==
    {acc \in [sentences : Seq(Phrases), current : Phrases] :
        /\ \A i \in 1..Len(acc.sentences) :
              Trimmed(acc.sentences[i]) /\ Last(acc.sentences[i]) \in Terminators
        /\ \A k \in 1..Len(acc.current) : acc.current[k] \notin Terminators}

\* A push adds a sentence, if there is one, and no character but spaces is lost.
LEMMA PushTrimmedAdds ==
    ASSUME NEW acc \in [sentences : Seq(Phrases), current : Phrases],
           \A k \in 1..Len(acc.current) :
               k # Len(acc.current) => acc.current[k] \notin Terminators
    PROVE  /\ PushTrimmed(acc).current = <<>>
           /\ PushTrimmed(acc) \in [sentences : Seq(Phrases), current : Phrases]
           /\ \/ PushTrimmed(acc).sentences = acc.sentences
              \/ \E sentence \in Phrases :
                    /\ PushTrimmed(acc).sentences = Append(acc.sentences, sentence)
                    /\ Trimmed(sentence)
                    /\ acc.current # <<>> /\ acc.current[Len(acc.current)] \in Terminators =>
                          Last(sentence) \in Terminators
           /\ Solid(FlattenSeq(PushTrimmed(acc).sentences))
                = Solid(FlattenSeq(acc.sentences)) \o Solid(acc.current)
<1>1. PICK old \in Seq(Phrases), cur \in Phrases, new \in Phrases :
         old = acc.sentences /\ cur = acc.current /\ new = Trim(acc.current)
  <2>1. acc.sentences \in Seq(Phrases) /\ acc.current \in Phrases
    OBVIOUS
  <2> QED BY <2>1, TrimKeeps
<1>2. Solid(new) = Solid(cur)
  BY <1>1, TrimKeeps
<1>3. /\ new # <<>> => Trimmed(new)
      /\ cur # <<>> /\ cur[Len(cur)] \in Terminators =>
            new # <<>> /\ Last(new) \in Terminators
  BY <1>1, TrimmedText
<1>4. FlattenSeq(old) \in Phrases
  BY EmptySeq, FlattenNames, EspeakAssumptionHolds, EP!FlattenAppend DEF Phrases
<1>5. PushTrimmed(acc) = [sentences |-> IF new = <<>> THEN old ELSE Append(old, new),
                          current |-> <<>>]
  BY <1>1 DEF PushTrimmed
<1>6. CASE new = <<>>
  <2>1. PushTrimmed(acc) = [sentences |-> old, current |-> <<>>]
    BY <1>5, <1>6
  <2>2. Solid(new) = <<>>
    BY <1>6, SolidIs, SpeltEmpty
  <2>3. PICK solid \in Phrases : solid = Solid(FlattenSeq(old))
    BY <1>4, SolidIs
  <2>4. solid \o <<>> = solid
    BY ConcatEmptySeq DEF Phrases
  <2>5. <<>> \in Phrases
    BY EmptySeq DEF Phrases
  <2>6. Solid(FlattenSeq(old)) = Solid(FlattenSeq(acc.sentences)) \o Solid(acc.current)
    BY <1>1, <1>2, <2>2, <2>3, <2>4
  <2>7. /\ PushTrimmed(acc).current = <<>> /\ PushTrimmed(acc).sentences = acc.sentences
        /\ PushTrimmed(acc) \in [sentences : Seq(Phrases), current : Phrases]
    BY <1>1, <2>1, <2>5
  <2>8. Solid(FlattenSeq(PushTrimmed(acc).sentences))
          = Solid(FlattenSeq(acc.sentences)) \o Solid(acc.current)
    BY <1>1, <2>6, <2>7
  <2> QED BY <2>7, <2>8
<1>7. CASE new # <<>>
  <2>1. PICK longer \in Seq(Phrases) : longer = Append(old, new)
    BY AppendProperties
  <2>2. PushTrimmed(acc) = [sentences |-> longer, current |-> <<>>]
    BY <1>5, <1>7, <2>1
  <2>3. FlattenSeq(longer) = FlattenSeq(old) \o new
    BY <2>1, FlattenNames, EspeakAssumptionHolds, EP!FlattenAppend DEF Phrases
  <2>4. Solid(FlattenSeq(longer)) = Solid(FlattenSeq(acc.sentences)) \o Solid(acc.current)
    BY <1>1, <1>2, <1>4, <2>3, SolidConcat
  <2>5. <<>> \in Phrases
    BY EmptySeq DEF Phrases
  <2>6. PushTrimmed(acc).sentences = Append(acc.sentences, new)
    BY <1>1, <2>1, <2>2
  <2>7. \E sentence \in Phrases :
           /\ PushTrimmed(acc).sentences = Append(acc.sentences, sentence)
           /\ Trimmed(sentence)
           /\ acc.current # <<>> /\ acc.current[Len(acc.current)] \in Terminators =>
                 Last(sentence) \in Terminators
    BY <1>1, <1>3, <1>7, <2>6
  <2>8. /\ PushTrimmed(acc).current = <<>> /\ PushTrimmed(acc).sentences = longer
        /\ PushTrimmed(acc) \in [sentences : Seq(Phrases), current : Phrases]
    BY <2>2, <2>5
  <2> QED BY <2>4, <2>7, <2>8
<1> QED BY <1>6, <1>7

SolidPending(acc) == Solid(FlattenSeq(acc.sentences)) \o Solid(acc.current)

LEMMA SplitCharAdds ==
    ASSUME NEW acc \in Split, NEW ch \in Chars
    PROVE  /\ SplitChar(acc, ch) \in Split
           /\ SolidPending(SplitChar(acc, ch)) = SolidPending(acc) \o SolidOf[ch]
<1>1. PICK old \in Seq(Phrases), cur \in Phrases : old = acc.sentences /\ cur = acc.current
  BY DEF Split
<1>2. /\ acc = [sentences |-> old, current |-> cur]
      /\ \A i \in 1..Len(old) : Trimmed(old[i]) /\ Last(old[i]) \in Terminators
      /\ \A k \in 1..Len(cur) : cur[k] \notin Terminators
  BY <1>1 DEF Split
<1>3. PICK grown \in Phrases : grown = Append(cur, ch)
  BY SolidAppend
<1>4. /\ Len(cur) \in Nat /\ Len(grown) = Len(cur) + 1 /\ grown[Len(cur) + 1] = ch
      /\ \A k \in 1..Len(cur) : grown[k] = cur[k]
  BY <1>3, AppendProperties, LenProperties DEF Phrases
<1>5. PICK next \in [sentences : Seq(Phrases), current : Phrases] :
         next = [sentences |-> old, current |-> grown]
  OBVIOUS
<1>6. SplitChar(acc, ch) = IF ch \in Terminators THEN PushTrimmed(next) ELSE next
  <2>1. [acc EXCEPT !.current = Append(acc.current, ch)]
          = [sentences |-> acc.sentences, current |-> Append(acc.current, ch)]
    <3>1. acc \in [sentences : Seq(Phrases), current : Phrases]
      BY DEF Split
    <3>2. \A x : [acc EXCEPT !.current = x] = [sentences |-> acc.sentences, current |-> x]
      BY <3>1
    <3> QED BY <3>2
  <2>2. [sentences |-> acc.sentences, current |-> Append(acc.current, ch)] = next
    BY <1>1, <1>3, <1>5
  <2> QED BY <2>1, <2>2 DEF SplitChar
<1>7. SolidPending(next) = SolidPending(acc) \o SolidOf[ch]
  <2>1. Solid(grown) = Solid(cur) \o SolidOf[ch]
    BY <1>3, SolidAppend
  <2>2. FlattenSeq(old) \in Phrases
    BY EmptySeq, FlattenNames, EspeakAssumptionHolds, EP!FlattenAppend DEF Phrases
  <2>3. PICK a \in Phrases, b \in Phrases, c \in Phrases :
           a = Solid(FlattenSeq(old)) /\ b = Solid(cur) /\ c = SolidOf[ch]
    <3>1. SolidOf[ch] \in Phrases
      BY SolidIs DEF Spells, Phrases
    <3> QED BY <2>2, <3>1, SolidIs
  <2>4. (a \o b) \o c = a \o (b \o c)
    <3>1. OverSet(Chars, a, b, c)
      BY DEF OverSet, Phrases
    <3> QED BY <3>1, Regrouped
  <2> QED BY <1>1, <1>5, <2>1, <2>3, <2>4 DEF SolidPending
<1>8. CASE ch \notin Terminators
  <2>1. ASSUME NEW k \in 1..Len(grown) PROVE grown[k] \notin Terminators
    <3>1. CASE k = Len(cur) + 1
      BY <1>4, <1>8, <3>1
    <3>2. CASE k \in 1..Len(cur)
      BY <1>2, <1>4, <3>2
    <3> QED BY <1>4, <3>1, <3>2
  <2>2. next \in Split
    BY <1>2, <1>5, <2>1 DEF Split
  <2> QED BY <1>6, <1>7, <1>8, <2>2
<1>9. CASE ch \in Terminators
  <2>1. ASSUME NEW k \in 1..Len(next.current), k # Len(next.current)
        PROVE  next.current[k] \notin Terminators
    <3>1. k \in 1..Len(cur) /\ next.current[k] = cur[k]
      BY <1>4, <1>5, <2>1
    <3> QED BY <1>2, <3>1
  <2>2. next.current # <<>> /\ next.current[Len(next.current)] \in Terminators
    BY <1>4, <1>5, <1>9
  <2>3. PICK pushed \in [sentences : Seq(Phrases), current : Phrases] :
           pushed = PushTrimmed(next) /\ pushed.current = <<>>
    BY <2>1, PushTrimmedAdds
  <2>4. \/ pushed.sentences = old
        \/ \E sentence \in Phrases :
              /\ pushed.sentences = Append(old, sentence)
              /\ Trimmed(sentence) /\ Last(sentence) \in Terminators
    BY <1>5, <2>1, <2>2, <2>3, PushTrimmedAdds
  <2>5. ASSUME NEW i \in 1..Len(pushed.sentences)
        PROVE  Trimmed(pushed.sentences[i]) /\ Last(pushed.sentences[i]) \in Terminators
    <3>1. CASE pushed.sentences = old
      BY <1>2, <2>5, <3>1
    <3>2. CASE \E sentence \in Phrases :
                  /\ pushed.sentences = Append(old, sentence)
                  /\ Trimmed(sentence) /\ Last(sentence) \in Terminators
      <4>1. PICK sentence \in Phrases :
                  /\ pushed.sentences = Append(old, sentence)
                  /\ Trimmed(sentence) /\ Last(sentence) \in Terminators
        BY <3>2
      <4>2. /\ Len(old) \in Nat /\ Len(pushed.sentences) = Len(old) + 1
            /\ pushed.sentences[Len(old) + 1] = sentence
            /\ \A j \in 1..Len(old) : pushed.sentences[j] = old[j]
        BY <4>1, AppendProperties, LenProperties
      <4> QED BY <1>2, <2>5, <4>1, <4>2
    <3> QED BY <2>4, <3>1, <3>2
  <2>6. \A k \in 1..Len(pushed.current) : pushed.current[k] \notin Terminators
    <3>1. Len(pushed.current) = 0
      BY <2>3
    <3> QED BY <3>1
  <2>7. pushed \in Split
    BY <2>5, <2>6 DEF Split
  <2>8. SolidPending(pushed) = SolidPending(next)
    <3>1. Solid(FlattenSeq(pushed.sentences))
            = Solid(FlattenSeq(next.sentences)) \o Solid(next.current)
      BY <2>1, <2>3, PushTrimmedAdds
    <3>2. FlattenSeq(pushed.sentences) \in Phrases
      BY EmptySeq, FlattenNames, EspeakAssumptionHolds, EP!FlattenAppend DEF Phrases
    <3>3. PICK solid \in Phrases : solid = Solid(FlattenSeq(pushed.sentences))
      BY <3>2, SolidIs
    <3>4. solid \o <<>> = solid
      BY ConcatEmptySeq DEF Phrases
    <3>5. Solid(pushed.current) = <<>>
      BY <2>3, SolidIs, SpeltEmpty
    <3> QED BY <3>1, <3>3, <3>4, <3>5 DEF SolidPending
  <2> QED BY <1>6, <1>7, <1>9, <2>3, <2>7, <2>8
<1> QED BY <1>8, <1>9

LEMMA NothingSplit == NothingYet \in Split /\ SolidPending(NothingYet) = <<>>
<1>1. NothingYet \in Split
  <2>1. Len(<<>>) = 0
    OBVIOUS
  <2>2. NothingYet \in [sentences : Seq(Phrases), current : Phrases]
    BY NothingGathered DEF Gathered
  <2> QED BY <2>1, <2>2, NothingGathered DEF Split
<1>2. <<>> \in Phrases
  BY EmptySeq DEF Phrases
<1>3. Solid(<<>>) = <<>>
  BY <1>2, SolidIs, SpeltEmpty
<1>4. <<>> \o <<>> = <<>>
  OBVIOUS
<1> QED BY <1>1, <1>3, <1>4, NothingGathered, FlattenNone DEF SolidPending

IsCharLoop(f, text) ==
    f = [n \in 0..Len(text) |-> IF n = 0 THEN NothingYet ELSE SplitChar(f[n - 1], text[n])]

\* The states of the loop over the characters of a text.
LEMMA CharsRun ==
    ASSUME NEW text \in Phrases
    PROVE  \E g \in [0..Len(text) -> Split] :
              /\ g[0] = NothingYet
              /\ \A n \in 1..Len(text) : g[n] = SplitChar(g[n - 1], text[n])
              /\ SplitIntoSentences(text) = PushTrimmed(g[Len(text)]).sentences
<1> DEFINE f == CHOOSE g : IsCharLoop(g, text)
           step == [p \in Split \X Chars |-> SplitChar(p[1], p[2])]
<1>1. Len(text) \in Nat /\ \A i \in 1..Len(text) : text[i] \in Chars
  BY LenProperties, ElementOfSeq DEF Phrases
<1>2. step \in [Split \X Chars -> Split]
  BY SplitCharAdds
<1>3. \A a \in Split, ch \in Chars : step[<<a, ch>>] = SplitChar(a, ch)
  OBVIOUS
<1> HIDE DEF step
<1>4. PICK g \in [0..Len(text) -> Split] : Turns(g, step, NothingYet, text, Len(text))
  BY <1>2, NothingSplit, LoopRuns DEF Phrases
<1>5. g[0] = NothingYet /\ \A n \in 1..Len(text) : g[n] = SplitChar(g[n - 1], text[n])
  <2>1. ASSUME NEW n \in 1..Len(text) PROVE g[n] = SplitChar(g[n - 1], text[n])
    <3>1. n - 1 \in 0..Len(text) /\ text[n] \in Chars
      BY <1>1
    <3> QED BY <1>3, <1>4, <3>1 DEF Turns
  <2> QED BY <1>4, <2>1 DEF Turns
<1>6. IsCharLoop(g, text)
  <2>1. \A n \in 0..Len(text) :
           g[n] = IF n = 0 THEN NothingYet ELSE SplitChar(g[n - 1], text[n])
    BY <1>1, <1>5
  <2>2. g = [n \in 0..Len(text) |-> g[n]]
    OBVIOUS
  <2> QED BY <2>1, <2>2, Zenon DEF IsCharLoop
<1>7. IsCharLoop(f, text)
  BY <1>6, Zenon
<1>8. SplitIntoSentences(text) = PushTrimmed(f[Len(text)]).sentences
  BY DEF SplitIntoSentences, Loop, IsCharLoop
<1> HIDE DEF f
<1>9. f[0] = NothingYet /\ \A n \in 1..Len(text) : f[n] = SplitChar(f[n - 1], text[n])
  BY <1>1, <1>7 DEF IsCharLoop
<1>10. f[Len(text)] = g[Len(text)]
  <2>1. f[0] = g[0] /\ \A n \in 1..Len(text) : f[n - 1] = g[n - 1] => f[n] = g[n]
    BY <1>5, <1>9
  <2> QED BY <1>1, <2>1, LoopsAgree
<1> QED BY <1>5, <1>8, <1>10

\* The sentences of the stub are the text but for the spaces around them, and
\* end where a terminator is.
LEMMA StubAnswers ==
    ASSUME NEW text \in Phrases
    PROVE  /\ SplitIntoSentences(text) \in Seq(Phrases)
           /\ Solid(FlattenSeq(SplitIntoSentences(text))) = Solid(text)
           /\ \A i \in DOMAIN SplitIntoSentences(text) :
                 /\ Trimmed(SplitIntoSentences(text)[i])
                 /\ i < Len(SplitIntoSentences(text)) =>
                       Last(SplitIntoSentences(text)[i]) \in Terminators
<1> DEFINE parts == [i \in 1..Len(text) |-> SolidOf[text[i]]]
           So(n) == FlattenSeq([i \in 1..n |-> parts[i]])
           good == [n \in 0..Len(text) |-> {a \in Split : SolidPending(a) = So(n)}]
<1>0. /\ Len(text) \in Nat /\ DOMAIN text = 1..Len(text)
      /\ \A i \in 1..Len(text) : text[i] \in Chars
  BY LenProperties, ElementOfSeq DEF Phrases
<1>1. PICK g \in [0..Len(text) -> Split] :
         /\ g[0] = NothingYet
         /\ \A n \in 1..Len(text) : g[n] = SplitChar(g[n - 1], text[n])
         /\ SplitIntoSentences(text) = PushTrimmed(g[Len(text)]).sentences
  BY CharsRun
<1>2. \A i \in 1..Len(text) : parts[i] = SolidOf[text[i]] /\ parts[i] \in Seq(Chars)
  BY <1>0, SolidIs DEF Spells
<1>3. Solid(text) = So(Len(text))
  <2>1. Solid(text) = FlattenSeq(Replaced(text, SolidOf))
    BY SolidIs DEF Spelt
  <2>2. Replaced(text, SolidOf) = [i \in 1..Len(text) |-> parts[i]]
    BY <1>0 DEF Replaced
  <2> QED BY <2>1, <2>2
<1> HIDE DEF parts
<1>4. So(0) = <<>>
  BY FlattenNone
<1>5. ASSUME NEW n \in Nat, n + 1 <= Len(text) PROVE So(n + 1) = So(n) \o parts[n + 1]
  <2>1. \A i \in 1..(n + 1) : parts[i] \in Seq(Chars)
    BY <1>0, <1>2, <1>5
  <2> QED BY <2>1, FlattenPrefix
<1> HIDE DEF So
<1>6. \A n \in 0..Len(text) : good[n] = {a \in Split : SolidPending(a) = So(n)}
  OBVIOUS
<1> HIDE DEF good
<1>7. g[0] \in good[0]
  BY <1>0, <1>1, <1>4, <1>6, NothingSplit
<1>8. ASSUME NEW n \in 1..Len(text), g[n - 1] \in good[n - 1] PROVE g[n] \in good[n]
  <2>1. PICK m \in Nat : m = n - 1 /\ n = m + 1 /\ m \in 0..Len(text) /\ n \in 0..Len(text)
    BY <1>0
  <2>2. g[m] \in Split /\ SolidPending(g[m]) = So(m)
    BY <1>6, <1>8, <2>1
  <2>3. g[n] = SplitChar(g[m], text[n]) /\ text[n] \in Chars /\ parts[n] = SolidOf[text[n]]
    BY <1>0, <1>1, <1>2, <2>1
  <2>4. m + 1 <= Len(text)
    BY <1>0, <2>1
  <2>5. So(n) = So(m) \o parts[n]
    BY <1>5, <2>1, <2>4
  <2>6. g[n] \in Split /\ SolidPending(g[n]) = So(n)
    BY <2>2, <2>3, <2>5, SplitCharAdds
  <2> QED BY <1>6, <2>1, <2>6
<1>9. g[Len(text)] \in good[Len(text)]
  <2>1. \A n \in 0..Len(text) : g[n] \in good[n]
    BY <1>0, <1>7, <1>8, LoopKeeps
  <2> QED BY <1>0, <2>1
<1>10. PICK acc \in Split : acc = g[Len(text)] /\ SolidPending(acc) = So(Len(text))
  BY <1>0, <1>6, <1>9
<1>11. /\ acc \in [sentences : Seq(Phrases), current : Phrases]
       /\ \A i \in 1..Len(acc.sentences) :
              Trimmed(acc.sentences[i]) /\ Last(acc.sentences[i]) \in Terminators
       /\ \A k \in 1..Len(acc.current) : acc.current[k] \notin Terminators
  BY DEF Split
<1>12. PICK split \in Seq(Phrases) : split = SplitIntoSentences(text)
  BY <1>1, <1>10, <1>11, PushTrimmedAdds
<1>13. Solid(FlattenSeq(split)) = Solid(text)
  BY <1>1, <1>3, <1>10, <1>11, <1>12, PushTrimmedAdds DEF SolidPending
<1>14. \/ split = acc.sentences
       \/ \E sentence \in Phrases :
             split = Append(acc.sentences, sentence) /\ Trimmed(sentence)
  BY <1>1, <1>10, <1>11, <1>12, PushTrimmedAdds
<1>15. ASSUME NEW i \in 1..Len(split)
       PROVE  /\ Trimmed(split[i])
              /\ i < Len(split) => Last(split[i]) \in Terminators
  <2>1. CASE split = acc.sentences
    BY <1>11, <1>15, <2>1
  <2>2. CASE \E sentence \in Phrases :
                split = Append(acc.sentences, sentence) /\ Trimmed(sentence)
    <3>1. PICK sentence \in Phrases :
             split = Append(acc.sentences, sentence) /\ Trimmed(sentence)
      BY <2>2
    <3>2. PICK old \in Seq(Phrases) : old = acc.sentences
      BY <1>11
    <3>3. /\ Len(old) \in Nat /\ Len(split) = Len(old) + 1
          /\ split[Len(old) + 1] = sentence
          /\ \A j \in 1..Len(old) : split[j] = old[j]
      BY <3>1, <3>2, AppendProperties, LenProperties
    <3> QED BY <1>11, <1>15, <3>1, <3>2, <3>3
  <2> QED BY <1>14, <2>1, <2>2
<1>16. DOMAIN split = 1..Len(split)
  BY LenProperties
<1> QED BY <1>12, <1>13, <1>15, <1>16

\* Whatever a phonemizer answers are texts.
LEMMA AnswersTyped ==
    ASSUME Tables, NEW input \in Inputs
    PROVE  Answers(input) \in Seq(Phrases)
<1>1. CASE input.by = "espeak-rs"
  <2>1. input.lines \in Seq(Seq(Clauses))
    BY <1>1 DEF Tables, EncodingAssumption
  <2> QED BY <1>1, <2>1, EspeakAnswers DEF Answers
<1>2. CASE input.by = "port"
  <2>1. input.sentences \in Seq(Phrases)
    BY <1>2 DEF Tables, EncodingAssumption, Phrases
  <2> QED BY <1>2, <2>1 DEF Answers
<1>3. CASE input.by \notin {"espeak-rs", "port"}
  <2>1. input.by \in {"espeak-ng", "stub"} /\ input.text \in Phrases
    BY <1>3 DEF Tables, EncodingAssumption, Phrases
  <2>2. CASE input.by = "espeak-ng"
    <3>1. <<input.text>> \in Seq(Phrases)
      BY <2>1
    <3> QED BY <2>2, <3>1 DEF Answers
  <2>3. CASE input.by = "stub"
    BY <2>1, <2>3, StubAnswers DEF Answers
  <2> QED BY <2>1, <2>2, <2>3
<1> QED BY <1>1, <1>2, <1>3

-----------------------------------------------------------------------------
(* The loop of encode_phonemes, step by step.                               *)

LEMMA EncodingStarts ==
    ASSUME Tables, EncodingInit
    PROVE  Encoding
<1>1. sentences \in Seq(Phrases)
  <2>1. CASE Refuses(spoken)
    BY <2>1, EmptySeq DEF EncodingInit
  <2>2. CASE ~Refuses(spoken)
    BY <2>2, AnswersTyped DEF EncodingInit
  <2> QED BY <2>1, <2>2
<1> QED BY <1>1 DEF EncodingInit, Encoding

LEMMA EncodingBegins ==
    ASSUME Tables, Encoding, Begin
    PROVE  Encoding'
<1>1. map' = map /\ sentences' = sentences
  BY DEF Begin
<1>2. PICK none \in Phrases : none = <<>>
  BY EmptySeq DEF Phrases
<1>3. Text \in Phrases /\ Text = none \o Text
  <2>1. Text \in Phrases
    BY JoinIsLaid, NFDTyped DEF Text, Encoding, Phrases
  <2> QED BY <1>2, <2>1, ConcatEmptySeq DEF Phrases
<1>4. Body(none) = <<>> /\ Unmapped(none) = <<>>
  BY <1>2, IdsSpelt, DroppedSpelt, SpeltEmpty DEF Encoding
<1>5. SoFar(none) = Sentinel(BOS)
  <2>1. PICK bos \in Seq(Int) : bos = Sentinel(BOS)
    BY EncodingTypes, SentinelTyped DEF Encoding
  <2> QED BY <1>4, <2>1, ConcatEmptySeq DEF SoFar
<1>6. WarnedOf(none) = MissingSentinels
  <2>1. PICK missing \in Seq(Alerts) : missing = MissingSentinels
    BY SentinelsWarnedOf
  <2>2. Warn("UnmappedPhoneme", <<>>) = <<>>
    BY DEF Warn
  <2> QED BY <1>4, <2>1, <2>2, ConcatEmptySeq DEF WarnedOf
<1>7. /\ rest' = Text /\ pc' = "loop"
      /\ ids' = SoFar(none) /\ warnings' = WarnedOf(none)
  BY <1>5, <1>6 DEF Begin, Text
<1>8. SoFar(none)' = SoFar(none) /\ WarnedOf(none)' = WarnedOf(none) /\ Text' = Text
  BY <1>1, SameMap, SameText
<1> QED BY <1>1, <1>2, <1>3, <1>7, <1>8 DEF Encoding

LEMMA EncodingGoesOn ==
    ASSUME Tables, Encoding, EncodePhoneme \/ SkipUnmapped
    PROVE  Encoding'
<1>1. /\ map' = map /\ sentences' = sentences /\ pc' = pc
      /\ pc = "loop" /\ rest # <<>> /\ rest' = Tail(rest)
  BY DEF EncodePhoneme, SkipUnmapped
<1>2. PICK seen \in Phrases : /\ rest \in Phrases /\ Text = seen \o rest
                            /\ warnings = WarnedOf(seen) /\ ids = SoFar(seen)
  BY <1>1 DEF Encoding
<1>3. PICK ch \in Chars, more \in Phrases : ch = Head(rest) /\ more = Append(seen, ch)
  BY <1>1, <1>2, OneMoreSeen
<1>4. rest' \in Phrases /\ Text = more \o rest'
  BY <1>1, <1>2, <1>3, OneMoreSeen
<1>5. ids' = SoFar(more) /\ warnings' = WarnedOf(more)
  <2>1. CASE EncodePhoneme
    BY <1>2, <1>3, <2>1, SeenGrows DEF EncodePhoneme, Encoding
  <2>2. CASE SkipUnmapped
    BY <1>2, <1>3, <2>2, SeenGrows DEF SkipUnmapped, Encoding
  <2> QED BY <2>1, <2>2
<1>6. SoFar(more)' = SoFar(more) /\ WarnedOf(more)' = WarnedOf(more) /\ Text' = Text
  BY <1>1, SameMap, SameText
<1> QED BY <1>1, <1>3, <1>4, <1>5, <1>6 DEF Encoding

LEMMA EncodingEnds ==
    ASSUME Tables, Encoding, Finish
    PROVE  Encoding'
<1>1. /\ map' = map /\ sentences' = sentences /\ pc = "loop" /\ pc' = "done"
      /\ rest = <<>> /\ rest' = rest /\ warnings' = warnings
      /\ ids' = ids \o Sentinel(EOS)
  BY DEF Finish
<1>2. PICK seen \in Phrases : /\ rest \in Phrases /\ Text = seen \o rest
                            /\ warnings = WarnedOf(seen) /\ ids = SoFar(seen)
  BY <1>1 DEF Encoding
<1>3. /\ SoFar(seen)' = SoFar(seen) /\ WarnedOf(seen)' = WarnedOf(seen) /\ Text' = Text
      /\ Sentinel(EOS)' = Sentinel(EOS)
  BY <1>1, SameMap, SameText
<1> QED BY <1>1, <1>2, <1>3 DEF Encoding

LEMMA EncodingStutters ==
    ASSUME Encoding, UNCHANGED encodingVars
    PROVE  Encoding'
<1>1. /\ map' = map /\ sentences' = sentences /\ pc' = pc
      /\ rest' = rest /\ ids' = ids /\ warnings' = warnings
  BY DEF encodingVars
<1>2. /\ \A seen \in Phrases : SoFar(seen)' = SoFar(seen) /\ WarnedOf(seen)' = WarnedOf(seen)
      /\ Sentinel(EOS)' = Sentinel(EOS) /\ Text' = Text
  BY <1>1, SameMap, SameText
<1> QED BY <1>1, <1>2 DEF Encoding

\* At every moment of the loop what was seen and what is left make up the text,
\* and the ids and the warnings are those of what was seen (phoneme.rs:36-66).
THEOREM EncodingAlways == EncodingSpec => []Encoding
<1>1. EncodingInit => Encoding
  BY EncodingStarts, TablesHold
<1>2. Encoding /\ [EncodingNext]_encodingVars => Encoding'
  BY EncodingBegins, EncodingGoesOn, EncodingEnds, EncodingStutters, TablesHold
  DEF EncodingNext
<1> QED BY <1>1, <1>2, PTL DEF EncodingSpec

\* The ids encode_phonemes returns are those of phonemes_to_ids, for every map,
\* with or without sentinels, and every text (model.rs:58, "use
\* encode_phonemes"): TwinsAgree, for all inputs.
THEOREM EncodersAgree == EncodingSpec => []TwinsAgree
<1>1. Encoding => TwinsAgree
  <2> SUFFICES ASSUME Encoding, pc = "done"
               PROVE  ids = PhonemesToIds(JoinSentences(sentences))
    BY DEF TwinsAgree
  <2>1. PICK seen \in Phrases : /\ Text = seen \o rest /\ rest = <<>>
                                /\ ids = SoFar(seen) \o Sentinel(EOS)
    BY DEF Encoding
  <2>2. Text = seen
    BY <2>1, ConcatEmptySeq DEF Phrases
  <2> QED BY <2>1, <2>2 DEF SoFar, Text, PhonemesToIds
<1> QED BY <1>1, EncodingAlways, PTL

\* At every moment each phoneme seen that has no ids has its warning, in order
\* and as often as it occurred (phoneme.rs:40, 57): NothingDroppedSilently.
THEOREM EveryDropIsWarnedOf == EncodingSpec => []NothingDroppedSilently
<1>1. Encoding => NothingDroppedSilently
  <2> SUFFICES ASSUME Encoding, pc \in {"loop", "done"}
               PROVE  warnings = WarnedOf(SubSeq(Text, 1, Len(Text) - Len(rest)))
    BY DEF NothingDroppedSilently, WarnedOf, Text
  <2>1. PICK seen \in Seq(Chars) : /\ rest \in Seq(Chars) /\ Text = seen \o rest
                                   /\ warnings = WarnedOf(seen)
    BY DEF Encoding, Phrases
  <2>2. Len(Text) = Len(seen) + Len(rest) /\ Len(seen) \in Nat /\ Len(rest) \in Nat
    BY <2>1, ConcatProperties, LenProperties
  <2>3. Len(Text) - Len(rest) = Len(seen)
    BY <2>2
  <2>4. SubSeq(Text, 1, Len(seen)) = seen
    <3>1. CASE Len(seen) = 0
      BY <3>1, SubSeqEmpty, EmptySeq
    <3>2. CASE Len(seen) # 0
      <4>1. SubSeq(seen \o rest, 1, Len(seen)) = SubSeq(seen, 1, Len(seen))
        BY <2>1, <2>2, <3>2, SubSeqOfConcat1
      <4> QED BY <2>1, <4>1, SubSeqFull
    <3> QED BY <3>1, <3>2
  <2> QED BY <2>1, <2>3, <2>4
<1> QED BY <1>1, EncodingAlways, PTL

\* The ids of a sentence, alone and after another.
OwnIds == [text \in Phrases |-> Body(NFD(text))]
LaterIds == [text \in Phrases |-> Body(<<Space>>) \o Body(NFD(text))]

LEMMA BodySplits ==
    ASSUME Tables, map \in Maps
    PROVE  /\ \A text \in Phrases : Body(text) \in Seq(Int)
           /\ \A s, t \in Phrases : Body(s \o t) = Body(s) \o Body(t)
           /\ Body(<<>>) = <<>>
<1>1. \A text \in Phrases : Body(text) \in Seq(Int)
  BY IdsSpelt, SpeltTyped DEF Phrases
<1>2. ASSUME NEW s \in Phrases, NEW t \in Phrases
      PROVE  Body(s \o t) = Body(s) \o Body(t)
  <2>1. PICK both \in Phrases : both = s \o t
    BY ConcatProperties DEF Phrases
  <2>2. Spelt(s \o t, IdsOf) = Spelt(s, IdsOf) \o Spelt(t, IdsOf)
    BY IdsSpelt, SpeltConcat DEF Phrases
  <2> QED BY <2>1, <2>2, IdsSpelt
<1>3. Body(<<>>) = <<>>
  <2>1. PICK none \in Phrases : none = <<>>
    BY EmptySeq DEF Phrases
  <2> QED BY <2>1, IdsSpelt, SpeltEmpty
<1> QED BY <1>1, <1>2, <1>3

LEMMA PartIdsTyped ==
    ASSUME Tables, map \in Maps
    PROVE  Spells(OwnIds, Phrases, Int) /\ Spells(LaterIds, Phrases, Int)
<1>1. PICK gap \in Seq(Int) : gap = Body(<<Space>>)
  <2>1. <<Space>> \in Phrases
    BY JustSpace DEF Phrases
  <2> QED BY <2>1, BodySplits
<1>2. ASSUME NEW text \in Phrases
      PROVE  Body(NFD(text)) \in Seq(Int) /\ gap \o Body(NFD(text)) \in Seq(Int)
  <2>1. NFD(text) \in Phrases
    BY NFDTyped DEF Phrases
  <2>2. Body(NFD(text)) \in Seq(Int)
    BY <2>1, BodySplits
  <2> QED BY <2>2, ConcatProperties
<1> QED BY <1>1, <1>2 DEF Spells, OwnIds, LaterIds

\* The ids of sentences joined are the ids of each, in a row.
LEMMA IdsLieApart ==
    ASSUME Tables, map \in Maps, NEW texts \in Seq(Phrases)
    PROVE  Body(NFD(JoinSentences(texts))) = Laid(texts, OwnIds, LaterIds)
<1> DEFINE Apart(s) == Body(NFD(JoinSentences(s))) = Laid(s, OwnIds, LaterIds)
           Good == {n \in Nat : \A s \in Seq(Phrases) : Len(s) = n => Apart(s)}
<1>1. 0 \in Good
  <2>1. ASSUME NEW s \in Seq(Phrases), Len(s) = 0 PROVE Apart(s)
    <3>1. s = <<>>
      BY <2>1, EmptySeq
    <3>2. JoinSentences(s) = <<>>
      BY <3>1, JoinIsLaid, LaidEmpty
    <3> QED BY <3>1, <3>2, NFDEmpty, BodySplits, LaidEmpty
  <2> HIDE DEF Apart
  <2> QED BY <2>1
<1>2. ASSUME NEW n \in Good PROVE n + 1 \in Good
  <2>1. ASSUME NEW s \in Seq(Phrases), Len(s) = n + 1 PROVE Apart(s)
    <3>1. PICK t \in Seq(Phrases), x \in Phrases : s = Append(t, x)
      <4>1. s # <<>>
        BY <2>1, EmptySeq
      <4> QED BY <4>1, SequenceEmptyOrAppend
    <3>2. Len(t) = n
      BY <2>1, <3>1, AppendProperties, LenProperties
    <3>3. Apart(t)
      <4> HIDE DEF Apart
      <4> QED BY <1>2, <3>2
    <3>4. Len(s) = 1 => /\ Laid(s, AsItIs, AfterSpace) = AsItIs[s[1]]
                        /\ Laid(s, OwnIds, LaterIds) = OwnIds[s[1]]
      BY JoinIsLaid, PartIdsTyped, LaidOne
    <3>5. CASE t = <<>>
      <4>1. Len(s) = 1 /\ s[1] = x
        BY <3>1, <3>5
      <4>2. JoinSentences(s) = x
        BY <3>4, <4>1, JoinIsLaid DEF AsItIs
      <4> QED BY <3>4, <4>1, <4>2 DEF OwnIds
    <3>6. CASE t # <<>>
      <4>1. Laid(Append(t, x), AsItIs, AfterSpace) = Laid(t, AsItIs, AfterSpace) \o AfterSpace[x]
        BY <3>6, JoinIsLaid, LaidAppend
      <4>2. Laid(Append(t, x), OwnIds, LaterIds) = Laid(t, OwnIds, LaterIds) \o LaterIds[x]
        BY <3>6, PartIdsTyped, LaidAppend
      <4>3. PICK before \in Seq(Chars) : before = JoinSentences(t)
        BY JoinIsLaid DEF Phrases
      <4>4. JoinSentences(s) = before \o (<<Space>> \o x)
        BY <3>1, <4>1, <4>3, JoinIsLaid DEF AfterSpace
      <4>5. NFD(before \o (<<Space>> \o x)) = NFD(before) \o (<<Space>> \o NFD(x))
        BY NFDAroundSpace DEF Phrases
      <4>6. PICK first \in Phrases, second \in Phrases, space \in Phrases :
               first = NFD(before) /\ second = NFD(x) /\ space = <<Space>>
        BY NFDTyped, JustSpace DEF Phrases
      <4>7. PICK after \in Phrases : after = space \o second
        BY ConcatProperties DEF Phrases
      <4>8. /\ Body(first \o after) = Body(first) \o Body(after)
            /\ Body(after) = Body(space) \o Body(second)
        BY <4>7, BodySplits
      <4>9. Laid(t, OwnIds, LaterIds) = Body(first)
        BY <3>3, <4>3, <4>6
      <4>30. LaterIds[x] = Body(space) \o Body(second)
        BY <4>6 DEF LaterIds
      <4> QED BY <3>1, <4>2, <4>4, <4>5, <4>6, <4>7, <4>8, <4>9, <4>30
    <3> QED BY <3>5, <3>6
  <2> HIDE DEF Apart
  <2> QED BY <1>2, <2>1
<1>3. Good = Nat
  <2>1. Good \subseteq Nat
    OBVIOUS
  <2> HIDE DEF Good
  <2> QED BY <1>1, <1>2, <2>1, EspeakAssumptionHolds, EP!SetInduction
<1>4. Len(texts) \in Good
  <2>1. Len(texts) \in Nat
    BY LenProperties
  <2> HIDE DEF Good
  <2> QED BY <1>3, <2>1
<1> HIDE DEF Apart
<1>5. Apart(texts)
  BY <1>4
<1> QED BY <1>5 DEF Apart

\* The ids of an answer are those of its sentences, each normalised by itself,
\* with the ids of a space in between (synthesize.rs:59): SentencesStayApart,
\* for any number of sentences of any length, whatever marks they start with.
THEOREM SentencesNeverTouch == EncodingSpec => []SentencesStayApart
<1>1. Encoding => SentencesStayApart
  <2> DEFINE Part(i) == IF i = 1 THEN Body(NFD(sentences[i]))
                        ELSE Body(<<Space>>) \o Body(NFD(sentences[i]))
             Parts == [i \in DOMAIN sentences |-> Part(i)]
  <2> SUFFICES ASSUME Encoding, pc = "done"
               PROVE  ids = Sentinel(BOS) \o FlattenSeq(Parts) \o Sentinel(EOS)
    BY DEF SentencesStayApart
  <2>1. PICK seen \in Phrases : /\ Text = seen \o rest /\ rest = <<>>
                                /\ ids = SoFar(seen) \o Sentinel(EOS)
    BY DEF Encoding
  <2>2. Text = seen
    BY <2>1, ConcatEmptySeq DEF Phrases
  <2>3. Parts = Framed(sentences, OwnIds, LaterIds)
    <3>1. \A i \in DOMAIN sentences : sentences[i] \in Phrases
      BY ElementOfSeq, LenProperties DEF Encoding
    <3> QED BY <3>1 DEF Framed, OwnIds, LaterIds
  <2>4. FlattenSeq(Parts) = Body(seen)
    <3> HIDE DEF Parts
    <3>1. Body(Text) = Laid(sentences, OwnIds, LaterIds)
      BY IdsLieApart, TablesHold DEF Encoding, Text
    <3> QED BY <2>2, <2>3, <3>1 DEF Laid
  <2> HIDE DEF Parts
  <2> QED BY <2>1, <2>4 DEF SoFar
<1> QED BY <1>1, EncodingAlways, PTL

\* The answer of a phonemizer to what it was given, which no later step changes.
Answered ==
    /\ spoken \in Inputs
    /\ pc # "refused" => sentences = Answers(spoken)

LEMMA AnswerStays == EncodingSpec => []Answered
<1>1. EncodingInit => Answered
  BY DEF EncodingInit, Answered
<1>2. Answered /\ [EncodingNext]_encodingVars => Answered'
  BY DEF Answered, EncodingNext, Begin, EncodePhoneme, SkipUnmapped, Finish, encodingVars
<1> QED BY <1>1, <1>2, PTL DEF EncodingSpec

\* No phonemizer loses or invents text, for clauses, lines and texts of any
\* length (espeak-rs lib.rs:201-300, stub-adapter lib.rs:35-53).
THEOREM TextIsKept == EncodingSpec => []PhonemizersKeepText
<1>1. Answered => PhonemizersKeepText
  <2> SUFFICES ASSUME Answered, pc # "refused"
               PROVE  /\ spoken.by = "espeak-rs" =>
                            /\ \A i \in DOMAIN sentences : sentences[i] # <<>>
                            /\ FlattenSeq(sentences) = Said(spoken.lines)
                      /\ spoken.by = "stub" =>
                            /\ Solid(FlattenSeq(sentences)) = Solid(spoken.text)
                            /\ \A i \in DOMAIN sentences :
                                  /\ Trimmed(sentences[i])
                                  /\ i < Len(sentences) => Last(sentences[i]) \in Terminators
    BY DEF PhonemizersKeepText
  <2>1. CASE spoken.by = "espeak-rs"
    <3>1. spoken.lines \in Seq(Seq(Clauses)) /\ sentences = TextToPhonemes(spoken.lines)
      BY <2>1, TablesHold DEF Tables, EncodingAssumption, Answered, Answers
    <3> QED BY <2>1, <3>1, EspeakAnswers, TablesHold
  <2>2. CASE spoken.by = "stub"
    <3>1. spoken.text \in Phrases /\ sentences = SplitIntoSentences(spoken.text)
      BY <2>2, TablesHold DEF Tables, EncodingAssumption, Answered, Answers, Phrases
    <3> QED BY <2>2, <3>1, StubAnswers
  <2> QED BY <2>1, <2>2
<1> QED BY <1>1, AnswerStays, PTL

=============================================================================
