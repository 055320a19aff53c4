-------------------------- MODULE PhonemizerSystem --------------------------
(***************************************************************************)
(* A program that phonemizes: one EspeakRsPhonemizer, whose worker thread  *)
(* runs espeak_rs::text_to_phonemes for its callers, next to other threads *)
(* of the process that call text_to_phonemes themselves (the workers of    *)
(* other phonemizers, direct users of the crate).  The only thing they     *)
(* share is ESPEAK_LOCK and the C library behind it.                       *)
(*                                                                         *)
(* The module composes PhonemizerWorker with Espeak: the processor of the  *)
(* worker is the closure of PhonemizerWorker::new, one call of Espeak.     *)
(***************************************************************************)
EXTENDS Naturals, Sequences, FiniteSets

CONSTANTS
    Callers, QueueCapacity,                            \* of the phonemizer
    Direct, DirectLanguages,                           \* other threads
    Worker,                                            \* the worker thread
    Languages, Installed, Malformed, Texts, MaxPieces, Timeout, None

ASSUME SystemAssumption ==
    /\ IsFiniteSet(Callers)
    /\ None \notin Callers \cup Direct \cup {Worker} \cup Languages
    /\ Worker \notin Direct
    /\ DirectLanguages \subseteq Languages
    /\ Installed \subseteq Languages \ Malformed
    /\ Texts \subseteq Seq({"plain", "nul"})
    /\ QueueCapacity \in Nat /\ MaxPieces \in Nat /\ Timeout \in Nat

VARIABLES
    holder, poisoned, state, engine, epc, call, result,      \* Espeak
    handle, queue, worker, job, reply, cpc, outcome,         \* the phonemizer
    want,      \* what each caller asked for: text and voice, carried by its job,
               \* and whether ESPEAK_LOCK was poisoned by then
    got        \* the sentences in its response channel, or returned to it

espeak == <<holder, poisoned, state, engine, epc, call, result>>
phonemizer == <<handle, queue, worker, job, reply, cpc, outcome>>
vars == <<espeak, phonemizer, want, got>>

\* The worker passes no phoneme separator.
E == INSTANCE Espeak WITH
    Threads <- Direct \cup {Worker}, Separators <- {"none"}, pc <- epc

W == INSTANCE PhonemizerWorker WITH pc <- cpc

Requests == [language : Languages, text : Texts]
NoRequest == [language |-> None, text |-> <<>>, late |-> FALSE]

Init ==
    /\ E!Init
    /\ W!Init
    /\ want = [c \in Callers |-> NoRequest]
    /\ got = [c \in Callers |-> <<>>]

\* EspeakRsPhonemizer::phonemize: the job owns copies of text and voice.
Phonemize(c, request) ==
    /\ W!Phonemize(c)
    /\ want' = [want EXCEPT ![c] = [language |-> request.language,
                                    text |-> request.text, late |-> poisoned]]
    /\ got' = [got EXCEPT ![c] = <<>>]
    /\ UNCHANGED espeak

\* The worker takes a job and enters text_to_phonemes with its arguments.
StartJob ==
    /\ W!Receive
    /\ LET request == want[Head(queue)]
       IN  E!Call(Worker, request.language, "none", request.text)
    /\ UNCHANGED <<want, got>>

\* text_to_phonemes has returned in the worker: its result goes to the caller.
FinishJob ==
    /\ epc[Worker] = "idle"
    /\ result[Worker] # "panicked"
    /\ W!Complete(result[Worker])
    /\ got' = [got EXCEPT ![job] = call[Worker].sentences]
    /\ UNCHANGED <<espeak, want>>

\* Faulty variant: an Err of espeak-rs is unwrapped in the worker.
AbandonOnError ==
    /\ epc[Worker] = "idle"
    /\ result[Worker] \in {"failure", "panicked"}
    /\ W!PanicInProcessor
    /\ UNCHANGED <<espeak, want, got>>

\* It panicked: the panic goes on through the worker's loop.
AbandonJob ==
    /\ epc[Worker] = "idle"
    /\ result[Worker] = "panicked"
    /\ W!PanicInProcessor
    /\ UNCHANGED <<espeak, want, got>>

\* Steps of the worker and its callers that do not touch espeak-rs.
PhonemizerStep ==
    /\ \/ \E c \in Callers : W!Return(c)
       \/ W!DropReceiver
       \/ W!WorkerEnds
       \/ W!DropHandle
    /\ UNCHANGED <<espeak, want, got>>

\* Steps inside text_to_phonemes, and calls of the other threads.
EspeakStep ==
    /\ \/ \E t \in Direct, language \in DirectLanguages, text \in Texts :
             E!Call(t, language, "none", text)
       \/ \E t \in Direct \cup {Worker} : E!ThreadStep(t)
    /\ UNCHANGED <<phonemizer, want, got>>

Terminated == W!Terminated /\ UNCHANGED <<espeak, want, got>>

Next ==
    \/ \E c \in Callers, request \in Requests : Phonemize(c, request)
    \/ StartJob \/ FinishJob \/ AbandonJob
    \/ PhonemizerStep \/ EspeakStep
    \/ Terminated

Spec == Init /\ [][Next]_vars

\* Threads that can run do run, time passes, and each call of the C library
\* returns; a mutex nobody else contends for is acquired.
InEspeak(A) == A /\ UNCHANGED <<phonemizer, want, got>>
InPhonemizer(A) == A /\ UNCHANGED <<espeak, want, got>>

Fairness ==
    /\ WF_vars(InEspeak(E!Acquire(Worker)))
    /\ WF_vars(InEspeak(E!HolderStep(Worker)))
    /\ WF_vars(InEspeak(E!FfiReturn(Worker)))
    /\ WF_vars(InEspeak(E!Tick(Worker)))
    /\ WF_vars(StartJob) /\ WF_vars(FinishJob) /\ WF_vars(AbandonJob)
    /\ WF_vars(InPhonemizer(W!DropReceiver))
    /\ WF_vars(InPhonemizer(W!WorkerEnds))
    /\ \A c \in Callers : WF_vars(InPhonemizer(W!Return(c)))

FairSpec == Spec /\ Fairness

-----------------------------------------------------------------------------
(* Properties.                                                             *)

\* Every variable has its type, and the worker is inside text_to_phonemes only
\* while it has a job.
TypeOK ==
    /\ E!TypeOK
    /\ W!TypeOK
    /\ want \in [Callers -> [language: Languages \cup {None},
                             text: Texts \cup {<<>>}, late: BOOLEAN]]
    /\ got \in [Callers -> Seq(Seq(E!Piece))]
    /\ epc[Worker] # "idle" => worker = "processing"

\* Each caller gets its own answer: every piece of it was spoken in the voice
\* of its request, and comes from a line its text has.  No interleaving of
\* callers, of other users of espeak-ng or of failures swaps two results.
AnswerIsOwn ==
    \A c \in Callers : outcome[c] = "ok" =>
        \A i \in DOMAIN got[c] : \A j \in DOMAIN got[c][i] :
            /\ got[c][i][j].voice = want[c].language
            /\ got[c][i][j].line \in 1..Len(want[c].text)

\* A panic anywhere under ESPEAK_LOCK ends phonemization for the process: no
\* call made after it is answered Ok, even if the panic was in a thread that
\* has nothing to do with this phonemizer.
PoisonReachesCallers ==
    \A c \in Callers : want[c].late => outcome[c] # "ok" /\ reply[c] # "ok"

\* The worker's loop ends only by a panic of its own or when the phonemizer is
\* dropped: a lock poisoned by another thread gives its callers an error each,
\* and leaves it running.
WorkerOutlivesPoison ==
    worker \in {"unwinding", "gone"} =>
        result[Worker] = "panicked" \/ handle = "dropped"

\* Once the other threads of the process leave espeak-rs alone, each call of
\* phonemize returns: from the queue through the worker and text_to_phonemes
\* and back, whatever initialisations, deadlines and panics of anybody's went
\* before.  While they go on, std's Mutex may pass the worker over for ever.
OthersLeave == <>[](\A t \in Direct : epc[t] = "idle")

PhonemizeReturns ==
    OthersLeave => \A c \in Callers : cpc[c] = "waiting" ~> cpc[c] = "idle"

=============================================================================
