------------------------------- MODULE Espeak -------------------------------
(***************************************************************************)
(* The process-wide eSpeak-ng session of the crate espeak-rs               *)
(* (crates/espeak-rs/src/lib.rs): threads call text_to_phonemes, which     *)
(* takes ESPEAK_LOCK, initialises the C library once, switches its voice   *)
(* when the cached language differs, and then feeds the text to            *)
(* espeak_TextToPhonemesWithTerminator clause by clause under a            *)
(* cooperative deadline.                                                   *)
(*                                                                         *)
(* Data are abstracted to what can be confused: a piece of output carries  *)
(* the voice the C library spoke it in, the line it came from and its      *)
(* place in the call's output; a line of text is "plain" or holds a "nul"  *)
(* byte; a clause cursor is "stuck", has "moved", or is at the "end".      *)
(* The C library itself (variable engine, and the outcomes of its calls)   *)
(* is external: it may answer anything its interface allows.               *)
(***************************************************************************)
EXTENDS Naturals, Sequences, SequencesExt

CONSTANTS
    Threads,    \* callers of text_to_phonemes
    Languages,  \* every language name a caller may pass
    Installed,  \* those espeak_SetVoiceByName can find
    Malformed,  \* those that contain a NUL byte
    Texts,      \* the texts, each a sequence of lines
    Separators, \* phoneme_separator: "none", one byte "narrow", or "wide"
    MaxPieces,  \* bound: clauses with output in one call
    Timeout,    \* PHONEMIZATION_TIMEOUT, in ticks
    None        \* no thread, no language

ASSUME EspeakAssumption ==
    /\ None \notin Threads \cup Languages
    /\ Installed \subseteq Languages \ Malformed
    /\ Texts \subseteq Seq({"plain", "nul"})
    /\ Separators \subseteq {"none", "narrow", "wide"}
    /\ MaxPieces \in Nat
    /\ Timeout \in Nat

VARIABLES
    holder,     \* the thread holding ESPEAK_LOCK, or None
    poisoned,   \* the poison flag of ESPEAK_LOCK
    state,      \* EspeakState, the data ESPEAK_LOCK guards
    engine,     \* the C library: successful initialisations, active voice
    pc,         \* where each thread is in text_to_phonemes
    call,       \* arguments and locals of its current or last call
    result      \* what that call returned

vars == <<holder, poisoned, state, engine, pc, call, result>>

\* The points of text_to_phonemes another thread, a panic or the clock can
\* come between.  "initialized" and "switched" lie between a C call that
\* succeeded and the assignment that records it.
Critical == {"init", "initialized", "voice", "switch", "switched", "mode",
             "line", "clause", "ffi", "flush"}

Outcomes == {"none", "ok", "timeout", "failure", "panicked"}

Piece == [voice: Languages \cup {None}, line: Nat, nth: Nat]

Calls == [language: Languages \cup {None}, separator: {"none", "narrow", "wide"},
          text: Seq({"plain", "nul"}), line: Nat, elapsed: 0..(Timeout + 1),
          spoken: Nat, current: Seq(Piece), sentences: Seq(Seq(Piece))]

\* The locals text_to_phonemes starts with.
Fresh(language, separator, text) ==
    [language |-> language, separator |-> separator, text |-> text, line |-> 1,
     elapsed |-> 0, spoken |-> 0, current |-> <<>>, sentences |-> <<>>]

Init ==
    /\ holder = None
    /\ poisoned = FALSE
    /\ state = [initialized |-> FALSE, current_language |-> None]
    /\ engine = [inits |-> 0, voice |-> None]
    /\ pc = [t \in Threads |-> "idle"]
    /\ call = [t \in Threads |-> Fresh(None, "none", <<>>)]
    /\ result = [t \in Threads |-> "none"]

-----------------------------------------------------------------------------
(* Entering and leaving the critical section.                              *)

Goto(t, label) == pc' = [pc EXCEPT ![t] = label]

\* Every return path drops the MutexGuard; only Ok hands sentences out.
Leave(t, outcome, sentences) ==
    /\ holder' = None
    /\ Goto(t, "idle")
    /\ result' = [result EXCEPT ![t] = outcome]
    /\ call' = [call EXCEPT ![t] = [@ EXCEPT !.sentences = sentences,
                                             !.current = <<>>,
                                             !.elapsed = 0]]

Fail(t, outcome) == Leave(t, outcome, <<>>)

Call(t, language, separator, text) ==
    /\ pc[t] = "idle"
    /\ Goto(t, "lock")
    /\ call' = [call EXCEPT ![t] = Fresh(language, separator, text)]
    /\ result' = [result EXCEPT ![t] = "none"]
    /\ UNCHANGED <<holder, poisoned, state, engine>>

\* Faulty variants: no mutual exclusion; a poisoned lock entered anyway.
LockFreeIgnored(t) == TRUE
PoisonIgnored == FALSE

\* lock() succeeds only when nobody else holds the mutex.
LockFree(t) == holder = None

LockIsPoisoned == poisoned

Acquire(t) ==
    /\ pc[t] = "lock"
    /\ LockFree(t)
    /\ \/ /\ LockIsPoisoned
          /\ Fail(t, "failure")
       \/ /\ ~LockIsPoisoned
          /\ holder' = t
          /\ Goto(t, IF state.initialized THEN "voice" ELSE "init")
          /\ UNCHANGED <<call, result>>
    /\ UNCHANGED <<poisoned, state, engine>>

-----------------------------------------------------------------------------
(* ensure_initialized and init_espeak.                                     *)

\* espeak_Initialize succeeds; or it fails, or the data directory is not a
\* C string, and the call fails with nothing recorded: the next one retries.
InitEspeak(t) ==
    /\ pc[t] = "init"
    /\ \/ /\ engine' = [engine EXCEPT !.inits = @ + 1]
          /\ Goto(t, "initialized")
          /\ UNCHANGED <<holder, call, result>>
       \/ /\ Fail(t, "failure")
          /\ UNCHANGED engine
    /\ UNCHANGED <<poisoned, state>>

\* Faulty variant: the success is never recorded.
InitializedForgotten(t) ==
    /\ pc[t] = "initialized"
    /\ Goto(t, "voice")
    /\ UNCHANGED <<holder, poisoned, state, engine, call, result>>

RecordInitialized(t) ==
    /\ pc[t] = "initialized"
    /\ state' = [state EXCEPT !.initialized = TRUE]
    /\ Goto(t, "voice")
    /\ UNCHANGED <<holder, poisoned, engine, call, result>>

-----------------------------------------------------------------------------
(* ensure_voice.                                                           *)

\* Faulty variant: every call switches the voice.
NeverCached(t) == FALSE

VoiceIsCached(t) == state.current_language = call[t].language

EnsureVoice(t) ==
    /\ pc[t] = "voice"
    /\ \/ /\ VoiceIsCached(t)
          /\ Goto(t, "mode")
          /\ UNCHANGED <<holder, call, result>>
       \/ /\ ~VoiceIsCached(t)
          /\ call[t].language \in Malformed
          /\ Fail(t, "failure")
       \/ /\ ~VoiceIsCached(t)
          /\ call[t].language \notin Malformed
          /\ Goto(t, "switch")
          /\ UNCHANGED <<holder, call, result>>
    /\ UNCHANGED <<poisoned, state, engine>>

\* Faulty variant: the language is cached before the switch is known to work.
CachedTooEarly(t) ==
    /\ pc[t] = "switch"
    /\ state' = [state EXCEPT !.current_language = call[t].language]
    /\ \/ /\ call[t].language \in Installed
          /\ engine' = [engine EXCEPT !.voice = call[t].language]
          /\ Goto(t, "switched")
          /\ UNCHANGED <<holder, call, result>>
       \/ /\ call[t].language \notin Installed
          /\ Fail(t, "failure")
          /\ UNCHANGED engine
    /\ UNCHANGED poisoned

\* espeak_SetVoiceByName: an unknown name leaves the active voice alone.
SetVoiceByName(t) ==
    /\ pc[t] = "switch"
    /\ \/ /\ call[t].language \in Installed
          /\ engine' = [engine EXCEPT !.voice = call[t].language]
          /\ Goto(t, "switched")
          /\ UNCHANGED <<holder, call, result>>
       \/ /\ call[t].language \notin Installed
          /\ Fail(t, "failure")
          /\ UNCHANGED engine
    /\ UNCHANGED <<poisoned, state>>

RecordVoice(t) ==
    /\ pc[t] = "switched"
    /\ state' = [state EXCEPT !.current_language = call[t].language]
    /\ Goto(t, "mode")
    /\ UNCHANGED <<holder, poisoned, engine, call, result>>

-----------------------------------------------------------------------------
(* The body of text_to_phonemes, with the lock held.                       *)

\* The separator is checked only now, after the voice switch.
ChooseMode(t) ==
    /\ pc[t] = "mode"
    /\ \/ /\ call[t].separator = "wide"
          /\ Fail(t, "failure")
       \/ /\ call[t].separator # "wide"
          /\ Goto(t, "line")
          /\ UNCHANGED <<holder, call, result>>
    /\ UNCHANGED <<poisoned, state, engine>>

NextLine(t) ==
    /\ pc[t] = "line"
    /\ \/ /\ call[t].line > Len(call[t].text)
          /\ Leave(t, "ok", call[t].sentences)
       \/ /\ call[t].line <= Len(call[t].text)
          /\ call[t].text[call[t].line] = "nul"
          /\ Fail(t, "failure")
       \/ /\ call[t].line <= Len(call[t].text)
          /\ call[t].text[call[t].line] = "plain"
          /\ Goto(t, "clause")
          /\ UNCHANGED <<holder, call, result>>
    /\ UNCHANGED <<poisoned, state, engine>>

\* Faulty variant: no deadline.
NeverOverdue(t) == FALSE

Overdue(t) == call[t].elapsed > Timeout

BeginClause(t) ==
    /\ pc[t] = "clause"
    /\ \/ /\ Overdue(t)
          /\ Fail(t, "timeout")
       \/ /\ ~Overdue(t)
          /\ Goto(t, "ffi")
          /\ UNCHANGED <<holder, call, result>>
    /\ UNCHANGED <<poisoned, state, engine>>

\* Faulty variant: the sentence under construction is not cleared.
PushKept(locals) ==
    IF locals.current = <<>> THEN locals
    ELSE [locals EXCEPT !.sentences = Append(@, locals.current)]

\* sentences.push(mem::take(&mut current)), guarded by !current.is_empty().
PushSentence(locals) ==
    IF locals.current = <<>> THEN locals
    ELSE [locals EXCEPT !.sentences = Append(@, locals.current),
                        !.current = <<>>]

\* The clause text and its terminator character, appended to the sentence.
\* A clause can come back with neither.
PushClause(locals) ==
    [locals EXCEPT
        !.current = Append(@, [voice |-> engine.voice, line |-> locals.line,
                               nth |-> locals.spoken + 1]),
        !.spoken = @ + 1]

AfterClause(cursor) == IF cursor = "end" THEN "flush" ELSE "clause"

ReturnLate(t) ==
    /\ pc[t] = "ffi"
    /\ Overdue(t)
    /\ Fail(t, "timeout")
    /\ UNCHANGED <<poisoned, state, engine>>

ReturnNull(t, cursor) ==
    /\ pc[t] = "ffi"
    /\ ~Overdue(t)
    /\ \/ /\ cursor = "stuck"
          /\ Fail(t, "failure")
       \/ /\ cursor # "stuck"
          /\ Goto(t, AfterClause(cursor))
          /\ UNCHANGED <<holder, call, result>>
    /\ UNCHANGED <<poisoned, state, engine>>

ReturnClause(t, empty, sentenceEnd, cursor) ==
    LET heard == IF empty THEN call[t] ELSE PushClause(call[t])
        kept == IF sentenceEnd THEN PushSentence(heard) ELSE heard
    IN  /\ pc[t] = "ffi"
        /\ ~Overdue(t)
        /\ empty \/ call[t].spoken < MaxPieces
        /\ \/ /\ cursor = "stuck"
              /\ Fail(t, "failure")
           \/ /\ cursor # "stuck"
              /\ Goto(t, AfterClause(cursor))
              /\ call' = [call EXCEPT ![t] = kept]
              /\ UNCHANGED <<holder, result>>
        /\ UNCHANGED <<poisoned, state, engine>>

\* Faulty variant: the end of a line does not end the sentence.
NoFlush(locals) == [locals EXCEPT !.line = @ + 1]

\* The end of a line ends the sentence, whatever the last terminator said.
Flush(locals) == [PushSentence(locals) EXCEPT !.line = locals.line + 1]

EndLine(t) ==
    /\ pc[t] = "flush"
    /\ call' = [call EXCEPT ![t] = Flush(call[t])]
    /\ Goto(t, "line")
    /\ UNCHANGED <<holder, poisoned, state, engine, result>>

-----------------------------------------------------------------------------
(* The environment: the clock, and panics.                                 *)

\* started_at.elapsed() grows between the start of the timer and the return.
Tick(t) ==
    /\ pc[t] \in {"line", "clause", "ffi", "flush"}
    /\ call[t].elapsed <= Timeout
    /\ call' = [call EXCEPT ![t].elapsed = @ + 1]
    /\ UNCHANGED <<holder, poisoned, state, engine, pc, result>>

\* A panic in Rust code under the lock: unwinding drops the guard, which
\* releases the mutex and poisons it.  C code cannot unwind into Rust.
Panic(t) ==
    /\ pc[t] \in Critical \ {"ffi"}
    /\ poisoned' = TRUE
    /\ Fail(t, "panicked")
    /\ UNCHANGED <<state, engine>>

-----------------------------------------------------------------------------

\* espeak_TextToPhonemesWithTerminator returns.
FfiReturn(t) ==
    \/ ReturnLate(t)
    \/ \E cursor \in {"stuck", "moved", "end"} :
          \/ ReturnNull(t, cursor)
          \/ \E empty, sentenceEnd \in BOOLEAN :
                ReturnClause(t, empty, sentenceEnd, cursor)

\* The steps a thread inside the critical section takes on its own.
HolderStep(t) ==
    \/ InitEspeak(t) \/ RecordInitialized(t)
    \/ EnsureVoice(t) \/ SetVoiceByName(t) \/ RecordVoice(t)
    \/ ChooseMode(t) \/ NextLine(t) \/ BeginClause(t) \/ EndLine(t)

NewCall(t) ==
    \E language \in Languages, separator \in Separators, text \in Texts :
        Call(t, language, separator, text)

\* What a thread does between its call and its return.
ThreadStep(t) ==
    Acquire(t) \/ HolderStep(t) \/ FfiReturn(t) \/ Tick(t) \/ Panic(t)

Next == \E t \in Threads : NewCall(t) \/ ThreadStep(t)

Spec == Init /\ [][Next]_vars

\* Fairness of everything but the C call: the scheduler runs a thread that
\* can run, and time passes.  std's Mutex promises no fairness to waiters.
RustFairness ==
    \A t \in Threads : WF_vars(HolderStep(t)) /\ WF_vars(Tick(t))

FairSpec ==
    Spec /\ RustFairness /\ \A t \in Threads : WF_vars(FfiReturn(t))

\* The C call is free to block for ever inside espeak-ng.
BlockingSpec == Spec /\ RustFairness

-----------------------------------------------------------------------------
(* Properties.                                                             *)

\* Every variable has its type, and locals hold what their names say.
TypeOK ==
    /\ holder \in Threads \cup {None}
    /\ poisoned \in BOOLEAN
    /\ state \in [initialized : BOOLEAN, current_language : Languages \cup {None}]
    /\ engine \in [inits : Nat, voice : Languages \cup {None}]
    /\ pc \in [Threads -> Critical \cup {"idle", "lock"}]
    /\ call \in [Threads -> Calls]
    /\ result \in [Threads -> Outcomes]

\* espeak-ng's global C state is touched by one thread at a time: a thread is
\* between acquire_or_fail and the drop of its guard exactly while it holds
\* ESPEAK_LOCK, on error paths and after panics too.
MutualExclusion ==
    \A t \in Threads : pc[t] \in Critical <=> holder = t

\* The cached language is the voice the C library speaks in.  It is stale only
\* between espeak_SetVoiceByName and the assignment that records it, or behind
\* a poisoned lock, where nobody will read it.
VoiceCacheCoherent ==
    \/ state.current_language = engine.voice
    \/ poisoned
    \/ \E t \in Threads : pc[t] = "switched"

\* What text_to_phonemes returns was spoken in the language this caller asked
\* for, whatever calls, failed switches and panics of others came between.
OkInOwnVoice ==
    \A t \in Threads : result[t] = "ok" =>
        \A i \in DOMAIN call[t].sentences :
            \A j \in DOMAIN call[t].sentences[i] :
                call[t].sentences[i][j].voice = call[t].language

\* Ok hands over every clause espeak-ng produced, once, in order: none is lost
\* at a sentence end, at a line end or at the end of the text, and no sentence
\* is empty.
NoClauseLost ==
    \A t \in Threads : result[t] = "ok" =>
        LET heard == FlattenSeq(call[t].sentences)
        IN  /\ Len(heard) = call[t].spoken
            /\ \A n \in DOMAIN heard : heard[n].nth = n
            /\ \A i \in DOMAIN call[t].sentences : call[t].sentences[i] # <<>>

\* No sentence runs over the end of a line: the buffer is flushed between lines
\* even when the last clause of a line did not end a sentence.
SentenceWithinLine ==
    \A t \in Threads : \A i \in DOMAIN call[t].sentences :
        \A j, k \in DOMAIN call[t].sentences[i] :
            call[t].sentences[i][j].line = call[t].sentences[i][k].line

\* espeak_SetVoiceByName is never called for the voice already active: each
\* such call would leak inside the C library (the comment in ensure_voice).
NoRedundantSwitch ==
    \A t \in Threads : pc[t] = "switch" => engine.voice # call[t].language

\* espeak_Initialize succeeds at most once in a process, however many callers
\* race for the first use, fail and retry, or panic half way.
InitializedOnce == engine.inits <= 1

\* The points after ensure_voice, where the caller's voice is active.
Speaking == {"mode", "line", "clause", "ffi", "flush"}

\* The inductive invariant behind the safety properties above: who is where in
\* the critical section fixes what the cached state and the C library hold, and
\* all output collected so far was spoken in the call's own language.
IndInv ==
    /\ TypeOK
    /\ MutualExclusion
    /\ VoiceCacheCoherent
    /\ poisoned => holder = None
    /\ engine.inits <= 1
    /\ \/ poisoned
       \/ engine.inits = 1 <=>
             state.initialized \/ \E t \in Threads : pc[t] = "initialized"
    /\ \A t \in Threads :
          /\ pc[t] \in {"init", "initialized"} => ~state.initialized
          /\ pc[t] = "switch" => state.current_language # call[t].language
          /\ pc[t] \in {"switched"} \cup Speaking =>
                engine.voice = call[t].language
          /\ \A j \in DOMAIN call[t].current :
                call[t].current[j].voice = call[t].language
          /\ \A i \in DOMAIN call[t].sentences :
                \A j \in DOMAIN call[t].sentences[i] :
                    call[t].sentences[i][j].voice = call[t].language

\* A panic under the lock ends the use of espeak-ng for good: from then on the
\* session and the C library are never touched and no call returns Ok.
PoisonIsFinal ==
    [][poisoned =>
          /\ UNCHANGED <<holder, poisoned, state, engine>>
          /\ \A t \in Threads : result'[t] = "ok" => result[t] = "ok"]_vars

\* Whoever holds ESPEAK_LOCK lets go of it, even when espeak-ng returns NULL
\* with a moving cursor for ever: the deadline ends the call.
HolderReleases ==
    \A t \in Threads : holder = t ~> holder # t

\* crates/espeak-rs/README.md:3: a hung call surfaces as an error instead of
\* blocking for ever.
HungCallSurfaces ==
    \A t \in Threads : pc[t] = "ffi" ~> pc[t] = "idle"

=============================================================================
