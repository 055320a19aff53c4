---------------------------- MODULE SpeechService ----------------------------
(***************************************************************************)
(* What a program gets from a collection of voices, without engines,       *)
(* borrows or steps: installing a voice replaces the one of that name in   *)
(* one go or changes nothing; speaking fails, or is heard in the language, *)
(* with the phoneme map and as the speaker of the voice installed last.    *)
(*                                                                         *)
(* VoicePipeline (piper-core's use cases) and PiperLifecycle (the root     *)
(* crate) implement this specification.                                    *)
(***************************************************************************)
EXTENDS Naturals

CONSTANTS
    Clients,   \* the threads of the program
    Names,     \* names of voices
    Configs,   \* the voices: records with language, map and speakers
    Speakers,  \* the speaker ids a client may ask for
    None       \* no voice, no speaker, nothing heard

VARIABLES
    voices,    \* the voice of each name, or None
    answer     \* what each client's last call returned

vars == <<voices, answer>>

InstallErrors == {"NotFound", "MalformedConfig", "IoFailure", "ModelLoadFailure"}

SpeakErrors == {"Phonemization", "RuntimeFailure"}

Returned(kind) == [kind |-> kind, heard |-> None]

\* The speaker of a voice: none to choose, the one asked for, or the first.
SpeakerOf(voice, wanted) ==
    CASE voice.speakers <= 1                    -> None
      [] voice.speakers > 1 /\ wanted # None    -> wanted
      [] voice.speakers > 1 /\ wanted = None    -> 0

Audio(voice, wanted) ==
    [language |-> voice.language, map |-> voice.map,
     speaker |-> SpeakerOf(voice, wanted)]

Transcript(voice) == [language |-> voice.language, map |-> None, speaker |-> None]

Init ==
    /\ voices = [n \in Names |-> None]
    /\ answer = [c \in Clients |-> Returned("none")]

Answer(c, returned) == answer' = [answer EXCEPT ![c] = returned]

Install(c, n, voice) ==
    /\ voices' = [voices EXCEPT ![n] = voice]
    /\ Answer(c, Returned("loaded"))

\* A voice may be given up (a Piper can be dropped; a registry keeps its own).
Remove(n) == voices' = [voices EXCEPT ![n] = None] /\ UNCHANGED answer

Refuse(c, error) == Answer(c, Returned(error)) /\ UNCHANGED voices

Unknown(c, n) ==
    /\ voices[n] = None
    /\ Answer(c, Returned("VoiceNotFound"))
    /\ UNCHANGED voices

Speak(c, n, wanted) ==
    /\ voices[n] # None
    /\ Answer(c, [kind |-> "audio", heard |-> Audio(voices[n], wanted)])
    /\ UNCHANGED voices

\* Phonemes handed in as they are: no language is involved.
Pronounce(c, n, wanted) ==
    /\ voices[n] # None
    /\ Answer(c, [kind |-> "audio",
                  heard |-> [Audio(voices[n], wanted) EXCEPT !.language = None]])
    /\ UNCHANGED voices

Transcribe(c, n) ==
    /\ voices[n] # None
    /\ Answer(c, [kind |-> "sentences", heard |-> Transcript(voices[n])])
    /\ UNCHANGED voices

Next ==
    \/ \E n \in Names : Remove(n)
    \/ \E c \in Clients :
          \/ \E error \in InstallErrors \cup SpeakErrors : Refuse(c, error)
          \/ \E n \in Names :
                \/ \E voice \in Configs : Install(c, n, voice)
                \/ Unknown(c, n) \/ Transcribe(c, n)
                \/ \E wanted \in Speakers \cup {None} :
                      Speak(c, n, wanted) \/ Pronounce(c, n, wanted)

Spec == Init /\ [][Next]_vars

=============================================================================
