--------------------------- MODULE PhonemeEncoding ---------------------------
(***************************************************************************)
(* From a phonemizer's answer to the ids a voice is run with:              *)
(* encode_phonemes (crates/piper-core/src/domain/phoneme.rs) on the text   *)
(* that Synthesize and Piper::create make of the sentences, and            *)
(* phonemes_to_ids (src/model.rs), the deprecated function it replaces.    *)
(*                                                                         *)
(* Characters are model values or short names; what Unicode says of them   *)
(* is a parameter.  The voice's map is a function on the characters it has *)
(* ids for.                                                                *)
(***************************************************************************)
EXTENDS PhonemizerText, SequencesExt

CONSTANTS
    BOS, EOS, PAD, Space,
    Decomposition,   \* of each character: the characters it is composed of
    CombiningClass,  \* of each character: 0 for a starter, more for a mark
    Maps,            \* the phoneme_id_maps of voices
    Inputs           \* what a phonemizer is given and makes of it (PhonemizerText)

Chars == DOMAIN Decomposition

\* What the C library may say of a clause.
Clauses ==
    [text : Seq(Chars), sentence : BOOLEAN,
     intonation : {"full stop", "comma", "question", "exclamation", "none"}]

ASSUME EncodingAssumption ==
    /\ {BOS, EOS, PAD, Space} \subseteq Chars
    /\ Cardinality({BOS, EOS, PAD, Space}) = 4
    /\ CombiningClass \in [Chars -> Nat]
    /\ Decomposition[Space] = <<Space>> /\ CombiningClass[Space] = 0
    /\ Decomposition \in [Chars -> Seq(Chars)]
    /\ \A m \in Maps : DOMAIN m \subseteq Chars /\ m \in [DOMAIN m -> Seq(Int)]
    /\ {".", ":", ",", "?", "!"} \subseteq Chars
    /\ \A input \in Inputs :
          CASE input.by = "espeak-rs" -> input.lines \in Seq(Seq(Clauses))
            [] input.by = "port" -> input.sentences \in Seq(Seq(Chars))
            [] OTHER -> input.by \in {"espeak-ng", "stub"} /\ input.text \in Seq(Chars)

VARIABLES
    map,        \* the map of the voice
    spoken,     \* the phonemizer and its input
    sentences,  \* what it returned
    pc,         \* "sentinels", "loop", "done", "refused"
    rest,       \* the characters the loop has yet to see
    ids,        \* the ids so far
    warnings    \* the warnings so far

encodingVars == <<map, spoken, sentences, pc, rest, ids, warnings>>

-----------------------------------------------------------------------------
(* The text.                                                               *)

\* Faulty variant: sentences follow each other without a space.
JoinTight(texts) == FlattenSeq(texts)

\* [_]::join(" ")
JoinSentences(texts) ==
    FlattenSeq([i \in DOMAIN texts |->
                   IF i = 1 THEN texts[i] ELSE <<Space>> \o texts[i]])

\* UnicodeNormalization::nfd: full decomposition, then each run of marks is put
\* in the order of their classes, marks of one class staying as they are.
Decomposed(text) == FlattenSeq([i \in DOMAIN text |-> Decomposition[text[i]]])

Starters(chars, i) == Cardinality({j \in 1..i : CombiningClass[chars[j]] = 0})

Precedes(chars, i, j) ==
    LET Class(k) == CombiningClass[chars[k]]
    IN  \/ Starters(chars, i) < Starters(chars, j)
        \/ /\ Starters(chars, i) = Starters(chars, j)
           /\ Class(i) < Class(j) \/ (Class(i) = Class(j) /\ i < j)

Place(chars, i) == Cardinality({j \in DOMAIN chars : j = i \/ Precedes(chars, j, i)})

Reordered(chars) ==
    [n \in DOMAIN chars |-> chars[CHOOSE i \in DOMAIN chars : Place(chars, i) = n]]

NFD(text) == Reordered(Decomposed(text))

-----------------------------------------------------------------------------
(* encode_phonemes.                                                        *)

Has(ch) == ch \in DOMAIN map

\* sentinel_ids
Sentinel(ch) == IF Has(ch) THEN map[ch] ELSE <<0>>

\* PhonemizationWarning: a kind and the character it is about.
Warn(kind, chars) == [i \in DOMAIN chars |-> <<kind, chars[i]>>]

Unmapped(chars) ==
    FlattenSeq([i \in DOMAIN chars |-> IF Has(chars[i]) THEN <<>> ELSE <<chars[i]>>])

MissingSentinels == Warn("MissingSentinel", Unmapped(<<BOS, PAD, EOS>>))

EncodingInit ==
    /\ map \in Maps
    /\ spoken \in Inputs
    /\ sentences = IF Refuses(spoken) THEN <<>> ELSE Answers(spoken)
    /\ pc = IF Refuses(spoken) THEN "refused" ELSE "sentinels"
    /\ rest = <<>> /\ ids = <<>> /\ warnings = <<>>

\* Faulty variant: the text is looked up as it is.
BeginRaw ==
    /\ pc = "sentinels"
    /\ pc' = "loop"
    /\ rest' = JoinSentences(sentences)
    /\ ids' = Sentinel(BOS)
    /\ warnings' = MissingSentinels
    /\ UNCHANGED <<map, spoken, sentences>>

\* The three sentinels are looked up, missing ones with a warning, before the
\* loop over phonemes.nfd() starts.
Begin ==
    /\ pc = "sentinels"
    /\ pc' = "loop"
    /\ rest' = NFD(JoinSentences(sentences))
    /\ ids' = Sentinel(BOS)
    /\ warnings' = MissingSentinels
    /\ UNCHANGED <<map, spoken, sentences>>

EncodePhoneme ==
    /\ pc = "loop" /\ rest # <<>> /\ Has(Head(rest))
    /\ ids' = ids \o map[Head(rest)] \o Sentinel(PAD)
    /\ rest' = Tail(rest)
    /\ UNCHANGED <<map, spoken, sentences, pc, warnings>>

\* Faulty variant: a warning for the first unmapped phoneme only.
WarnOnce ==
    /\ pc = "loop" /\ rest # <<>> /\ ~Has(Head(rest))
    /\ LET warning == <<"UnmappedPhoneme", Head(rest)>>
       IN  warnings' = IF Contains(warnings, warning) THEN warnings
                       ELSE Append(warnings, warning)
    /\ rest' = Tail(rest)
    /\ UNCHANGED <<map, spoken, sentences, pc, ids>>

SkipUnmapped ==
    /\ pc = "loop" /\ rest # <<>> /\ ~Has(Head(rest))
    /\ warnings' = Append(warnings, <<"UnmappedPhoneme", Head(rest)>>)
    /\ rest' = Tail(rest)
    /\ UNCHANGED <<map, spoken, sentences, pc, ids>>

Finish ==
    /\ pc = "loop" /\ rest = <<>>
    /\ ids' = ids \o Sentinel(EOS)
    /\ pc' = "done"
    /\ UNCHANGED <<map, spoken, sentences, rest, warnings>>

EncodingNext == Begin \/ EncodePhoneme \/ SkipUnmapped \/ Finish

EncodingSpec == EncodingInit /\ [][EncodingNext]_encodingVars

-----------------------------------------------------------------------------
(* phonemes_to_ids, on the same map.                                       *)

Body(text) ==
    FlattenSeq([i \in DOMAIN text |->
                   IF Has(text[i]) THEN map[text[i]] \o Sentinel(PAD) ELSE <<>>])

PhonemesToIds(text) == Sentinel(BOS) \o Body(NFD(text)) \o Sentinel(EOS)

-----------------------------------------------------------------------------
(* Properties.                                                             *)

Count(text, chars, i, j) == Cardinality({k \in i..j : text[k] \in chars})

\* What strip_lang_switches keeps, from the outside: a character that no
\* parenthesis before it is still open for, where a ")" closes the last one
\* open and one too many closes nothing that opens later.
Outside(text) ==
    LET Open(i) == \E j \in 1..i : Count(text, {"("}, j, i) > Count(text, {")"}, j, i)
    IN  FlattenSeq([i \in DOMAIN text |->
            IF text[i] \in {"(", ")"} \/ Open(i) THEN <<>> ELSE <<text[i]>>])

\* What lines of clauses say, their language switches left out.
Said(lines) ==
    LET Clause(c) == Outside(c.text) \o TerminatorChar(c)
        Line(line) == FlattenSeq([k \in DOMAIN line |-> Clause(line[k])])
    IN  FlattenSeq([l \in DOMAIN lines |-> Line(lines[l])])

\* A text without its spaces.
Solid(text) == FlattenSeq([i \in DOMAIN text |-> IF IsSpace(text[i]) THEN <<>> ELSE <<text[i]>>])

\* A sentence of the stub begins and ends with something that is not a space,
\* and has a terminator nowhere but at its end.
Trimmed(sentence) ==
    /\ sentence # <<>> /\ Trim(sentence) = sentence
    /\ \A k \in DOMAIN sentence \ {Len(sentence)} : sentence[k] \notin Terminators

\* No phonemizer loses or invents text between what it is given and the
\* sentences it returns.  espeak-rs: the clauses without their language
\* switches, each with its mark, in order, and no sentence empty (lib.rs:201-215,
\* 278-298).  The stub: every character but spaces around sentences, and a
\* sentence ends where a terminator is, and only there.
PhonemizersKeepText ==
    pc # "refused" =>
       /\ spoken.by = "espeak-rs" =>
             /\ \A i \in DOMAIN sentences : sentences[i] # <<>>
             /\ FlattenSeq(sentences) = Said(spoken.lines)
       /\ spoken.by = "stub" =>
             /\ Solid(FlattenSeq(sentences)) = Solid(spoken.text)
             /\ \A i \in DOMAIN sentences :
                   /\ Trimmed(sentences[i])
                   /\ i < Len(sentences) => Last(sentences[i]) \in Terminators

\* encode_phonemes and the function it replaces give a voice the same ids, for
\* every map, with or without sentinels, and every text, composed or decomposed
\* and with its marks in any order (the note of deprecation, model.rs:58).
TwinsAgree == pc = "done" => ids = PhonemesToIds(JoinSentences(sentences))

\* Nothing is left out in silence: at every moment the phonemes warned of, in
\* order and each time they occurred, are those that were seen and have no ids,
\* after the sentinels without ids (phoneme.rs:40, 57).
NothingDroppedSilently ==
    pc \in {"loop", "done"} =>
       LET text == NFD(JoinSentences(sentences))
           seen == SubSeq(text, 1, Len(text) - Len(rest))
       IN  warnings = MissingSentinels \o Warn("UnmappedPhoneme", Unmapped(seen))

\* Sentences do not touch: the ids of a text are those of its sentences, each
\* normalised by itself, with those of a space in between.  A mark at the start
\* of a sentence never moves into the one before (synthesize.rs:59, lib.rs:156).
SentencesStayApart ==
    pc = "done" =>
       LET Part(i) == IF i = 1 THEN Body(NFD(sentences[i]))
                      ELSE Body(<<Space>>) \o Body(NFD(sentences[i]))
       IN  ids = Sentinel(BOS) \o FlattenSeq([i \in DOMAIN sentences |-> Part(i)])
                     \o Sentinel(EOS)

=============================================================================
