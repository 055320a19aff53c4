--------------------------- MODULE PhonemizerText ---------------------------
(***************************************************************************)
(* What the phonemizers of this repository make of the characters they     *)
(* are given: strip_lang_switches and terminator_char with the sentence    *)
(* loop of text_to_phonemes (crates/espeak-rs), split_into_sentences       *)
(* (crates/stub-adapter), and the espeak-ng feature of the root crate,     *)
(* which answers with one sentence.                                        *)
(*                                                                         *)
(* What the C library says of a clause is a record: its phonemes, the      *)
(* intonation in its terminator and whether it ends a sentence.  When and  *)
(* whether text_to_phonemes gets that far is module Espeak's business.     *)
(***************************************************************************)
EXTENDS Naturals, Integers, Sequences, FiniteSets

CONSTANT KnownVoices   \* of the stub

\* A for loop over a sequence: Step is its body, item by item.
Loop(Step(_, _), base, items) ==
    LET acc[n \in 0..Len(items)] == IF n = 0 THEN base ELSE Step(acc[n - 1], items[n])
    IN  acc[Len(items)]

NothingYet == [sentences |-> <<>>, current |-> <<>>]

-----------------------------------------------------------------------------
(* espeak-rs.                                                              *)

\* `for c in s.chars()`, once round
StripChar(acc, ch) ==
    CASE ch = "(" -> [acc EXCEPT !.depth = @ + 1]
      [] ch = ")" -> [acc EXCEPT !.depth = IF @ = 0 THEN 0 ELSE @ - 1]
      [] OTHER -> IF acc.depth = 0 THEN [acc EXCEPT !.out = Append(@, ch)] ELSE acc

\* Faulty variant: the depth goes below zero.
StripSigned(text) ==
    LET Step(acc, ch) == IF ch = ")" THEN [acc EXCEPT !.depth = @ - 1] ELSE StripChar(acc, ch)
    IN  Loop(Step, [out |-> <<>>, depth |-> 0], text).out

\* strip_lang_switches: usize depth, saturating_sub.
StripLangSwitches(text) == Loop(StripChar, [out |-> <<>>, depth |-> 0], text).out

\* terminator_char: none for an intonation the mask lets through but the code
\* does not know.
TerminatorChar(clause) ==
    CASE clause.intonation = "full stop" -> IF clause.sentence THEN <<".">> ELSE <<":">>
      [] clause.intonation = "comma" -> <<",">>
      [] clause.intonation = "question" -> <<"?">>
      [] clause.intonation = "exclamation" -> <<"!">>
      [] OTHER -> <<>>

Rendered(clause) == StripLangSwitches(clause.text) \o TerminatorChar(clause)

\* `if !current.is_empty() { sentences.push(take(&mut current)) }`
PushIfAny(acc) ==
    IF acc.current = <<>> THEN acc
    ELSE [sentences |-> Append(acc.sentences, acc.current), current |-> <<>>]

PushClause(acc, clause) ==
    LET grown == [acc EXCEPT !.current = @ \o Rendered(clause)]
    IN  IF clause.sentence THEN PushIfAny(grown) ELSE grown

\* The end of a line ends its last sentence.
PushLine(acc, clauses) == PushIfAny(Loop(PushClause, acc, clauses))

\* The answer to lines that espeak-ng reads as these clauses.
TextToPhonemes(lines) == Loop(PushLine, NothingYet, lines).sentences

-----------------------------------------------------------------------------
(* stub-adapter.                                                           *)

Terminators == {".", "?", "!"}
IsSpace(ch) == ch = " "

\* str::trim
Trim(text) ==
    LET solid == {i \in DOMAIN text : ~IsSpace(text[i])}
    IN  IF solid = {} THEN <<>>
        ELSE SubSeq(text, CHOOSE i \in solid : \A j \in solid : i <= j,
                          CHOOSE i \in solid : \A j \in solid : j <= i)

PushTrimmed(acc) ==
    [sentences |-> IF Trim(acc.current) = <<>> THEN acc.sentences
                   ELSE Append(acc.sentences, Trim(acc.current)),
     current |-> <<>>]

SplitChar(acc, ch) ==
    LET grown == [acc EXCEPT !.current = Append(@, ch)]
    IN  IF ch \in Terminators THEN PushTrimmed(grown) ELSE grown

SplitIntoSentences(text) ==
    PushTrimmed(Loop(SplitChar, NothingYet, text)).sentences

-----------------------------------------------------------------------------

\* Which phonemizer a program has is decided when it is built (the features
\* of build_phonemizer) or by the program itself (the stub); "port" stands
\* for any other implementation of the Phonemizer port.
Answers(spoken) ==
    CASE spoken.by = "espeak-rs" -> TextToPhonemes(spoken.lines)
      [] spoken.by = "espeak-ng" -> <<spoken.text>>
      [] spoken.by = "stub" -> SplitIntoSentences(spoken.text)
      [] spoken.by = "port" -> spoken.sentences

\* The stub refuses a voice it does not know; the errors of the others are
\* those of Espeak and PiperLifecycle.
Refuses(spoken) == spoken.by = "stub" /\ spoken.voice \notin KnownVoices

=============================================================================
