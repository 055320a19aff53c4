-------------------------- MODULE MCPureAlgorithms --------------------------
(* TLC instance of the two pure algorithms, phonemes to ids and the          *)
(* extraction of an archive: a behaviour is a run of one of them.            *)
EXTENDS PhonemeEncoding, ArchiveExtraction

-----------------------------------------------------------------------------
(* c, c with cedilla, the cedilla and the acute by themselves, the sentinels *)
(* and the marks of sentences, which may occur in a text, too.               *)

MCDecomposition ==
    [ch \in {"^", "$", "_", " ", "c", "cedilla", "acute", "c_cedilla",
             "(", ")", ".", ":", ",", "?", "!"} |->
        IF ch = "c_cedilla" THEN <<"c", "cedilla">> ELSE <<ch>>]

MCClass ==
    [ch \in DOMAIN MCDecomposition |->
        CASE ch = "cedilla" -> 202 [] ch = "acute" -> 230 [] OTHER -> 0]

\* Of some characters the ids of a voice are none or several.
AllIds ==
    [ch \in DOMAIN MCDecomposition \ {"(", ")", ":"} |->
        CASE ch = "^" -> <<1>> [] ch = "$" -> <<2>> [] ch = "_" -> <<0>>
          [] ch = " " -> <<3>> [] ch = "c" -> <<10, 11>> [] ch = "cedilla" -> <<12>>
          [] ch = "acute" -> <<>> [] ch = "c_cedilla" -> <<13>> [] OTHER -> <<20>>]

Without(chars) == [ch \in DOMAIN AllIds \ chars |-> AllIds[ch]]

MCMaps == {Without(chars) : chars \in
             {{}, {"^"}, {"_", "$"}, {"^", "_", "$", " "}, {"cedilla"},
              {"c_cedilla", "acute"}, {"c", " "}}}

Texts(letters, n) == UNION {[1..k -> letters] : k \in 0..n}

Letters == {"c", "cedilla", "acute", "c_cedilla", "_"}

FromPort ==
    [by : {"port"},
     sentences : {<<>>} \cup {<<s>> : s \in Texts(Letters, 3)}
                        \cup {<<s, t>> : s, t \in Texts(Letters, 2)}]

\* One clause in full, and two lines of up to two clauses each.
ClausesOf(texts, intonations) ==
    [text : texts, intonation : intonations, sentence : BOOLEAN]

SomeClauses == ClausesOf({<<>>, <<"c">>, <<"(", "c">>}, {"full stop", "none"})

FromEspeakRs ==
    [by : {"espeak-rs"},
     lines : {<<<<c>>>> : c \in ClausesOf(Texts({"(", ")", "c"}, 5), {"none"})}
        \cup {<<<<c>>>> : c \in ClausesOf({<<"c">>}, {"full stop", "comma", "question",
                                                    "exclamation", "none"})}
        \cup {<<<<c, d>>, <<e>>>> : c, d, e \in SomeClauses}]

FromEspeakNg == [by : {"espeak-ng"}, text : Texts({"c", "acute", " "}, 2)]

FromStub ==
    [by : {"stub"}, text : Texts({"c", " ", ".", "!"}, 5), voice : {"en-US"}]
      \cup [by : {"stub"}, text : {<<"c">>}, voice : {"xx"}]

MCInputs == FromPort \cup FromEspeakRs \cup FromEspeakNg \cup FromStub

-----------------------------------------------------------------------------
(* Archives of directories, files and links of two names, two levels deep.   *)

Paths == UNION {[1..n -> Names] : n \in 1..2}

Targets == {<<"a">>, <<"b">>, <<"..">>, <<"..", "b">>, <<".", "b">>, <<"a", "..">>,
            <<"..", "..">>, <<"/">>}

MCEntries ==
    [kind : {"other"}, path : {<<"top", "a">>}, link : {<<>>}]
      \cup [kind : {"file", "dir"}, path : {<<"top">> \o path : path \in Paths}, link : {<<>>}]
      \cup [kind : {"symlink"}, path : {<<"top">> \o path : path \in Paths}, link : Targets]
      \cup [kind : {"file"}, path : {<<"pax">>, <<"top", "..", "a">>}, link : {<<>>}]

-----------------------------------------------------------------------------

EncodingIdle ==
    /\ map = Without({}) /\ spoken = [by |-> "none"] /\ sentences = <<>>
    /\ pc = "idle"
    /\ rest = <<>> /\ ids = <<>> /\ warnings = <<>>

ExtractionIdle ==
    /\ archive = <<>> /\ tree = [path \in {<<>>} |-> Dir] /\ symlinks = {}
    /\ extraction = "idle"

MCInit == (EncodingInit /\ ExtractionIdle) \/ (ExtractionInit /\ EncodingIdle)

MCNext ==
    \/ EncodingNext /\ UNCHANGED extractionVars
    \/ ExtractionNext /\ UNCHANGED encodingVars

MCSpec == MCInit /\ [][MCNext]_<<encodingVars, extractionVars>>

=============================================================================
