------------------------------ MODULE MCEspeak ------------------------------
(* TLC instances of Espeak: two languages installed, one unknown, one with  *)
(* a NUL byte; texts of two lines, the second one plain or with a NUL.      *)
EXTENDS Espeak

CONSTANTS t1, t2, en, de, unknown, nul

MCThreads == {t1, t2}
MCLanguages == {en, de, unknown, nul}
MCInstalled == {en, de}
MCMalformed == {nul}
MCTexts == {<<"plain", "plain">>, <<"plain", "nul">>}

\* The run of the hung call: one good language and one unknown, one line of text.
LiveLanguages == {en, unknown}
LiveTexts == {<<"plain">>, <<"nul">>}

=============================================================================
