------------------------- MODULE MCPhonemizerSystem -------------------------
(* TLC instances of PhonemizerSystem.                                       *)
EXTENDS PhonemizerSystem

CONSTANTS c1, c2, direct, en, de

TwoCallers == {c1, c2}
OneDirect == {direct}
TwoLanguages == {en, de}
OneText == {<<"plain">>}

=============================================================================
