------------------------- MODULE MCPhonemizerWorker -------------------------
(* TLC instance of PhonemizerWorker: four callers and a queue of two.       *)
EXTENDS PhonemizerWorker

CONSTANTS c1, c2, c3, c4

FourCallers == {c1, c2, c3, c4}

=============================================================================
