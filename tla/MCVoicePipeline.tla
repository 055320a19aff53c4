--------------------------- MODULE MCVoicePipeline ---------------------------
(* TLC instance of VoicePipeline: voices with no, one and two speakers, and  *)
(* models of three and of four inputs.                                       *)
EXTENDS VoicePipeline, TLC

CONSTANTS t1, t2, plain, climbing, english, french, narrow, wide

MCThreads == {t1, t2}

MCConfigs == {[language |-> english, map |-> narrow, speakers |-> 0],
              [language |-> french, map |-> wide, speakers |-> 1],
              [language |-> english, map |-> wide, speakers |-> 2]}

Symmetry == Permutations(MCThreads)

=============================================================================
