-------------------------- MODULE MCPiperLifecycle --------------------------
(* TLC instance of PiperLifecycle: releases with no, one and two speakers    *)
(* behind one pair of paths.  Threads share the files, which change at any   *)
(* time anyway, and the environment, which keeps its first outcome whoever   *)
(* asked for it: one thread meets every state of them.                       *)
EXTENDS PiperLifecycle

CONSTANTS t1, english, french, narrow, wide

MCThreads == {t1}

MCReleases == {[language |-> english, map |-> narrow, speakers |-> 0],
               [language |-> french, map |-> wide, speakers |-> 1],
               [language |-> english, map |-> wide, speakers |-> 2]}

=============================================================================
