--------------------------- MODULE PhonemizerPort ---------------------------
(***************************************************************************)
(* What a caller of the Phonemizer port may rely on when the backend does  *)
(* its work elsewhere: a call is rejected at once or taken on; a call that *)
(* is taken on is answered exactly once; the rejection QueueFull means     *)
(* that at least Capacity other calls are in flight; and once the backend  *)
(* has broken down, a call not yet answered fails.                         *)
(*                                                                         *)
(* No threads, no queue and no channels here: PhonemizerWorker, which has  *)
(* them, implements this specification.                                    *)
(***************************************************************************)
EXTENDS Naturals, FiniteSets

CONSTANTS
    Callers,   \* threads that share one phonemizer
    Capacity   \* calls it can take on besides the one being worked on

VARIABLES
    phase,    \* of each caller: "idle" or "pending"
    answer,   \* what its current call will return, or "none"
    outcome,  \* what its last call returned, "none" while one is running
    broken    \* the backend has broken down

vars == <<phase, answer, outcome, broken>>

\* Ok(sentences), and PhonemizationError: QueueFull, Timeout, BackendFailure.
Outcomes == {"ok", "timeout", "failure"}

InFlight == {c \in Callers : phase[c] = "pending"}

Init ==
    /\ phase = [c \in Callers |-> "idle"]
    /\ answer = [c \in Callers |-> "none"]
    /\ outcome = [c \in Callers |-> "none"]
    /\ broken = FALSE

Reject(c) ==
    /\ phase[c] = "idle"
    /\ \/ /\ Cardinality(InFlight) >= Capacity
          /\ outcome' = [outcome EXCEPT ![c] = "queue_full"]
       \/ /\ broken
          /\ outcome' = [outcome EXCEPT ![c] = "failure"]
    /\ UNCHANGED <<phase, answer, broken>>

TakeOn(c) ==
    /\ phase[c] = "idle"
    /\ phase' = [phase EXCEPT ![c] = "pending"]
    /\ outcome' = [outcome EXCEPT ![c] = "none"]
    /\ UNCHANGED <<answer, broken>>

\* After the breakdown a call still undecided can only fail.
Decide(c, kind) ==
    /\ phase[c] = "pending"
    /\ broken => kind = "failure"
    /\ answer[c] = "none"
    /\ answer' = [answer EXCEPT ![c] = kind]
    /\ UNCHANGED <<phase, outcome, broken>>

\* The breakdown fails some calls in flight at the same moment.
BreakDown(failed) ==
    /\ \A c \in failed : phase[c] = "pending" /\ answer[c] = "none"
    /\ answer' = [c \in Callers |->
                     IF c \in failed THEN "failure" ELSE answer[c]]
    /\ broken' = TRUE
    /\ UNCHANGED <<phase, outcome>>

Return(c) ==
    /\ phase[c] = "pending"
    /\ answer[c] # "none"
    /\ phase' = [phase EXCEPT ![c] = "idle"]
    /\ answer' = [answer EXCEPT ![c] = "none"]
    /\ outcome' = [outcome EXCEPT ![c] = answer[c]]
    /\ UNCHANGED broken

Next ==
    \/ \E c \in Callers :
          \/ Reject(c) \/ TakeOn(c) \/ Return(c)
          \/ \E kind \in Outcomes : Decide(c, kind)
    \/ \E failed \in SUBSET Callers : BreakDown(failed)

Spec == Init /\ [][Next]_vars

\* A call that was taken on returns.
Answered == \A c \in Callers : phase[c] = "pending" ~> phase[c] = "idle"

=============================================================================
