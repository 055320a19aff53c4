----------------------------- MODULE OrtAdapter -----------------------------
(***************************************************************************)
(* The ort adapter (crates/ort-adapter/src/lib.rs): the ONNX Runtime       *)
(* environment every session of a process is made in, and what an engine   *)
(* does with its session.  A session is abstracted to its number of input  *)
(* tensors; ids and scales are always passed, the speaker is the fourth.   *)
(***************************************************************************)
EXTENDS Naturals

CONSTANT None   \* no speaker, no session

VARIABLE environment  \* static ENVIRONMENT: "unset", "ready" or "failed"

Environments == {"unset", "ready", "failed"}

\* Faulty variant: a failed initialisation is tried again.
RetryInit(outcome) ==
    environment' = IF environment = "ready" THEN environment ELSE outcome

\* OnceLock::get_or_init keeps the first outcome, be it a failure.
GetOrInit(outcome) ==
    environment' = IF environment = "unset" THEN outcome ELSE environment

\* Faulty variant: only the arity of multi-speaker voices is checked.
CheckedIfSpeaker(inputs, expectsSpeakerTensor) ==
    expectsSpeakerTensor => inputs = 4

ValidateArity(inputs, expectsSpeakerTensor) ==
    inputs = IF expectsSpeakerTensor THEN 4 ELSE 3

\* input, input_lengths, scales, and the speaker id when there is one.
TensorCount(speaker) == IF speaker = None THEN 3 ELSE 4

\* Session::run wants one tensor per input, and may fail all the same.
InferOutcomes(inputs, speaker) ==
    {"RuntimeFailure"} \cup
        (IF TensorCount(speaker) = inputs THEN {"audio"} ELSE {})

=============================================================================
