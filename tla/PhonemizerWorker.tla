-------------------------- MODULE PhonemizerWorker --------------------------
(***************************************************************************)
(* One EspeakRsPhonemizer (crates/espeak-rs-adapter/src/lib.rs and         *)
(* worker.rs): callers put jobs into a bounded channel with try_send and   *)
(* block on a response channel of their own; one worker thread takes the   *)
(* jobs in order, runs the processor, and answers.                         *)
(*                                                                         *)
(* A caller has one call at a time, so a job is named by its caller.  The  *)
(* processor's answer is any of Ok, Timeout and Failure, or a panic, which *)
(* ends the worker thread.  The channels are std::sync::mpsc (external):   *)
(* try_send, recv and the drop of either end are single steps, and the     *)
(* drop of the receiver drops the jobs still queued.                       *)
(***************************************************************************)
EXTENDS Naturals, Sequences, FiniteSets

CONSTANTS
    Callers,        \* threads that share the phonemizer
    QueueCapacity,  \* the argument of EspeakRsPhonemizer::new
    None            \* no job

ASSUME WorkerAssumption ==
    /\ IsFiniteSet(Callers)
    /\ None \notin Callers
    /\ QueueCapacity \in Nat

VARIABLES
    handle,   \* "live", or "dropped" with the phonemizer and its sender
    queue,    \* the jobs in the bounded channel
    worker,   \* "receiving", "processing", "unwinding", or "gone"
    job,      \* the job in the worker's hands, or None
    reply,    \* each caller's response channel
    pc,       \* "idle" or "waiting", of each caller
    outcome   \* what its last call to phonemize returned

vars == <<handle, queue, worker, job, reply, pc, outcome>>

\* What the processor hands back: Ok, and ESpeakError's Timeout and Failure.
Answers == {"ok", "timeout", "failure"}

\* A response channel: empty, holding an answer, or without its sender.
Replies == Answers \cup {"none", "hung_up"}

Outcomes == Answers \cup {"none", "queue_full"}

\* queue_capacity.max(1)
Capacity == IF QueueCapacity = 0 THEN 1 ELSE QueueCapacity

Init ==
    /\ handle = "live"
    /\ queue = <<>>
    /\ worker = "receiving"
    /\ job = None
    /\ reply = [c \in Callers |-> "none"]
    /\ pc = [c \in Callers |-> "idle"]
    /\ outcome = [c \in Callers |-> "none"]

-----------------------------------------------------------------------------
(* PhonemizerWorker::phonemize.                                            *)

Queued == {queue[i] : i \in DOMAIN queue}

\* try_send finds the receiver dropped, the channel full, or a free slot.
RejectBroken(c) ==
    /\ worker = "gone"
    /\ outcome' = [outcome EXCEPT ![c] = "failure"]
    /\ UNCHANGED <<queue, reply, pc>>

\* Faulty variant: the last slot is never used.
FullTooEarly == Len(queue) + 1 >= Capacity

QueueIsFull == Len(queue) >= Capacity

RejectFull(c) ==
    /\ worker # "gone"
    /\ QueueIsFull
    /\ outcome' = [outcome EXCEPT ![c] = "queue_full"]
    /\ UNCHANGED <<queue, reply, pc>>

Enqueue(c) ==
    /\ worker # "gone"
    /\ ~QueueIsFull
    /\ queue' = Append(queue, c)
    /\ reply' = [reply EXCEPT ![c] = "none"]
    /\ pc' = [pc EXCEPT ![c] = "waiting"]
    /\ outcome' = [outcome EXCEPT ![c] = "none"]

Phonemize(c) ==
    /\ handle = "live"
    /\ pc[c] = "idle"
    /\ RejectBroken(c) \/ RejectFull(c) \/ Enqueue(c)
    /\ UNCHANGED <<handle, worker, job>>

\* recv returns the answer, or fails because the sender is gone.
Return(c) ==
    /\ pc[c] = "waiting"
    /\ reply[c] # "none"
    /\ outcome' = [outcome EXCEPT ![c] = IF reply[c] = "hung_up" THEN "failure"
                                         ELSE reply[c]]
    /\ reply' = [reply EXCEPT ![c] = "none"]
    /\ pc' = [pc EXCEPT ![c] = "idle"]
    /\ UNCHANGED <<handle, queue, worker, job>>

\* phonemize borrows the phonemizer, so it is dropped only between calls.  The
\* JoinHandle goes with it: the thread is detached.
DropHandle ==
    /\ handle = "live"
    /\ \A c \in Callers : pc[c] = "idle"
    /\ handle' = "dropped"
    /\ UNCHANGED <<queue, worker, job, reply, pc, outcome>>

-----------------------------------------------------------------------------
(* The worker thread spawned by with_processor.                            *)

Receive ==
    /\ worker = "receiving"
    /\ queue # <<>>
    /\ job' = Head(queue)
    /\ queue' = Tail(queue)
    /\ worker' = "processing"
    /\ UNCHANGED <<handle, reply, pc, outcome>>

\* The processor returns and its result is sent; the sender is dropped.
Complete(answer) ==
    /\ worker = "processing"
    /\ reply' = [reply EXCEPT ![job] = answer]
    /\ job' = None
    /\ worker' = "receiving"
    /\ UNCHANGED <<handle, queue, pc, outcome>>

\* The processor panics: unwinding drops the job first, and with it the sender
\* its caller waits on; the receiver still takes jobs until it goes, too.
PanicInProcessor ==
    /\ worker = "processing"
    /\ reply' = [reply EXCEPT ![job] = "hung_up"]
    /\ job' = None
    /\ worker' = "unwinding"
    /\ UNCHANGED <<handle, queue, pc, outcome>>

\* Faulty variant: jobs survive their receiver, and with them their senders.
DropReceiverOnly ==
    /\ worker = "unwinding"
    /\ worker' = "gone"
    /\ UNCHANGED <<handle, queue, job, reply, pc, outcome>>

DropReceiver ==
    /\ worker = "unwinding"
    /\ queue' = <<>>
    /\ reply' = [c \in Callers |->
                    IF c \in Queued THEN "hung_up" ELSE reply[c]]
    /\ worker' = "gone"
    /\ UNCHANGED <<handle, job, pc, outcome>>

\* recv fails once the sender is gone and the channel is empty.
WorkerEnds ==
    /\ worker = "receiving"
    /\ queue = <<>>
    /\ handle = "dropped"
    /\ worker' = "gone"
    /\ UNCHANGED <<handle, queue, job, reply, pc, outcome>>

\* The phonemizer and its thread are gone: nothing is left to happen.
Terminated ==
    /\ handle = "dropped"
    /\ worker = "gone"
    /\ UNCHANGED vars

-----------------------------------------------------------------------------

WorkerStep ==
    \/ Receive
    \/ \E answer \in Answers : Complete(answer)
    \/ DropReceiver
    \/ WorkerEnds

Next ==
    \/ \E c \in Callers : Phonemize(c) \/ Return(c)
    \/ DropHandle
    \/ WorkerStep
    \/ PanicInProcessor
    \/ Terminated

Spec == Init /\ [][Next]_vars

\* The scheduler runs the worker thread and a caller whose recv is ready, and
\* the processor returns (Espeak!HolderReleases says when espeak-rs does).
Fairness == WF_vars(WorkerStep) /\ \A c \in Callers : WF_vars(Return(c))

FairSpec == Spec /\ Fairness

-----------------------------------------------------------------------------
(* Properties.                                                             *)

\* Every variable has its type.
TypeOK ==
    /\ handle \in {"live", "dropped"}
    /\ queue \in Seq(Callers)
    /\ worker \in {"receiving", "processing", "unwinding", "gone"}
    /\ job \in Callers \cup {None}
    /\ reply \in [Callers -> Replies]
    /\ pc \in [Callers -> {"idle", "waiting"}]
    /\ outcome \in [Callers -> Outcomes]

\* The caller whose job the worker works on, if any.
InHand == {job} \ {None}

\* A blocked caller is never forgotten: its job is in a channel that still has
\* a receiver or in the worker's hands, or its response channel has an answer
\* or no sender any more.  So response.recv() cannot block for ever, through
\* panics and shutdown.
NoOrphan ==
    \A c \in Callers : pc[c] = "waiting" =>
        \/ c \in Queued /\ worker # "gone"
        \/ c \in InHand
        \/ reply[c] # "none"

\* Each job belongs to a caller that still waits for its first answer, and no
\* caller has two: the result the worker discards with `let _ =` on a failed
\* send is never one that somebody should have got.
JobsAwaited ==
    /\ \A c \in Queued \cup InHand : pc[c] = "waiting" /\ reply[c] = "none"
    /\ Queued \cap InHand = {}
    /\ \A i, j \in DOMAIN queue : queue[i] = queue[j] => i = j

\* The inductive invariant: what the safety properties above need besides each
\* other.  A job is in hand exactly while the worker processes one, a channel
\* without a receiver is empty, and a caller that does not wait has no response
\* channel.
IndInv ==
    /\ TypeOK
    /\ NoOrphan
    /\ JobsAwaited
    /\ job # None <=> worker = "processing"
    /\ worker = "gone" => queue = <<>>
    /\ \A c \in Callers : pc[c] = "idle" => reply[c] = "none"

\* A call is turned away with QueueFull only while at least Capacity others are
\* under way: each of them takes up at most one slot, whatever became of its job,
\* and a program with no more callers than slots never sees QueueFull.
NoSpuriousRejection ==
    [][\A c \in Callers :
          outcome[c] # "queue_full" /\ outcome'[c] = "queue_full"
             => Cardinality({d \in Callers \ {c} : pc[d] = "waiting"}) >= Capacity]_vars

\* The worker thread has left its loop.
Broken == worker \in {"unwinding", "gone"}

\* Once the worker thread has begun to unwind, no call is answered Ok that was
\* not answered before: the phonemizer does not come back.
BrokenIsFinal ==
    [][Broken =>
          /\ Broken'
          /\ \A c \in Callers : reply'[c] \in Answers => reply'[c] = reply[c]]_vars

-----------------------------------------------------------------------------

\* The worker implements the port: a job is a pending call, the end of the
\* worker's loop is the breakdown, and a lost sender is a failure.
Port == INSTANCE PhonemizerPort WITH
    phase <- [c \in Callers |-> IF pc[c] = "waiting" THEN "pending" ELSE "idle"],
    answer <- [c \in Callers |-> IF reply[c] = "hung_up" THEN "failure"
                                 ELSE reply[c]],
    broken <- Broken

\* Each call is rejected at once, or taken on and answered exactly once.
ImplementsPort == Port!Spec

\* A call that was taken on returns, whatever the processor does.
CallsReturn == Port!Answered

=============================================================================
