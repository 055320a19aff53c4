----------------------- MODULE PhonemizerWorkerProofs -----------------------
(***************************************************************************)
(* Proofs about PhonemizerWorker, for every set of callers and every queue *)
(* capacity: no blocked caller is forgotten, every job is awaited, the     *)
(* phonemizer is dropped only when idle, QueueFull needs more callers than *)
(* slots, and the worker implements PhonemizerPort.                        *)
(***************************************************************************)
EXTENDS PhonemizerWorker, SequenceTheorems, FiniteSetTheorems, TLAPS

\* The elements of a sequence, and a sequence without repetitions.
Elements(s) == {s[i] : i \in DOMAIN s}
Distinct(s) == \A i, j \in DOMAIN s : s[i] = s[j] => i = j

\* Adding a job puts its caller, and nobody else, into the queue.
LEMMA AppendElements ==
    ASSUME NEW S, NEW s \in Seq(S), NEW e \in S
    PROVE  /\ Append(s, e) \in Seq(S)
           /\ Elements(Append(s, e)) = Elements(s) \cup {e}
           /\ Distinct(s) /\ e \notin Elements(s) => Distinct(Append(s, e))
<1>1. /\ Append(s, e) \in Seq(S)
      /\ Len(Append(s, e)) = Len(s) + 1
      /\ \A i \in 1..Len(s) : Append(s, e)[i] = s[i]
      /\ Append(s, e)[Len(s) + 1] = e
  BY AppendProperties
<1>2. DOMAIN s = 1..Len(s) /\ DOMAIN Append(s, e) = 1..(Len(s) + 1) /\ Len(s) \in Nat
  BY <1>1, LenProperties
<1>3. Elements(Append(s, e)) = Elements(s) \cup {e}
  BY <1>1, <1>2 DEF Elements
<1>4. Distinct(s) /\ e \notin Elements(s) => Distinct(Append(s, e))
  BY <1>1, <1>2 DEF Elements, Distinct
<1> QED BY <1>1, <1>3, <1>4

\* Taking the first job takes its caller, and nobody else, out of the queue.
LEMMA TailElements ==
    ASSUME NEW S, NEW s \in Seq(S), s # <<>>, Distinct(s)
    PROVE  /\ Head(s) \in S /\ Tail(s) \in Seq(S)
           /\ Head(s) \in Elements(s)
           /\ Elements(Tail(s)) = Elements(s) \ {Head(s)}
           /\ Distinct(Tail(s))
<1>1. /\ Head(s) = s[1] /\ Head(s) \in S
      /\ Tail(s) \in Seq(S) /\ Len(Tail(s)) = Len(s) - 1
      /\ \A i \in 1..Len(Tail(s)) : Tail(s)[i] = s[i + 1]
  BY HeadTailProperties
<1>2. DOMAIN s = 1..Len(s) /\ DOMAIN Tail(s) = 1..(Len(s) - 1)
      /\ Len(s) \in Nat /\ Len(s) > 0
  BY <1>1, LenProperties, EmptySeq
<1>3. Head(s) \in Elements(s)
  BY <1>1, <1>2 DEF Elements
<1>4. Elements(Tail(s)) = Elements(s) \ {Head(s)}
  <2>1. ASSUME NEW x \in Elements(Tail(s)) PROVE x \in Elements(s) \ {Head(s)}
    <3>1. PICK i \in 1..(Len(s) - 1) : x = s[i + 1]
      BY <1>1, <1>2, <2>1 DEF Elements
    <3>2. i + 1 \in DOMAIN s /\ i + 1 # 1 /\ 1 \in DOMAIN s
      BY <1>2, <3>1
    <3> QED BY <1>1, <3>1, <3>2 DEF Elements, Distinct
  <2>2. ASSUME NEW x \in Elements(s), x # Head(s) PROVE x \in Elements(Tail(s))
    <3>1. PICK i \in 1..Len(s) : x = s[i]
      BY <1>2, <2>2 DEF Elements
    <3>2. i # 1
      BY <1>1, <2>2, <3>1
    <3>3. i - 1 \in 1..(Len(s) - 1) /\ (i - 1) + 1 = i
      BY <1>2, <3>1, <3>2
    <3>4. Tail(s)[i - 1] = x
      BY <1>1, <1>2, <3>1, <3>3
    <3> QED BY <1>2, <3>3, <3>4 DEF Elements
  <2> QED BY <2>1, <2>2
<1>5. Distinct(Tail(s))
  BY <1>1, <1>2 DEF Distinct
<1> QED BY <1>1, <1>3, <1>4, <1>5

-----------------------------------------------------------------------------
(* The inductive invariant.                                                *)

LEMMA QueueNotation ==
    /\ Queued = Elements(queue)
    /\ JobsAwaited <=>
          /\ \A c \in Elements(queue) \cup InHand :
                pc[c] = "waiting" /\ reply[c] = "none"
          /\ Elements(queue) \cap InHand = {}
          /\ Distinct(queue)
BY DEF Queued, Elements, JobsAwaited, Distinct

LEMMA ElementsAreCallers ==
    ASSUME TypeOK PROVE Elements(queue) \cup InHand \subseteq Callers
BY LenProperties, ElementOfSeq DEF TypeOK, Elements, InHand

LEMMA CapacityPositive == Capacity \in Nat \ {0}
BY WorkerAssumption DEF Capacity

\* The phonemizer starts idle.
LEMMA InitIndInv == Init => IndInv
<1> SUFFICES ASSUME Init PROVE IndInv
  OBVIOUS
<1>1. queue = <<>> /\ queue \in Seq(Callers) /\ DOMAIN queue = {}
  BY EmptySeq, LenProperties DEF Init
<1> QED BY <1>1, WorkerAssumption
  DEF Init, IndInv, TypeOK, NoOrphan, JobsAwaited, Queued, InHand,
      Replies, Outcomes

\* A call that is turned away changes nothing but its own outcome.
LEMMA RejectIndInv ==
    ASSUME IndInv, NEW c \in Callers,
           pc[c] = "idle",
           RejectBroken(c) \/ RejectFull(c),
           UNCHANGED <<handle, worker, job>>
    PROVE  IndInv'
<1>1. outcome' \in [Callers -> Outcomes]
  BY DEF IndInv, TypeOK, RejectBroken, RejectFull, Outcomes, Answers
<1>2. UNCHANGED <<handle, worker, job, queue, reply, pc>>
  BY DEF RejectBroken, RejectFull
<1> QED BY <1>1, <1>2
  DEF IndInv, TypeOK, NoOrphan, JobsAwaited, Queued, InHand

LEMMA EnqueueIndInv ==
    ASSUME IndInv, NEW c \in Callers,
           handle = "live", pc[c] = "idle", Enqueue(c),
           UNCHANGED <<handle, worker, job>>
    PROVE  IndInv'
<1> USE DEF IndInv, TypeOK, Enqueue
<1>1. c \notin Elements(queue) \cup InHand
  BY QueueNotation
<1>2. /\ queue' \in Seq(Callers)
      /\ Elements(queue') = Elements(queue) \cup {c}
      /\ Distinct(queue')
  BY <1>1, QueueNotation, AppendElements
<1>3. TypeOK'
  BY <1>2 DEF Replies, Outcomes
<1>4. /\ Queued' = Elements(queue) \cup {c}
      /\ InHand' = InHand
  BY <1>2 DEF Queued, Elements, InHand
<1>5. NoOrphan'
  BY <1>4, QueueNotation DEF NoOrphan
<1>6. JobsAwaited'
  <2>1. \A d \in Queued' \cup InHand' : pc'[d] = "waiting" /\ reply'[d] = "none"
    BY <1>4, QueueNotation, ElementsAreCallers
  <2>2. Queued' \cap InHand' = {}
    BY <1>1, <1>4, QueueNotation
  <2> QED BY <2>1, <2>2, <1>2 DEF JobsAwaited, Distinct
<1>7. \A d \in Callers : pc'[d] = "idle" => reply'[d] = "none"
  OBVIOUS
<1> QED BY <1>3, <1>5, <1>6, <1>7

LEMMA ReturnIndInv ==
    ASSUME IndInv, NEW c \in Callers, Return(c)
    PROVE  IndInv'
<1> USE DEF IndInv, TypeOK, Return
<1>1. c \notin Elements(queue) \cup InHand
  BY QueueNotation
<1>2. TypeOK'
  BY DEF Replies, Outcomes, Answers
<1>3. Queued' = Queued /\ InHand' = InHand
  BY DEF Queued, InHand
<1>4. NoOrphan'
  BY <1>3 DEF NoOrphan
<1>5. JobsAwaited'
  BY <1>1, <1>3, QueueNotation, ElementsAreCallers DEF JobsAwaited
<1>6. \A d \in Callers : pc'[d] = "idle" => reply'[d] = "none"
  OBVIOUS
<1> QED BY <1>2, <1>4, <1>5, <1>6

LEMMA DropHandleIndInv ==
    ASSUME IndInv, DropHandle
    PROVE  IndInv'
BY DEF IndInv, TypeOK, DropHandle, NoOrphan, JobsAwaited, Queued, InHand

LEMMA ReceiveIndInv ==
    ASSUME IndInv, Receive
    PROVE  IndInv'
<1> USE DEF IndInv, TypeOK, Receive
<1>1. /\ Head(queue) \in Callers
      /\ queue' \in Seq(Callers)
      /\ Head(queue) \in Elements(queue)
      /\ Elements(queue') = Elements(queue) \ {Head(queue)}
      /\ Distinct(queue')
  BY QueueNotation, TailElements
<1>2. InHand = {} /\ InHand' = {Head(queue)}
  BY <1>1, WorkerAssumption DEF InHand
<1>3. TypeOK'
  BY <1>1
<1>4. Queued' = Elements(queue) \ {Head(queue)}
  BY <1>1 DEF Queued, Elements
<1>5. NoOrphan'
  BY <1>1, <1>2, <1>4, QueueNotation DEF NoOrphan
<1>6. JobsAwaited'
  BY <1>1, <1>2, <1>4, QueueNotation DEF JobsAwaited, Distinct
<1>7. (job # None <=> worker = "processing")'
  BY <1>1, WorkerAssumption
<1> QED BY <1>3, <1>5, <1>6, <1>7

\* The worker lets go of its job: with an answer, or by unwinding.
LEMMA AnswerIndInv ==
    ASSUME IndInv,
           NEW answer \in Replies \ {"none"},
           worker = "processing",
           reply' = [reply EXCEPT ![job] = answer],
           job' = None,
           worker' \in {"receiving", "unwinding"},
           UNCHANGED <<handle, queue, pc, outcome>>
    PROVE  IndInv'
<1> USE DEF IndInv, TypeOK
<1>1. job \in Callers /\ InHand = {job} /\ InHand' = {}
  BY WorkerAssumption DEF InHand
<1>2. Queued' = Elements(queue) /\ job \notin Elements(queue)
  BY <1>1, QueueNotation DEF Queued, Elements
<1>3. TypeOK'
  OBVIOUS
<1>4. NoOrphan'
  BY <1>1, <1>2, QueueNotation DEF NoOrphan
<1>5. JobsAwaited'
  BY <1>1, <1>2, QueueNotation, ElementsAreCallers DEF JobsAwaited, Distinct
<1>6. \A d \in Callers : pc'[d] = "idle" => reply'[d] = "none"
  BY <1>1, QueueNotation
<1> QED BY <1>3, <1>4, <1>5, <1>6

LEMMA DropReceiverIndInv ==
    ASSUME IndInv, DropReceiver
    PROVE  IndInv'
<1> USE DEF IndInv, TypeOK, DropReceiver
<1>1. queue' \in Seq(Callers) /\ DOMAIN queue' = {}
  BY EmptySeq, LenProperties
<1>2. Queued' = {} /\ InHand' = {} /\ InHand = {}
  BY <1>1 DEF Queued, InHand
<1>3. TypeOK'
  BY <1>1 DEF Replies
<1>4. NoOrphan'
  BY <1>2 DEF NoOrphan
<1>5. JobsAwaited'
  BY <1>1, <1>2 DEF JobsAwaited
<1>6. \A d \in Callers : pc'[d] = "idle" => reply'[d] = "none"
  BY QueueNotation DEF Queued, JobsAwaited
<1> QED BY <1>3, <1>4, <1>5, <1>6

LEMMA StepIndInv == IndInv /\ [Next]_vars => IndInv'
<1> SUFFICES ASSUME IndInv, [Next]_vars PROVE IndInv'
  OBVIOUS
<1>1. ASSUME NEW c \in Callers, Phonemize(c) PROVE IndInv'
  <2>1. CASE RejectBroken(c) \/ RejectFull(c)
    BY <1>1, <2>1, RejectIndInv DEF Phonemize
  <2>2. CASE Enqueue(c)
    BY <1>1, <2>2, EnqueueIndInv DEF Phonemize
  <2> QED BY <1>1, <2>1, <2>2 DEF Phonemize
<1>2. ASSUME NEW c \in Callers, Return(c) PROVE IndInv'
  BY <1>2, ReturnIndInv
<1>3. CASE DropHandle
  BY <1>3, DropHandleIndInv
<1>4. CASE Receive
  BY <1>4, ReceiveIndInv
<1>5. ASSUME NEW answer \in Answers, Complete(answer) PROVE IndInv'
  BY <1>5, AnswerIndInv DEF Complete, Answers, Replies
<1>6. CASE PanicInProcessor
  BY <1>6, AnswerIndInv DEF PanicInProcessor, Answers, Replies
<1>7. CASE DropReceiver
  BY <1>7, DropReceiverIndInv
<1>8. CASE WorkerEnds
  BY <1>8 DEF WorkerEnds, IndInv, TypeOK, NoOrphan, JobsAwaited,
              Queued, InHand
<1>9. CASE UNCHANGED vars
  BY <1>9 DEF vars, IndInv, TypeOK, NoOrphan, JobsAwaited,
              Queued, InHand
<1> QED
  BY <1>1, <1>2, <1>3, <1>4, <1>5, <1>6, <1>7, <1>8, <1>9
  DEF Next, WorkerStep, Terminated

\* The inductive invariant holds in every state of every behaviour.
THEOREM IndInvAlways == Spec => []IndInv
BY InitIndInv, StepIndInv, PTL DEF Spec

\* Type correctness.
THEOREM TypeCorrect == Spec => []TypeOK
BY IndInvAlways, PTL DEF IndInv

\* A caller blocked in response.recv() still has a job on its way or a reply to
\* read: no panic, drop or full queue leaves it behind (worker.rs, phonemize).
THEOREM NobodyForgotten == Spec => []NoOrphan
BY IndInvAlways, PTL DEF IndInv

\* Every job the worker has or will take belongs to one caller that still waits
\* for its first reply, so no result is sent to nobody.
THEOREM EveryJobAwaited == Spec => []JobsAwaited
BY IndInvAlways, PTL DEF IndInv

-----------------------------------------------------------------------------
(* QueueFull.                                                              *)

\* A queue without repetitions is as long as its set of callers is large.
LEMMA DistinctCardinality ==
    ASSUME NEW S, NEW s \in Seq(S), Distinct(s)
    PROVE  IsFiniteSet(Elements(s)) /\ Cardinality(Elements(s)) = Len(s)
<1>1. Len(s) \in Nat /\ DOMAIN s = 1..Len(s) /\ s \in [1..Len(s) -> S]
  BY LenProperties
<1>2. IsFiniteSet(1..Len(s)) /\ Cardinality(1..Len(s)) = Len(s)
  BY <1>1, FS_Interval
<1>3. s \in Bijection(1..Len(s), Elements(s))
  BY <1>1 DEF Elements, Distinct, Bijection, Injection, Surjection, IsInjective
<1> QED BY <1>2, <1>3, FS_Bijection DEF ExistsBijection

\* When try_send finds the queue full, Capacity callers other than its own wait.
LEMMA FullQueue ==
    ASSUME IndInv, NEW c \in Callers, pc[c] = "idle", QueueIsFull
    PROVE  Cardinality({d \in Callers : pc[d] = "waiting"}) >= Capacity
<1> DEFINE waiting == {d \in Callers : pc[d] = "waiting"}
<1>1. /\ IsFiniteSet(Elements(queue))
      /\ Cardinality(Elements(queue)) = Len(queue)
  BY QueueNotation, DistinctCardinality DEF IndInv, TypeOK
<1>2. Elements(queue) \subseteq waiting
  BY QueueNotation, ElementsAreCallers DEF IndInv
<1>3. waiting \subseteq Callers /\ IsFiniteSet(Callers)
  BY WorkerAssumption
<1>4. /\ IsFiniteSet(waiting)
      /\ Cardinality(Elements(queue)) <= Cardinality(waiting)
  BY <1>2, <1>3, FS_Subset
<1>5. /\ Cardinality(waiting) \in Nat /\ Len(queue) \in Nat
      /\ Capacity \in Nat
  BY <1>4, FS_CardinalityType, LenProperties, CapacityPositive
     DEF IndInv, TypeOK
<1> QED BY <1>1, <1>4, <1>5 DEF QueueIsFull

\* QueueFull is only returned while Capacity other calls are under way.
THEOREM NeverTurnedAway == Spec => NoSpuriousRejection
<1>1. ASSUME IndInv, [Next]_vars, NEW c \in Callers,
             outcome[c] # "queue_full", outcome'[c] = "queue_full"
      PROVE  Cardinality({d \in Callers \ {c} : pc[d] = "waiting"}) >= Capacity
  <2> USE DEF IndInv, TypeOK
  <2>1. ASSUME NEW b \in Callers, Phonemize(b)
        PROVE  b = c /\ pc[c] = "idle" /\ QueueIsFull
    BY <1>1, <2>1 DEF Phonemize, RejectBroken, RejectFull, Enqueue
  <2>2. ASSUME NEW b \in Callers, Return(b) PROVE FALSE
    BY <1>1, <2>2 DEF Return, Replies, Answers
  <2>3. ~UNCHANGED outcome
    BY <1>1
  <2>4. pc[c] = "idle" /\ QueueIsFull
    BY <1>1, <2>1, <2>2, <2>3
    DEF Next, WorkerStep, Terminated, DropHandle, Receive, Complete,
        PanicInProcessor, DropReceiver, WorkerEnds, vars
  <2>5. {d \in Callers \ {c} : pc[d] = "waiting"} = {d \in Callers : pc[d] = "waiting"}
    BY <2>4
  <2> QED BY <1>1, <2>4, <2>5, FullQueue
<1>2. IndInv /\ [Next]_vars
      => [\A c \in Callers :
            outcome[c] # "queue_full" /\ outcome'[c] = "queue_full"
               => Cardinality({d \in Callers \ {c} : pc[d] = "waiting"}) >= Capacity]_vars
  BY <1>1
<1> QED BY <1>2, IndInvAlways, PTL DEF Spec, NoSpuriousRejection

-----------------------------------------------------------------------------
(* The worker implements the port.                                         *)

\* The refinement mapping, spelled out.
Phase == [c \in Callers |-> IF pc[c] = "waiting" THEN "pending" ELSE "idle"]
Answer == [c \in Callers |-> IF reply[c] = "hung_up" THEN "failure" ELSE reply[c]]

LEMMA InitImplements == Init => Port!Init
BY DEF Init, Port!Init, Broken

LEMMA PhonemizeImplements ==
    ASSUME IndInv, NEW c \in Callers, Phonemize(c)
    PROVE  Port!Next
<1> USE DEF IndInv, TypeOK
<1>1. Phase[c] = "idle" /\ UNCHANGED worker
  BY DEF Phonemize, Phase
<1>2. CASE RejectBroken(c)
  <2>1. Port!Reject(c)
    BY <1>1, <1>2 DEF RejectBroken, Port!Reject, Broken, Phase
  <2> QED BY <2>1 DEF Port!Next
<1>3. CASE RejectFull(c)
  <2>1. Port!InFlight = {d \in Callers : pc[d] = "waiting"}
    BY DEF Port!InFlight
  <2>2. Cardinality(Port!InFlight) >= Capacity
    BY <1>3, <2>1, FullQueue DEF RejectFull, Phonemize
  <2>3. Port!Cardinality(Port!InFlight) = Cardinality(Port!InFlight)
    BY Zenon DEF Port!Cardinality, Cardinality
  <2>4. Port!Reject(c)
    BY <1>1, <1>3, <2>2, <2>3 DEF RejectFull, Port!Reject, Broken, Phase
  <2> QED BY <2>4 DEF Port!Next
<1>4. CASE Enqueue(c)
  <2>1. reply[c] = "none" /\ reply' = reply
    BY <1>4 DEF Enqueue, Phonemize
  <2>2. Port!TakeOn(c)
    BY <1>1, <1>4, <2>1 DEF Enqueue, Port!TakeOn, Broken, Phase, Phonemize
  <2> QED BY <2>2 DEF Port!Next
<1> QED BY <1>2, <1>3, <1>4 DEF Phonemize

LEMMA ReturnImplements ==
    ASSUME IndInv, NEW c \in Callers, Return(c)
    PROVE  Port!Next
<1> USE DEF IndInv, TypeOK
<1>1. Port!Return(c)
  BY DEF Return, Port!Return, Broken, Replies, Answers
<1> QED BY <1>1 DEF Port!Next

LEMMA CompleteImplements ==
    ASSUME IndInv, NEW answer \in Answers, Complete(answer)
    PROVE  Port!Next
<1>1. PICK c \in Callers : c = job
  BY WorkerAssumption DEF IndInv, TypeOK, Complete
<1>2. pc[c] = "waiting" /\ reply[c] = "none"
  BY <1>1, WorkerAssumption, QueueNotation DEF IndInv, InHand
<1>3. Answer' = [Answer EXCEPT ![c] = answer] /\ Answer[c] = "none"
  BY <1>1, <1>2 DEF IndInv, TypeOK, Complete, Answers, Answer
<1>4. UNCHANGED <<Phase, outcome, Broken>> /\ Phase[c] = "pending" /\ ~Broken
  BY <1>2 DEF Complete, Broken, Phase
<1>5. Port!Decide(c, answer)
  BY <1>3, <1>4 DEF Port!Decide, Answer, Phase
<1> QED BY <1>5 DEF Port!Next, Port!Outcomes, Answers

LEMMA PanicImplements ==
    ASSUME IndInv, PanicInProcessor
    PROVE  Port!Next
<1>1. PICK c \in Callers : c = job
  BY WorkerAssumption DEF IndInv, TypeOK, PanicInProcessor
<1>2. pc[c] = "waiting" /\ reply[c] = "none"
  BY <1>1, WorkerAssumption, QueueNotation DEF IndInv, InHand
<1>3. Port!BreakDown({c})
  BY <1>1, <1>2
     DEF IndInv, TypeOK, PanicInProcessor, Broken, Port!BreakDown
<1> QED BY <1>3 DEF Port!Next

LEMMA DropReceiverImplements ==
    ASSUME IndInv, DropReceiver
    PROVE  Port!Next
<1>1. PICK failed \in SUBSET Callers : failed = Queued
  BY QueueNotation, ElementsAreCallers DEF IndInv
<1>2. \A c \in failed : pc[c] = "waiting" /\ reply[c] = "none"
  BY <1>1 DEF IndInv, JobsAwaited
<1>3. Port!BreakDown(failed)
  BY <1>1, <1>2
     DEF IndInv, TypeOK, DropReceiver, Broken, Port!BreakDown
<1> QED BY <1>3 DEF Port!Next

\* The thread's end is a breakdown that fails nobody.
LEMMA WorkerEndsImplements ==
    ASSUME IndInv, WorkerEnds
    PROVE  Port!Next
<1> USE DEF IndInv, TypeOK
<1>1. Port!BreakDown({})
  BY DEF WorkerEnds, Port!BreakDown, Broken
<1> QED BY <1>1 DEF Port!Next

\* The steps the port does not see.
LEMMA InternalSteps ==
    ASSUME IndInv, DropHandle \/ Receive \/ UNCHANGED vars
    PROVE  UNCHANGED Port!vars
BY DEF IndInv, TypeOK, DropHandle, Receive, vars, Port!vars, Broken

LEMMA StepImplements == IndInv /\ [Next]_vars => [Port!Next]_(Port!vars)
BY PhonemizeImplements, ReturnImplements, CompleteImplements, PanicImplements,
   DropReceiverImplements, WorkerEndsImplements, InternalSteps
   DEF Next, WorkerStep, Terminated

\* The worker thread, its queue and its channels keep the port's promises: a
\* call is rejected at once or answered exactly once, QueueFull means Capacity
\* other calls are in flight, and nothing succeeds after a breakdown.
THEOREM WorkerImplementsPort == Spec => ImplementsPort
BY InitImplements, StepImplements, IndInvAlways, PTL
   DEF Spec, ImplementsPort, Port!Spec

=============================================================================
