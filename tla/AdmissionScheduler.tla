------------------------- MODULE AdmissionScheduler -------------------------
(***************************************************************************)
(* The orchestrator's admission scheduler (domain/scheduler.py): execution *)
(* commands take one of `capacity` slots for their duration and wait in a  *)
(* FIFO queue beyond that; communication and cancellation commands pass at *)
(* once.  The dispatcher is awaited, so other submissions and completions  *)
(* happen while a dispatch is under way, and it may raise (the AWS Batch   *)
(* dispatcher always does).  The caller that submits commands and reports  *)
(* completions is outside the repository: it keeps the envelopes it was    *)
(* refused, since the queue keeps only their type and sequence number, and *)
(* dispatches the head a completion admits.                                *)
(***************************************************************************)
EXTENDS Naturals, Sequences, FiniteSets

CONSTANTS
  Executions,      \* execution commands, each submitted at most once
  Signals,         \* communication and cancellation commands
  capacity,        \* slots of the scheduler
  ReportsSignals   \* the caller also reports the completion of signals

ASSUME SchedulerAssumption ==
  /\ IsFiniteSet(Executions)
  /\ Executions \cap Signals = {}
  /\ capacity \in Nat \ {0}
  /\ ReportsSignals \in BOOLEAN

VARIABLES
  inFlight,        \* _in_flight: slots taken
  queue,           \* _queue: waiting commands, oldest first
  nextSequence,    \* _next_sequence
  stage            \* what became of each command

vars == <<inFlight, queue, nextSequence, stage>>

Commands == Executions \cup Signals

\* "dispatching": the dispatcher is awaited; "failed": it raised; "admitted":
\* taken from the queue by a completion, not yet handed to the dispatcher.
Stages == {"new", "queued", "admitted", "dispatching", "running", "failed", "done"}

Waiting(c, n) == [command |-> c, sequence |-> n]

TypeOK ==
  /\ inFlight \in Nat
  /\ queue \in Seq([command : Executions, sequence : Nat])
  /\ nextSequence \in Nat
  /\ stage \in [Commands -> Stages]

Init ==
  /\ inFlight = 0
  /\ queue = <<>>
  /\ nextSequence = 0
  /\ stage = [c \in Commands |-> "new"]

To(c, s) == stage' = [stage EXCEPT ![c] = s]

-----------------------------------------------------------------------------
(* submit(), as called by dispatch_admitted().                              *)

AdmitSignal(c) ==
  /\ c \in Signals
  /\ To(c, "dispatching")
  /\ UNCHANGED <<inFlight, queue, nextSequence>>

\* Fault: one execution too many is admitted.
AdmitExecutionOverfull(c) ==
  /\ c \in Executions
  /\ inFlight <= capacity
  /\ inFlight' = inFlight + 1
  /\ To(c, "dispatching")
  /\ UNCHANGED <<queue, nextSequence>>

AdmitExecution(c) ==
  /\ c \in Executions
  /\ inFlight < capacity
  /\ inFlight' = inFlight + 1
  /\ To(c, "dispatching")
  /\ UNCHANGED <<queue, nextSequence>>

Enqueue(c) ==
  /\ c \in Executions
  /\ inFlight >= capacity
  /\ queue' = Append(queue, Waiting(c, nextSequence))
  /\ nextSequence' = nextSequence + 1
  /\ To(c, "queued")
  /\ UNCHANGED inFlight

dispatch_admitted(c) ==
  /\ stage[c] = "new"
  /\ AdmitSignal(c) \/ AdmitExecution(c) \/ Enqueue(c)

\* The awaited dispatcher answers, or (DispatchRaises) raises out of
\* dispatch_admitted with the slot still taken.
Dispatched(c) ==
  /\ stage[c] = "dispatching"
  /\ To(c, "running")
  /\ UNCHANGED <<inFlight, queue, nextSequence>>

\* Fault: a failed dispatch gives a slot back whether or not it took one.
DispatchRaisesReleasing(c) ==
  /\ stage[c] = "dispatching"
  /\ To(c, "failed")
  /\ inFlight' = inFlight - 1
  /\ UNCHANGED <<queue, nextSequence>>

DispatchRaises(c) ==
  /\ stage[c] = "dispatching"
  /\ To(c, "failed")
  /\ UNCHANGED <<inFlight, queue, nextSequence>>

-----------------------------------------------------------------------------
(* on_complete(), called when the caller learns that c has completed.       *)

\* max(0, _in_flight - 1) for an execution command, nothing for another.
Released(c) == IF c \in Executions /\ inFlight > 0 THEN inFlight - 1 ELSE inFlight

\* Fault: the freed slot is kept free instead of going to the head.
OnCompleteNoHandover(c) ==
  /\ inFlight' = Released(c)
  /\ stage' = [stage EXCEPT ![c] = "done"]
  /\ UNCHANGED <<queue, nextSequence>>

\* Fault: the head starts in the freed slot without taking it.
OnCompleteUncounted(c) ==
  /\ inFlight' = Released(c)
  /\ IF queue = <<>>
     THEN /\ stage' = [stage EXCEPT ![c] = "done"]
          /\ UNCHANGED queue
     ELSE /\ stage' = [stage EXCEPT ![c] = "done", ![Head(queue).command] = "admitted"]
          /\ queue' = Tail(queue)
  /\ UNCHANGED nextSequence

\* The queue's head is admitted whatever kind of command has completed.
on_complete(c) ==
  /\ IF queue = <<>>
     THEN /\ inFlight' = Released(c)
          /\ stage' = [stage EXCEPT ![c] = "done"]
          /\ UNCHANGED queue
     ELSE /\ inFlight' = Released(c) + 1
          /\ stage' = [stage EXCEPT ![c] = "done", ![Head(queue).command] = "admitted"]
          /\ queue' = Tail(queue)
  /\ UNCHANGED nextSequence

-----------------------------------------------------------------------------
(* The caller.                                                              *)

\* A running command ends, and its completion is reported at most once.
Completes(c) ==
  /\ stage[c] = "running"
  /\ IF c \in Executions \/ ReportsSignals
     THEN on_complete(c)
     ELSE To(c, "done") /\ UNCHANGED <<inFlight, queue, nextSequence>>

\* The caller hands the envelope it kept of an admitted head to the dispatcher.
DispatchHead(c) ==
  /\ stage[c] = "admitted"
  /\ To(c, "dispatching")
  /\ UNCHANGED <<inFlight, queue, nextSequence>>

Next ==
  \E c \in Commands :
    \/ dispatch_admitted(c) \/ Dispatched(c) \/ DispatchRaises(c)
    \/ Completes(c) \/ DispatchHead(c)

\* The caller keeps going: dispatchers answer, commands end and are reported,
\* and admitted heads are dispatched. Nobody need ever submit a command.
Fairness ==
  \A c \in Commands : /\ WF_vars(Dispatched(c) \/ DispatchRaises(c))
                      /\ WF_vars(Completes(c))
                      /\ WF_vars(DispatchHead(c))

Spec == Init /\ [][Next]_vars
FairSpec == Spec /\ Fairness

-----------------------------------------------------------------------------
(* Properties.                                                              *)

HoldsSlot == {"admitted", "dispatching", "running", "failed"}
Holders == {c \in Executions : stage[c] \in HoldsSlot}

\* The counter is exactly the number of execution commands that hold a slot,
\* those whose dispatch raised included: their slots never come back.
SlotsAccounted == inFlight = Cardinality(Holders)

\* At most `capacity` execution commands are dispatched and not complete.
CapacityRespected ==
  Cardinality({c \in Executions : stage[c] \in {"dispatching", "running"}}) <= capacity

\* Commands wait only while every slot is taken: no slot idles beside a queue.
QueueOnlyWhenFull == queue # <<>> => inFlight = capacity

\* The queue holds exactly the refused commands, each once, in the order in
\* which they were refused.
QueueIsFifo ==
  /\ {queue[i].command : i \in DOMAIN queue} = {c \in Executions : stage[c] = "queued"}
  /\ \A i, j \in DOMAIN queue : i < j =>
       /\ queue[i].sequence < queue[j].sequence
       /\ queue[i].command # queue[j].command
  /\ \A i \in DOMAIN queue : queue[i].sequence < nextSequence

\* A newly submitted execution command never passes one that already waits.
NoOvertaking ==
  [][\A c \in Executions :
       (stage[c] = "new" /\ stage'[c] = "dispatching") => queue = <<>>]_vars

\* A command that was refused runs to its end, unless a failed dispatch has
\* taken a slot out of use for good.
RefusedCommandsRun ==
  \A c \in Executions :
    stage[c] = "queued" ~> (stage[c] = "done" \/ \E d \in Executions : stage[d] = "failed")

=============================================================================
