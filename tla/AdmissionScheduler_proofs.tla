---------------------- MODULE AdmissionScheduler_proofs ----------------------
(***************************************************************************)
(* Proofs about AdmissionScheduler for every capacity and every finite set *)
(* of commands, when the caller reports the completions of execution       *)
(* commands only.  The counter is the size of the set of slot holders; a   *)
(* completion hands the freed slot to the head of the queue, so a queue    *)
(* only ever stands beside full slots.                                     *)
(***************************************************************************)
EXTENDS AdmissionScheduler, FiniteSetTheorems, SequenceTheorems, TLAPS

\* The inductive invariant: the queue must be known to hold waiting commands,
\* each once, for its head to be no holder of a slot already.
Inv ==
  /\ TypeOK
  /\ SlotsAccounted
  /\ inFlight <= capacity
  /\ QueueOnlyWhenFull
  /\ QueueIsFifo

\* The commands that hold a slot are finitely many, as the executions are.
LEMMA HoldersFinite == IsFiniteSet(Holders) /\ Holders \subseteq Executions
BY FS_Subset, SchedulerAssumption DEF Holders

\* A command that leaves the new or queued stage for one that holds a slot.
LEMMA OneMoreHolder ==
  ASSUME NEW c \in Executions, c \notin Holders, SlotsAccounted,
         Holders' = Holders \cup {c}, inFlight' = inFlight + 1
  PROVE  SlotsAccounted'
BY HoldersFinite, FS_AddElement DEF SlotsAccounted

\* A slot's holder ends and nobody takes its place.
LEMMA OneLessHolder ==
  ASSUME NEW c \in Holders, SlotsAccounted, Holders' = Holders \ {c},
         inFlight \in Nat, inFlight' = Released(c)
  PROVE  SlotsAccounted' /\ inFlight > 0
<1>1. Cardinality(Holders) \in Nat /\ Cardinality(Holders \ {c}) = Cardinality(Holders) - 1
  BY HoldersFinite, FS_RemoveElement, FS_CardinalityType
<1>2. Cardinality(Holders \ {c}) \in Nat
  BY HoldersFinite, FS_RemoveElement, FS_CardinalityType
<1>3. inFlight > 0
  BY <1>1, <1>2 DEF SlotsAccounted
<1> QED
  BY <1>1, <1>3, HoldersFinite DEF SlotsAccounted, Released

\* A slot passes from one command to another.
LEMMA SlotHandedOver ==
  ASSUME NEW c \in Holders, NEW d \in Executions, d \notin Holders, SlotsAccounted,
         Holders' = (Holders \ {c}) \cup {d}, inFlight \in Nat, inFlight' = Released(c) + 1
  PROVE  SlotsAccounted' /\ inFlight' = inFlight
<1>1. /\ IsFiniteSet(Holders \ {c})
      /\ Cardinality(Holders) \in Nat
      /\ Cardinality(Holders \ {c}) = Cardinality(Holders) - 1
  BY HoldersFinite, FS_RemoveElement, FS_CardinalityType
<1>2. Cardinality(Holders \ {c}) \in Nat
  BY <1>1, FS_CardinalityType
<1>3. d \notin Holders \ {c}
  OBVIOUS
<1>4. Cardinality(Holders') = Cardinality(Holders \ {c}) + 1
  BY <1>1, <1>3, FS_AddElement
<1>5. inFlight > 0
  BY <1>1, <1>2 DEF SlotsAccounted
<1> QED
  BY <1>1, <1>4, <1>5, HoldersFinite DEF SlotsAccounted, Released

-----------------------------------------------------------------------------
\* Appending a newly refused command keeps the queue a FIFO of the refused.
LEMMA EnqueueKeepsFifo ==
  ASSUME Inv, NEW c \in Commands, stage[c] = "new", Enqueue(c)
  PROVE  QueueIsFifo'
<1> USE DEF Waiting
<1> DEFINE q == Waiting(c, nextSequence)
<1>1. /\ c \in Executions /\ queue' = Append(queue, q)
      /\ nextSequence \in Nat /\ nextSequence' = nextSequence + 1
      /\ queue \in Seq([command : Executions, sequence : Nat])
      /\ q \in [command : Executions, sequence : Nat]
      /\ stage' = [stage EXCEPT ![c] = "queued"]
      /\ stage \in [Commands -> Stages]
  BY DEF Enqueue, To, Inv, TypeOK
<1>2. /\ DOMAIN queue = 1 .. Len(queue) /\ Len(queue) \in Nat
      /\ DOMAIN queue' = 1 .. Len(queue) + 1
      /\ \A i \in DOMAIN queue : queue'[i] = queue[i]
      /\ queue'[Len(queue) + 1] = q
  <2> HIDE DEF q
  <2>1. /\ DOMAIN queue = 1 .. Len(queue) /\ Len(queue) \in Nat
        /\ Len(queue') = Len(queue) + 1 /\ queue' \in Seq([command : Executions, sequence : Nat])
    BY <1>1
  <2>2. DOMAIN queue' = 1 .. Len(queue) + 1
    BY <2>1
  <2>3. \A i \in DOMAIN queue : queue'[i] = queue[i]
    BY <1>1, <2>1
  <2>4. queue'[Len(queue) + 1] = q
    <3> DEFINE W == [command : Executions, sequence : Nat]
    <3> HIDE DEF W
    <3>1. queue \in Seq(W) /\ q \in W /\ queue' = Append(queue, q)
      BY <1>1 DEF W
    <3> QED
      BY <3>1
  <2> QED
    BY <2>1, <2>2, <2>3, <2>4
<1>3. /\ {queue[i].command : i \in DOMAIN queue} = {d \in Executions : stage[d] = "queued"}
      /\ \A i \in DOMAIN queue : queue[i].sequence < nextSequence /\ queue[i].sequence \in Nat
  <2>1. \A i \in DOMAIN queue : queue[i] \in [command : Executions, sequence : Nat]
    BY <1>1, ElementOfSeq, <1>2
  <2>2. \A i \in DOMAIN queue : queue[i].sequence < nextSequence
    BY DEF Inv, QueueIsFifo
  <2>3. {queue[i].command : i \in DOMAIN queue} = {d \in Executions : stage[d] = "queued"}
    BY DEF Inv, QueueIsFifo
  <2> HIDE DEF q
  <2> QED
    BY <2>1, <2>2, <2>3
<1>4. \A i \in DOMAIN queue : queue[i].command # c
  BY <1>1, <1>3
<1>5. {queue'[i].command : i \in DOMAIN queue'} = {d \in Executions : stage'[d] = "queued"}
  <2>1. {queue'[i].command : i \in DOMAIN queue'} = {queue[i].command : i \in DOMAIN queue} \cup {c}
    BY <1>2
  <2>2. {d \in Executions : stage'[d] = "queued"} =
          {d \in Executions : stage[d] = "queued"} \cup {c}
    BY <1>1 DEF Commands
  <2> QED
    BY <1>3, <2>1, <2>2
<1>6. ASSUME NEW i \in DOMAIN queue', NEW j \in DOMAIN queue', i < j
      PROVE  queue'[i].sequence < queue'[j].sequence /\ queue'[i].command # queue'[j].command
  <2>1. i \in DOMAIN queue
    BY <1>2, <1>6
  <2>2. CASE j \in DOMAIN queue
    BY <1>2, <1>6, <2>1, <2>2 DEF Inv, QueueIsFifo
  <2>3. CASE j \notin DOMAIN queue
    <3>1. j = Len(queue) + 1
      BY <1>2, <2>3
    <3> QED
      BY <1>2, <1>3, <1>4, <2>1, <3>1
  <2> QED
    BY <2>2, <2>3
<1>7. \A i \in DOMAIN queue' : queue'[i].sequence < nextSequence'
  BY <1>1, <1>2, <1>3
<1> QED
  BY <1>5, <1>6, <1>7 DEF QueueIsFifo

\* Taking the head off keeps it one, once the head is no longer queued.
LEMMA TailKeepsFifo ==
  ASSUME Inv, queue # <<>>, queue' = Tail(queue), nextSequence' = nextSequence,
         {d \in Executions : stage'[d] = "queued"} =
           {d \in Executions : stage[d] = "queued"} \ {Head(queue).command}
  PROVE  QueueIsFifo'
<1>1. queue \in Seq([command : Executions, sequence : Nat]) /\ nextSequence \in Nat
  BY DEF Inv, TypeOK
<1>2. /\ DOMAIN queue = 1 .. Len(queue) /\ Len(queue) \in Nat \ {0}
      /\ DOMAIN queue' = 1 .. Len(queue) - 1
      /\ \A i \in DOMAIN queue' : queue'[i] = queue[i + 1] /\ i + 1 \in DOMAIN queue
      /\ Head(queue) = queue[1] /\ 1 \in DOMAIN queue
  BY <1>1
<1>3. {queue'[i].command : i \in DOMAIN queue'} =
        {queue[i].command : i \in DOMAIN queue} \ {queue[1].command}
  <2>1. \A i \in DOMAIN queue : i # 1 => queue[i].command # queue[1].command
    BY <1>2 DEF Inv, QueueIsFifo
  <2>2. \A i \in DOMAIN queue : i # 1 => i - 1 \in DOMAIN queue' /\ queue'[i - 1] = queue[i]
    BY <1>2
  <2>3. ASSUME NEW x \in {queue'[i].command : i \in DOMAIN queue'}
        PROVE  x \in {queue[i].command : i \in DOMAIN queue} \ {queue[1].command}
    <3>1. PICK i \in DOMAIN queue' : x = queue'[i].command
      OBVIOUS
    <3>2. x = queue[i + 1].command /\ i + 1 \in DOMAIN queue /\ i + 1 # 1
      BY <1>2, <3>1
    <3> QED
      BY <2>1, <3>2
  <2>4. ASSUME NEW x \in {queue[i].command : i \in DOMAIN queue} \ {queue[1].command}
        PROVE  x \in {queue'[i].command : i \in DOMAIN queue'}
    <3>1. PICK i \in DOMAIN queue : x = queue[i].command /\ i # 1
      OBVIOUS
    <3> QED
      BY <2>2, <3>1
  <2> QED
    BY <2>3, <2>4
<1>4. \A i, j \in DOMAIN queue' : i < j =>
        queue'[i].sequence < queue'[j].sequence /\ queue'[i].command # queue'[j].command
  BY <1>2 DEF Inv, QueueIsFifo
<1>5. \A i \in DOMAIN queue' : queue'[i].sequence < nextSequence'
  BY <1>2 DEF Inv, QueueIsFifo
<1> QED
  BY <1>2, <1>3, <1>4, <1>5 DEF Inv, QueueIsFifo

-----------------------------------------------------------------------------
\* Nothing is admitted and nothing waits to begin with.
LEMMA InitInv == Init => Inv
<1> SUFFICES ASSUME Init PROVE Inv
  OBVIOUS
<1>1. TypeOK
  BY DEF Init, TypeOK, Stages
<1>2. Holders = {}
  BY DEF Init, Holders, HoldsSlot, Commands
<1>3. SlotsAccounted
  BY <1>2, FS_EmptySet DEF Init, SlotsAccounted
<1>4. QueueIsFifo
  BY DEF Init, QueueIsFifo, Commands
<1> QED
  BY <1>1, <1>3, <1>4, SchedulerAssumption DEF Inv, Init, QueueOnlyWhenFull

\* A step that leaves the counter and the queue alone and moves a command
\* between stages that both hold a slot, or both hold none.
LEMMA StageOnly ==
  ASSUME Inv, NEW c \in Commands, NEW s \in Stages, To(c, s),
         UNCHANGED <<inFlight, queue, nextSequence>>,
         stage[c] # "queued", s # "queued",
         c \in Executions => (stage[c] \in HoldsSlot <=> s \in HoldsSlot)
  PROVE  Inv'
<1>1. stage \in [Commands -> Stages] /\ Executions \subseteq Commands
  BY DEF Inv, TypeOK, Commands
<1>2. TypeOK'
  BY <1>1 DEF Inv, TypeOK, To
<1>3. Holders' = Holders
  BY <1>1 DEF Holders, To
<1>4. {d \in Executions : stage'[d] = "queued"} = {d \in Executions : stage[d] = "queued"}
  BY <1>1 DEF To
<1>5. QueueIsFifo'
  BY <1>4 DEF Inv, QueueIsFifo
<1> QED
  BY <1>2, <1>3, <1>5 DEF Inv, SlotsAccounted, QueueOnlyWhenFull

\* dispatch_admitted keeps the invariant: a slot taken is counted, and a command
\* that is refused joins the end of the queue.
LEMMA SubmitInv ==
  ASSUME Inv, NEW c \in Commands, dispatch_admitted(c)
  PROVE  Inv'
<1> USE DEF dispatch_admitted
<1>0. stage \in [Commands -> Stages] /\ Executions \subseteq Commands /\ inFlight \in Nat
      /\ capacity \in Nat \ {0}
  BY SchedulerAssumption DEF Inv, TypeOK, Commands
<1>1. CASE AdmitSignal(c)
  BY <1>1, StageOnly, SchedulerAssumption DEF AdmitSignal, Stages
<1>2. CASE AdmitExecution(c)
  <2>1. TypeOK'
    BY <1>0, <1>2 DEF AdmitExecution, To, Inv, TypeOK, Stages
  <2>2. c \notin Holders /\ Holders' = Holders \cup {c}
    BY <1>0, <1>2 DEF AdmitExecution, To, Holders, HoldsSlot
  <2>3. SlotsAccounted'
    BY <1>2, <2>2, OneMoreHolder DEF AdmitExecution, Inv
  <2>4. {d \in Executions : stage'[d] = "queued"} = {d \in Executions : stage[d] = "queued"}
    BY <1>0, <1>2 DEF AdmitExecution, To
  <2>5. QueueIsFifo'
    BY <1>2, <2>4 DEF AdmitExecution, Inv, QueueIsFifo
  <2>6. inFlight' <= capacity /\ QueueOnlyWhenFull'
    BY <1>0, <1>2 DEF AdmitExecution, Inv, QueueOnlyWhenFull
  <2> QED
    BY <2>1, <2>3, <2>5, <2>6 DEF Inv
<1>3. CASE Enqueue(c)
  <2>1. TypeOK'
    <3>1. stage' \in [Commands -> Stages]
      BY <1>0, <1>3 DEF Enqueue, To, Stages
    <3>2. Waiting(c, nextSequence) \in [command : Executions, sequence : Nat]
      BY <1>3 DEF Enqueue, Waiting, Inv, TypeOK
    <3>3. queue' \in Seq([command : Executions, sequence : Nat])
      BY <1>3, <3>2 DEF Enqueue, Inv, TypeOK
    <3> QED
      BY <1>3, <3>1, <3>3 DEF Enqueue, Inv, TypeOK
  <2>2. Holders' = Holders
    BY <1>0, <1>3 DEF Enqueue, To, Holders, HoldsSlot
  <2>3. QueueIsFifo'
    BY <1>3, EnqueueKeepsFifo
  <2>4. inFlight' = inFlight /\ inFlight = capacity
    BY <1>0, <1>3 DEF Enqueue, Inv
  <2>5. SlotsAccounted' /\ QueueOnlyWhenFull' /\ inFlight' <= capacity
    BY <1>0, <2>2, <2>4 DEF Inv, SlotsAccounted, QueueOnlyWhenFull
  <2> QED
    BY <2>1, <2>3, <2>5 DEF Inv
<1> QED
  BY <1>1, <1>2, <1>3

-----------------------------------------------------------------------------
\* on_complete keeps the invariant: a slot is freed, or passes to the head.
LEMMA CompletesInv ==
  ASSUME Inv, ~ReportsSignals, NEW c \in Commands, Completes(c)
  PROVE  Inv'
<1>0. /\ stage \in [Commands -> Stages] /\ Executions \subseteq Commands
      /\ inFlight \in Nat /\ capacity \in Nat \ {0} /\ stage[c] = "running"
  BY SchedulerAssumption DEF Inv, TypeOK, Commands, Completes
<1>1. CASE c \notin Executions
  <2>1. To(c, "done") /\ UNCHANGED <<inFlight, queue, nextSequence>>
    BY <1>1 DEF Completes
  <2> QED
    BY <1>0, <1>1, <2>1, StageOnly DEF Stages
<1>2. CASE c \in Executions /\ queue = <<>>
  <2>1. /\ inFlight' = Released(c) /\ stage' = [stage EXCEPT ![c] = "done"]
        /\ UNCHANGED <<queue, nextSequence>>
    BY <1>2 DEF Completes, on_complete
  <2>2. c \in Holders /\ Holders' = Holders \ {c}
    BY <1>0, <1>2, <2>1 DEF Holders, HoldsSlot
  <2>3. SlotsAccounted' /\ inFlight > 0
    BY <1>0, <2>1, <2>2, OneLessHolder DEF Inv
  <2>4. inFlight' = inFlight - 1
    BY <1>2, <2>1, <2>3 DEF Released
  <2>5. TypeOK'
    BY <1>0, <2>1, <2>3, <2>4 DEF Inv, TypeOK, Stages
  <2>6. {d \in Executions : stage'[d] = "queued"} = {d \in Executions : stage[d] = "queued"}
    BY <1>0, <2>1
  <2>7. QueueIsFifo'
    BY <2>1, <2>6 DEF Inv, QueueIsFifo
  <2>8. QueueOnlyWhenFull' /\ inFlight' <= capacity
    BY <1>0, <1>2, <2>1, <2>4 DEF Inv, QueueOnlyWhenFull
  <2> QED
    BY <2>3, <2>5, <2>7, <2>8 DEF Inv
<1>3. CASE c \in Executions /\ queue # <<>>
  <2> DEFINE d == Head(queue).command
  <2>1. /\ inFlight' = Released(c) + 1
        /\ stage' = [stage EXCEPT ![c] = "done", ![d] = "admitted"]
        /\ queue' = Tail(queue) /\ nextSequence' = nextSequence
    BY <1>3 DEF Completes, on_complete
  <2>2. queue \in Seq([command : Executions, sequence : Nat])
    BY DEF Inv, TypeOK
  <2>3. Head(queue) = queue[1] /\ 1 \in DOMAIN queue
    BY <1>3, <2>2
  <2>4. d \in Executions /\ stage[d] = "queued"
    BY <2>3 DEF Inv, QueueIsFifo
  <2> HIDE DEF d
  <2>5. c \in Holders /\ d \notin Holders /\ Holders' = (Holders \ {c}) \cup {d}
    BY <1>0, <1>3, <2>1, <2>4 DEF Holders, HoldsSlot
  <2>6. SlotsAccounted' /\ inFlight' = inFlight
    BY <1>0, <2>1, <2>4, <2>5, SlotHandedOver DEF Inv
  <2>7. TypeOK'
    <3>1. stage' \in [Commands -> Stages]
      BY <1>0, <2>1, <2>4 DEF Stages
    <3>2. queue' \in Seq([command : Executions, sequence : Nat])
      BY <1>3, <2>1, <2>2
    <3> QED
      BY <1>0, <2>1, <2>6, <3>1, <3>2 DEF Inv, TypeOK
  <2>8. {e \in Executions : stage'[e] = "queued"} = {e \in Executions : stage[e] = "queued"} \ {d}
    BY <1>0, <2>1, <2>4
  <2>9. QueueIsFifo'
    BY <1>3, <2>1, <2>8, TailKeepsFifo DEF d
  <2>10. QueueOnlyWhenFull' /\ inFlight' <= capacity
    BY <1>0, <1>3, <2>6 DEF Inv, QueueOnlyWhenFull
  <2> QED
    BY <2>6, <2>7, <2>9, <2>10 DEF Inv
<1> QED
  BY <1>1, <1>2, <1>3

\* Every step of the scheduler and of its caller keeps the invariant.
LEMMA StepInv ==
  ASSUME Inv, ~ReportsSignals, [Next]_vars
  PROVE  Inv'
<1>1. ASSUME NEW c \in Commands, Dispatched(c) \/ DispatchRaises(c) \/ DispatchHead(c)
      PROVE  Inv'
  <2>1. CASE Dispatched(c)
    BY <2>1, StageOnly DEF Dispatched, Stages, HoldsSlot
  <2>2. CASE DispatchRaises(c)
    BY <2>2, StageOnly DEF DispatchRaises, Stages, HoldsSlot
  <2>3. CASE DispatchHead(c)
    BY <2>3, StageOnly DEF DispatchHead, Stages, HoldsSlot
  <2> QED
    BY <1>1, <2>1, <2>2, <2>3
<1>2. CASE UNCHANGED vars
  BY <1>2 DEF vars, Inv, TypeOK, SlotsAccounted, Holders, QueueOnlyWhenFull, QueueIsFifo
<1> QED
  BY <1>1, <1>2, SubmitInv, CompletesInv DEF Next

-----------------------------------------------------------------------------
\* The inductive invariant of the scheduler whose caller reports the completions
\* of execution commands only: the counter, the queue and the slots agree.
THEOREM Invariance == ~ReportsSignals => (Spec => []Inv)
<1> SUFFICES ASSUME ~ReportsSignals PROVE Spec => []Inv
  OBVIOUS
<1>1. Inv /\ [Next]_vars => Inv'
  BY StepInv
<1> QED
  BY <1>1, InitInv, PTL DEF Spec

\* The counter is the number of commands that hold a slot: what a dispatch that
\* raised took is never given back.
THEOREM SlotsStayAccounted == ~ReportsSignals => (Spec => [](TypeOK /\ SlotsAccounted))
<1>1. Inv => TypeOK /\ SlotsAccounted
  BY DEF Inv
<1> QED
  BY <1>1, Invariance, PTL

\* No more than `capacity` execution commands run at once.
THEOREM CapacityIsRespected == ~ReportsSignals => (Spec => []CapacityRespected)
<1>1. ASSUME Inv PROVE CapacityRespected
  <2> DEFINE Running == {c \in Executions : stage[c] \in {"dispatching", "running"}}
  <2>1. Running \subseteq Holders
    BY DEF Holders, HoldsSlot
  <2>2. /\ Cardinality(Running) <= Cardinality(Holders)
        /\ Cardinality(Running) \in Nat /\ Cardinality(Holders) \in Nat
    BY <2>1, HoldersFinite, FS_Subset, FS_CardinalityType
  <2>3. capacity \in Nat /\ inFlight \in Nat /\ inFlight <= capacity
        /\ inFlight = Cardinality(Holders)
    BY <1>1, SchedulerAssumption DEF Inv, TypeOK, SlotsAccounted
  <2> HIDE DEF Running
  <2>4. Cardinality(Running) <= capacity
    BY <2>2, <2>3
  <2> QED
    BY <2>4 DEF CapacityRespected, Running
<1> QED
  BY <1>1, Invariance, PTL

\* TypeOK, for any set of commands and any capacity.
THEOREM TypeCorrect == ~ReportsSignals => (Spec => []TypeOK)
<1>1. Inv => TypeOK
  BY DEF Inv
<1> QED
  BY <1>1, Invariance, PTL

\* No slot stays free beside a waiting command.
THEOREM NoIdleSlot == ~ReportsSignals => (Spec => []QueueOnlyWhenFull)
<1>1. Inv => QueueOnlyWhenFull
  BY DEF Inv
<1> QED
  BY <1>1, Invariance, PTL

\* The queue holds the refused commands, each once, in the order they came.
THEOREM QueueStaysFifo == ~ReportsSignals => (Spec => []QueueIsFifo)
<1>1. Inv => QueueIsFifo
  BY DEF Inv
<1> QED
  BY <1>1, Invariance, PTL

\* A new command never starts while another waits: a slot is free for it only
\* when the queue is empty.
THEOREM Overtaking == ~ReportsSignals => (Spec => NoOvertaking)
<1> SUFFICES ASSUME ~ReportsSignals PROVE Spec => NoOvertaking
  OBVIOUS
<1> DEFINE Fair == \A c \in Executions :
                     (stage[c] = "new" /\ stage'[c] = "dispatching") => queue = <<>>
<1>1. Inv /\ [Next]_vars => [Fair]_vars
  <2> SUFFICES ASSUME Inv, Next,
                      NEW c \in Executions, stage[c] = "new", stage'[c] = "dispatching"
               PROVE  queue = <<>>
    BY DEF vars
  <2>0. /\ stage \in [Commands -> Stages] /\ Executions \subseteq Commands
        /\ inFlight \in Nat /\ capacity \in Nat \ {0} /\ c \notin Signals
    BY SchedulerAssumption DEF Inv, TypeOK, Commands
  <2>1. PICK d \in Commands : \/ dispatch_admitted(d) \/ Dispatched(d) \/ DispatchRaises(d)
                              \/ Completes(d) \/ DispatchHead(d)
    BY DEF Next
  <2>2. CASE dispatch_admitted(d)
    <3>1. c = d
      BY <2>0, <2>2 DEF dispatch_admitted, AdmitSignal, AdmitExecution, Enqueue, To
    <3>2. ~AdmitSignal(d) /\ ~Enqueue(d)
      BY <2>0, <3>1 DEF AdmitSignal, Enqueue, To
    <3>3. inFlight < capacity
      BY <2>2, <3>2 DEF dispatch_admitted, AdmitExecution
    <3> QED
      BY <2>0, <3>3 DEF Inv, QueueOnlyWhenFull
  <2>3. CASE Dispatched(d) \/ DispatchRaises(d) \/ DispatchHead(d)
    BY <2>0, <2>3 DEF Dispatched, DispatchRaises, DispatchHead, To
  <2>4. CASE Completes(d)
    <3>1. \/ stage' = [stage EXCEPT ![d] = "done"]
          \/ stage' = [stage EXCEPT ![d] = "done", ![Head(queue).command] = "admitted"]
      BY <2>4 DEF Completes, on_complete, To
    <3>2. stage'[c] \in {stage[c], "done", "admitted"}
      BY <2>0, <3>1
    <3> QED
      BY <3>2
  <2> QED
    BY <2>1, <2>2, <2>3, <2>4
<1> QED
  BY <1>1, Invariance, PTL DEF Spec, NoOvertaking

=============================================================================
