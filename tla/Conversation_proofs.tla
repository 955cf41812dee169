------------------------- MODULE Conversation_proofs -------------------------
(***************************************************************************)
(* Proofs about Conversation for any threads, users, events and window,    *)
(* over either transport.                                                  *)
(***************************************************************************)
EXTENDS Conversation, SequenceTheorems, TLAPS

\* What a task relies on when it runs: its event is known and, between its
\* steps, so is the interaction of its thread.
Started ==
  /\ \A e \in seen : content[e] \in Contents
  /\ \A i \in 1 .. Len(queue) : queue[i] \in seen
  /\ \A e \in Events : task[e].at # "idle" => e \in seen /\ Exists(Thread(e))
  /\ \A e \in Events : outcome[e] # "none" => e \in seen /\ (outcome[e] # "ignored" => Exists(Thread(e)))

StartedOK == TypeOK /\ Started

\* A task that takes the loop is of an event that came in.
LEMMA BeginFacts ==
  ASSUME StartedOK, NEW e \in Events, Begin(e)
  PROVE  /\ e \in seen /\ content[e] \in Contents
         /\ Thread(e) \in Threads /\ User(e) \in Users
         /\ queue' \in Seq(Events)
         /\ Len(queue') = Len(queue) - 1
         /\ \A i \in 1 .. Len(queue') : queue'[i] = queue[i + 1]
         /\ \A i \in 1 .. Len(queue') : queue'[i] \in seen
<1>1. queue \in Seq(Events) /\ queue # <<>> /\ e = Head(queue) /\ queue' = Tail(queue)
  BY DEF StartedOK, TypeOK, Begin
<1>2. e = queue[1] /\ 1 \in 1 .. Len(queue)
  BY <1>1, EmptySeq
<1>3. e \in seen /\ content[e] \in Contents
  BY <1>2 DEF StartedOK, Started
<1>4. Thread(e) \in Threads /\ User(e) \in Users
  BY <1>3 DEF Thread, User, Contents
<1>5. /\ queue' \in Seq(Events) /\ Len(queue') = Len(queue) - 1
      /\ \A i \in 1 .. Len(queue') : queue'[i] = queue[i + 1]
  BY <1>1, HeadTailProperties
<1>6. Len(queue) \in Nat /\ \A i \in 1 .. Len(queue) : queue[i] \in seen
  BY <1>1, LenProperties DEF StartedOK, Started
<1>7. \A i \in 1 .. Len(queue') : i + 1 \in 1 .. Len(queue)
  BY <1>5, <1>6
<1> QED
  BY <1>3, <1>4, <1>5, <1>6, <1>7

\* A task that goes on is of an event that came in and of a known interaction.
LEMMA AtFacts ==
  ASSUME StartedOK, NEW e \in Events, NEW at, at # "idle", At(e, at)
  PROVE  /\ e \in seen /\ content[e] \in Contents
         /\ Thread(e) \in Threads /\ User(e) \in Users
         /\ interactions[Thread(e)] \in Interactions
         /\ task[e] \in Tasks
<1>1. e \in seen /\ content[e] \in Contents /\ Exists(Thread(e))
  BY DEF StartedOK, Started, At
<1>2. Thread(e) \in Threads /\ User(e) \in Users
  BY <1>1 DEF Thread, User, Contents
<1> QED
  BY <1>1, <1>2 DEF StartedOK, TypeOK, Exists

\* What the row operations return.
LEMMA RowTypes ==
  /\ \A i \in Interactions : Rewritten(i) \in Interactions /\ Completed(i) \in Interactions
  /\ \A i \in Interactions, m \in Nat : Messaged(i, m) \in Interactions
  /\ \A m \in Nat : Opened(m) \in Interactions
  /\ NoInteraction \notin Interactions
<1>1. ASSUME NEW i \in Interactions
      PROVE  Rewritten(i) \in Interactions
  BY <1>1 DEF Interactions, Rewritten
<1>2. ASSUME NEW i \in Interactions
      PROVE  Completed(i) \in Interactions
  BY <1>2 DEF Interactions, Completed
<1>3. ASSUME NEW i \in Interactions, NEW m \in Nat
      PROVE  Messaged(i, m) \in Interactions
  BY <1>3 DEF Interactions, Messaged
<1>4. ASSUME NEW m \in Nat
      PROVE  Opened(m) \in Interactions
  BY <1>4, InteractionAssumption DEF Interactions, Opened
<1> QED
  BY <1>1, <1>2, <1>3, <1>4, InteractionAssumption

\* Which statuses there are.
LEMMA Statuses ==
  ASSUME NEW t
  PROVE  Exists(t) => (Closed(t) <=> ~Active(t))
BY DEF Exists, Closed, Active, derive_status, ClosedStatuses

-----------------------------------------------------------------------------
(* Types                                                                    *)

\* The three ways in which a step moves the task of e: it publishes, it goes on
\* holding the loop, it ends.
Moves(e, next) ==
  /\ task' = [task EXCEPT ![e] = next]
  /\ outcome' = outcome
  /\ running' \in {e, Nobody}
  /\ ~suspends => running' = e

\* What a task that goes on leaves.
LEMMA MoveTypes ==
  ASSUME StartedOK, NEW e \in Events, NEW next \in Tasks,
         \/ Await(e, next)
         \/ task' = [task EXCEPT ![e] = next] /\ running' = e /\ outcome' = outcome
  PROVE  /\ Moves(e, next)
         /\ task' \in [Events -> Tasks]
         /\ task'[e] = next /\ \A f \in Events : f # e => task'[f] = task[f]
         /\ outcome' \in [Events -> Outcomes]
         /\ running' \in Events \cup {Nobody}
BY DEF StartedOK, TypeOK, Await, Moves

\* What a task that ends leaves.
LEMMA FinishTypes ==
  ASSUME StartedOK, NEW e \in Events, NEW o \in Outcomes, Finish(e, o)
  PROVE  /\ task' \in [Events -> Tasks]
         /\ task'[e] = Idle /\ \A f \in Events : f # e => task'[f] = task[f]
         /\ outcome' \in [Events -> Outcomes]
         /\ outcome'[e] = o /\ \A f \in Events : f # e => outcome'[f] = outcome[f]
         /\ running' = Nobody /\ running' \in Events \cup {Nobody}
BY DEF StartedOK, TypeOK, Finish, Idle, Tasks

\* However a step moves the task of e, it moves no other.
LEMMA TaskOnly ==
  ASSUME StartedOK, NEW e \in Events,
         \/ \E next \in Tasks : Await(e, next)
         \/ \E next \in Tasks : task' = [task EXCEPT ![e] = next] /\ running' = e /\ outcome' = outcome
         \/ \E o \in Outcomes : Finish(e, o)
  PROVE  /\ task' \in [Events -> Tasks]
         /\ outcome' \in [Events -> Outcomes]
         /\ running' \in Events \cup {Nobody}
         /\ \A f \in Events : f # e => task'[f] = task[f] /\ outcome'[f] = outcome[f]
<1>1. CASE \E next \in Tasks : Await(e, next)
  BY <1>1, MoveTypes DEF Moves
<1>2. CASE \E next \in Tasks : task' = [task EXCEPT ![e] = next] /\ running' = e /\ outcome' = outcome
  BY <1>2, MoveTypes DEF Moves
<1>3. CASE \E o \in Outcomes : Finish(e, o)
  BY <1>3, FinishTypes
<1> QED
  BY <1>1, <1>2, <1>3

\* A closed thread's message leaves its closing summary behind.
LEMMA HandleClosedTypes ==
  ASSUME StartedOK, NEW e \in Events, content[e] \in Contents, Exists(Thread(e)), HandleClosed(e)
  PROVE  /\ pending' \in [Users -> Contexts \cup {NoContext}]
         /\ pending'[User(e)] = [thread |-> Thread(e), summary |-> interactions[Thread(e)].summary]
         /\ \A u \in Users : u # User(e) => pending'[u] = pending[u]
         /\ \E o \in {"closed", "unsent"} : Finish(e, o)
<1>1. Thread(e) \in Threads /\ User(e) \in Users
  BY DEF Contents, Thread, User
<1>2. interactions[Thread(e)] \in Interactions
  BY <1>1 DEF StartedOK, TypeOK, Exists
<1>3. [thread |-> Thread(e), summary |-> interactions[Thread(e)].summary] \in Contexts
  BY <1>1, <1>2 DEF Contexts, Interactions
<1> QED
  BY <1>1, <1>3 DEF HandleClosed, Tell, StartedOK, TypeOK

\* A summary published as confirmed joins its thread's.
LEMMA PublishTypes ==
  ASSUME StartedOK, NEW e \in Events, content[e] \in Contents, task[e] \in Tasks,
         NEW v \in Nat, PublishConfirmed(e, v)
  PROVE  /\ confirmed' \in [Threads -> Seq(Nat)]
         /\ confirmed'[Thread(e)] = Append(confirmed[Thread(e)], v)
         /\ \A t \in Threads : t # Thread(e) => confirmed'[t] = confirmed[t]
         /\ [task[e] EXCEPT !.at = "complete", !.summary = v] \in Tasks
         /\ Await(e, [task[e] EXCEPT !.at = "complete", !.summary = v])
<1>1. Thread(e) \in Threads
  BY DEF Contents, Thread
<1>2. Append(confirmed[Thread(e)], v) \in Seq(Nat)
  BY <1>1, AppendProperties DEF StartedOK, TypeOK
<1>3. [task[e] EXCEPT !.at = "complete", !.summary = v] \in Tasks
  BY DEF Tasks
<1> QED
  BY <1>1, <1>2, <1>3 DEF PublishConfirmed, StartedOK, TypeOK

\* The constants of an idle task and of a thread's first one.
LEMMA TaskTypes ==
  /\ Idle \in Tasks
  /\ \A b \in BOOLEAN : [at |-> "record", fresh |-> b, summary |-> 0] \in Tasks
  /\ \A k \in Tasks : /\ [k EXCEPT !.at = "carry"] \in Tasks
                      /\ [k EXCEPT !.at = "route"] \in Tasks
                      /\ [k EXCEPT !.at = "summarize"] \in Tasks
  /\ \A k \in Tasks, v \in Nat : [k EXCEPT !.at = "confirm", !.summary = v] \in Tasks
BY DEF Idle, Tasks

\* A step of one task keeps what the tasks rely on.
LEMMA TaskKeepsStarted ==
  ASSUME StartedOK, NEW e \in seen, content' = content, seen' = seen,
         \A i \in 1 .. Len(queue') : queue'[i] \in seen,
         \A t \in Threads : Exists(t) => Exists(t)',
         \/ Exists(Thread(e))'
         \/ task'[e].at = "idle" /\ outcome'[e] = "ignored",
         \A f \in Events : f # e => task'[f] = task[f] /\ outcome'[f] = outcome[f]
  PROVE  Started'
<1>1. \A f \in Events : f \in seen => Thread(f) \in Threads /\ Thread(f)' = Thread(f)
  BY DEF StartedOK, Started, Thread, Contents
<1>2. e \in Events
  BY DEF StartedOK, TypeOK
<1>3. \A f \in Events : f # e => (task'[f].at # "idle" => f \in seen' /\ Exists(Thread(f))')
  BY <1>1 DEF StartedOK, Started, Exists
<1>4. \A f \in Events : f # e => (outcome'[f] # "none" =>
        f \in seen' /\ (outcome'[f] # "ignored" => Exists(Thread(f))'))
  BY <1>1 DEF StartedOK, Started, Exists
<1>5. \A f \in seen' : content'[f] \in Contents
  BY DEF StartedOK, Started
<1> QED
  BY <1>2, <1>3, <1>4, <1>5 DEF Started

\* Every step keeps the types, and every task's event and interaction known.
LEMMA StartedStep ==
  ASSUME StartedOK, [Next]_vars
  PROVE  StartedOK'
<1> USE DEF StartedOK
<1>1. ASSUME Tick
      PROVE  StartedOK'
  BY <1>1, ConversationAssumption DEF Tick, TypeOK, Started, ingress, Exists, Thread
<1>2. ASSUME NEW t \in Threads, Ask(t)
      PROVE  StartedOK'
  <2>1. interactions' \in [Threads -> Interactions \cup {NoInteraction}]
    BY <1>2, RowTypes DEF Ask, TypeOK
  <2>2. \A u \in Threads : Exists(u) => Exists(u)'
    BY <1>2, <2>1, RowTypes DEF Ask, Exists, TypeOK
  <2>3. TypeOK'
    BY <1>2, <2>1 DEF Ask, TypeOK, ingress
  <2>4. \A e \in seen : Thread(e) \in Threads
    BY DEF Started, Thread, Contents
  <2> QED
    BY <1>2, <2>2, <2>3, <2>4 DEF Ask, Started, ingress, Thread
<1>3. ASSUME NEW e \in Events, NEW c \in Contents, Deliver(e, c)
      PROVE  StartedOK'
  <2>1. /\ queue' \in Seq(Events) /\ Len(queue') = Len(queue) + 1
        /\ \A i \in 1 .. Len(queue) : queue'[i] = queue[i]
        /\ queue'[Len(queue) + 1] = e
        /\ Len(queue) \in Nat
    BY <1>3, AppendProperties, LenProperties DEF Deliver, TypeOK
  <2>2. seen' = seen \cup {e} /\ content' \in [Events -> Contents \cup {Unsent}]
        /\ content'[e] = c /\ \A f \in Events : f # e => content'[f] = content[f]
    BY <1>3 DEF Deliver, TypeOK
  <2>3. TypeOK'
    BY <1>3, <2>1, <2>2 DEF Deliver, TypeOK
  <2>4. \A f \in seen : f # e /\ f \in Events
    BY <1>3 DEF Deliver, TypeOK
  <2>5. \A i \in 1 .. Len(queue') : queue'[i] \in seen'
    BY <2>1, <2>2 DEF Started
  <2>6. \A f \in seen : Thread(f)' = Thread(f) /\ (Exists(Thread(f)))' = Exists(Thread(f))
    BY <1>3, <2>2, <2>4 DEF Thread, Exists, Deliver
  <2>7. \A f \in seen' : content'[f] \in Contents
    BY <2>2, <2>4 DEF Started
  <2>8. \A f \in Events : f \in seen => Thread(f)' = Thread(f)
    BY <2>6
  <2>9. \A f \in Events : task'[f].at # "idle" => f \in seen' /\ Exists(Thread(f))'
    BY <1>3, <2>2, <2>8 DEF Deliver, Started, Exists
  <2>10. \A f \in Events : outcome'[f] # "none" =>
           f \in seen' /\ (outcome'[f] # "ignored" => Exists(Thread(f))')
    BY <1>3, <2>2, <2>8 DEF Deliver, Started, Exists
  <2>11. Started'
    BY <2>5, <2>7, <2>9, <2>10 DEF Started, Exists
  <2> QED
    BY <2>3, <2>11
<1>4. ASSUME NEW e \in Events, Receive(e)
      PROVE  StartedOK'
  <2> DEFINE t == Thread(e)
  <2> DEFINE at == [at |-> "record", fresh |-> t \notin known, summary |-> 0]
  <2>1. /\ e \in seen /\ content[e] \in Contents /\ t \in Threads /\ queue' \in Seq(Events)
        /\ \A i \in 1 .. Len(queue') : queue'[i] \in seen
    <3>1. Begin(e)
      BY <1>4 DEF Receive
    <3> QED
      BY <3>1, BeginFacts
  <2>2. at \in Tasks
    BY TaskTypes
  <2>3. /\ known' \subseteq Threads /\ content' = content /\ seen' = seen
        /\ now' = now /\ suspends' = suspends /\ received' = received /\ confirmed' = confirmed
    BY <1>4, <2>1 DEF Receive, ingress, TypeOK
  <2> HIDE DEF at
  <2>4. CASE ~Exists(t) /\ interactions' = [interactions EXCEPT ![t] = Opened(now)]
             /\ Await(e, at) /\ pending' = pending
    <3>1. /\ interactions' \in [Threads -> Interactions \cup {NoInteraction}]
          /\ interactions'[t] # NoInteraction
          /\ \A u \in Threads : u # t => interactions'[u] = interactions[u]
      BY <2>4, <2>1, RowTypes DEF TypeOK
    <3>2. TypeOK'
      BY <2>1, <2>2, <2>3, <2>4, <3>1, MoveTypes DEF TypeOK
    <3>3. Thread(e)' = t
      BY <2>3 DEF Thread
    <3>4. Exists(Thread(e))' /\ \A u \in Threads : Exists(u) => Exists(u)'
      BY <3>1, <3>3 DEF Exists
    <3>5. \A f \in Events : f # e => task'[f] = task[f] /\ outcome'[f] = outcome[f]
      BY <2>2, <2>4, MoveTypes DEF Moves
    <3> QED
      BY <2>1, <2>3, <3>2, <3>4, <3>5, TaskKeepsStarted
  <2>5. CASE Active(t) /\ task' = [task EXCEPT ![e] = at] /\ running' = e
             /\ UNCHANGED <<outcome, pending, interactions>>
    <3>1. TypeOK'
      BY <2>1, <2>2, <2>3, <2>5, MoveTypes DEF TypeOK
    <3>2. Exists(Thread(e))' /\ \A u \in Threads : Exists(u) => Exists(u)'
      BY <2>3, <2>5 DEF Exists, Active, Thread
    <3>3. \A f \in Events : f # e => task'[f] = task[f] /\ outcome'[f] = outcome[f]
      BY <2>2, <2>5, MoveTypes
    <3> QED
      BY <2>1, <2>3, <3>1, <3>2, <3>3, TaskKeepsStarted
  <2>6. CASE Closed(t) /\ HandleClosed(e) /\ interactions' = interactions
    <3>1. Exists(t)
      BY <2>6 DEF Closed
    <3>2. TypeOK'
      BY <2>1, <2>3, <2>6, <3>1, HandleClosedTypes, FinishTypes DEF TypeOK, Outcomes
    <3>3. Exists(Thread(e))' /\ \A u \in Threads : Exists(u) => Exists(u)'
      BY <2>3, <2>6, <3>1 DEF Exists, Thread
    <3>4. \A f \in Events : f # e => task'[f] = task[f] /\ outcome'[f] = outcome[f]
      BY <2>1, <2>6, <3>1, HandleClosedTypes, FinishTypes DEF Outcomes
    <3> QED
      BY <2>1, <2>3, <3>2, <3>3, <3>4, TaskKeepsStarted
  <2> QED
    BY <1>4, <2>4, <2>5, <2>6 DEF Receive, at
<1>5. ASSUME NEW e \in Events, Record(e)
      PROVE  StartedOK'
  <2> DEFINE next == [task[e] EXCEPT !.at = IF task[e].fresh THEN "carry" ELSE "route"]
  <2>1. /\ At(e, "record")
        /\ interactions' = [interactions EXCEPT ![Thread(e)] = Messaged(@, now)]
        /\ received' = [received EXCEPT ![e] = @ + 1]
        /\ Await(e, next)
        /\ UNCHANGED <<now, suspends, content, seen, queue, known, pending, confirmed>>
    BY <1>5 DEF Record, ingress
  <2>2. /\ e \in seen /\ Thread(e) \in Threads /\ interactions[Thread(e)] \in Interactions
        /\ task[e] \in Tasks
    BY <2>1, AtFacts
  <2>3. next \in Tasks
    BY <2>2, TaskTypes
  <2> HIDE DEF next
  <2>4. /\ interactions' \in [Threads -> Interactions \cup {NoInteraction}]
        /\ interactions'[Thread(e)] \in Interactions
        /\ \A u \in Threads : u # Thread(e) => interactions'[u] = interactions[u]
    BY <2>1, <2>2, RowTypes DEF TypeOK
  <2>5. TypeOK'
    BY <2>1, <2>3, <2>4, MoveTypes DEF TypeOK
  <2>6. Exists(Thread(e))' /\ \A u \in Threads : Exists(u) => Exists(u)'
    BY <2>1, <2>4, RowTypes DEF Exists, Thread
  <2>7. \A f \in Events : f # e => task'[f] = task[f] /\ outcome'[f] = outcome[f]
    BY <2>1, <2>3, MoveTypes DEF Moves
  <2>8. \A i \in 1 .. Len(queue') : queue'[i] \in seen
    BY <2>1 DEF Started
  <2> QED
    BY <2>1, <2>2, <2>5, <2>6, <2>7, <2>8, TaskKeepsStarted
<1>6. ASSUME NEW e \in Events, CarryOver(e)
      PROVE  StartedOK'
  <2> DEFINE t == Thread(e)
  <2> DEFINE routed == [task[e] EXCEPT !.at = "route"]
  <2>1. /\ At(e, "carry")
        /\ pending' = [pending EXCEPT ![User(e)] = NoContext]
        /\ UNCHANGED <<now, suspends, content, seen, queue, known, received, confirmed>>
    BY <1>6 DEF CarryOver, ingress
  <2>2. /\ e \in seen /\ t \in Threads /\ interactions[t] \in Interactions /\ task[e] \in Tasks
    BY <2>1, AtFacts
  <2>3. routed \in Tasks /\ pending' \in [Users -> Contexts \cup {NoContext}]
    BY <2>1, <2>2, TaskTypes DEF TypeOK
  <2> HIDE DEF routed
  <2>4. /\ interactions' \in [Threads -> Interactions \cup {NoInteraction}]
        /\ interactions'[t] \in Interactions
        /\ \A u \in Threads : u # t => interactions'[u] = interactions[u]
    BY <1>6, <2>2, RowTypes DEF CarryOver, TypeOK
  <2>5. ASSUME \/ Await(e, routed)
               \/ task' = [task EXCEPT ![e] = routed] /\ running' = e /\ outcome' = outcome
        PROVE  TypeOK' /\ \A f \in Events : f # e => task'[f] = task[f] /\ outcome'[f] = outcome[f]
    <3>1. TypeOK'
      BY <2>1, <2>3, <2>4, <2>5, MoveTypes DEF TypeOK
    <3>2. \A f \in Events : f # e => task'[f] = task[f] /\ outcome'[f] = outcome[f]
      BY <2>3, <2>5, MoveTypes DEF Moves
    <3> QED
      BY <3>1, <3>2
  <2>6. ASSUME Finish(e, "lost")
        PROVE  TypeOK' /\ \A f \in Events : f # e => task'[f] = task[f] /\ outcome'[f] = outcome[f]
    <3>1. "lost" \in Outcomes
      BY DEF Outcomes
    <3>2. TypeOK'
      BY <2>1, <2>3, <2>4, <2>6, <3>1, FinishTypes DEF TypeOK
    <3>3. \A f \in Events : f # e => task'[f] = task[f] /\ outcome'[f] = outcome[f]
      BY <2>6, <3>1, FinishTypes
    <3> QED
      BY <3>2, <3>3
  <2>7. TypeOK' /\ \A f \in Events : f # e => task'[f] = task[f] /\ outcome'[f] = outcome[f]
    BY <1>6, <2>5, <2>6 DEF CarryOver, routed
  <2>8. Exists(Thread(e))' /\ \A u \in Threads : Exists(u) => Exists(u)'
    BY <2>1, <2>4, RowTypes DEF Exists, Thread
  <2>9. \A i \in 1 .. Len(queue') : queue'[i] \in seen
    BY <2>1 DEF Started
  <2> QED
    BY <2>1, <2>2, <2>7, <2>8, <2>9, TaskKeepsStarted
<1>7. ASSUME NEW e \in Events, Route(e)
      PROVE  StartedOK'
  <2> DEFINE t == Thread(e)
  <2>1. At(e, "route") /\ UNCHANGED <<now, suspends, content, seen, queue, known, interactions, received>>
    BY <1>7 DEF Route, ingress
  <2>2. /\ e \in seen /\ content[e] \in Contents /\ t \in Threads
        /\ interactions[t] \in Interactions /\ task[e] \in Tasks
    BY <2>1, AtFacts
  <2>3. Exists(t) /\ interactions[t].summary \in Nat
    BY <2>2, InteractionAssumption DEF Exists, Interactions
  <2>4. /\ \/ \E next \in Tasks : Await(e, next)
           \/ \E next \in Tasks : task' = [task EXCEPT ![e] = next] /\ running' = e /\ outcome' = outcome
           \/ \E o \in Outcomes : Finish(e, o)
        /\ pending' \in [Users -> Contexts \cup {NoContext}]
        /\ confirmed' \in [Threads -> Seq(Nat)]
    <3>1. CASE HandleClosed(e) /\ confirmed' = confirmed
      BY <2>2, <2>3, <3>1, HandleClosedTypes DEF TypeOK, Outcomes
    <3>2. CASE PublishConfirmed(e, interactions[t].summary) /\ pending' = pending
      BY <2>2, <2>3, <3>2, PublishTypes DEF TypeOK
    <3>3. CASE /\ task' = [task EXCEPT ![e].at = "summarize"] /\ running' = e
               /\ UNCHANGED <<outcome, pending, confirmed>>
      <4>1. task' = [task EXCEPT ![e] = [task[e] EXCEPT !.at = "summarize"]]
        BY <3>3
      <4> QED
        BY <2>2, <3>3, <4>1, TaskTypes DEF TypeOK
    <3> QED
      BY <1>7, <3>1, <3>2, <3>3 DEF Route
  <2>5. /\ TypeOK'
        /\ \A f \in Events : f # e => task'[f] = task[f] /\ outcome'[f] = outcome[f]
    BY <2>1, <2>4, TaskOnly DEF TypeOK
  <2>6. Exists(Thread(e))' /\ \A u \in Threads : Exists(u) => Exists(u)'
    BY <2>1, <2>3 DEF Exists, Thread
  <2>7. \A i \in 1 .. Len(queue') : queue'[i] \in seen
    BY <2>1 DEF Started
  <2> QED
    BY <2>1, <2>2, <2>5, <2>6, <2>7, TaskKeepsStarted
<1>8. ASSUME NEW e \in Events, Summarize(e)
      PROVE  StartedOK'
  <2> DEFINE t == Thread(e)
  <2>1. /\ At(e, "summarize")
        /\ UNCHANGED <<now, suspends, content, seen, queue, known, pending, received, confirmed>>
    BY <1>8 DEF Summarize, ingress
  <2>2. /\ e \in seen /\ content[e] \in Contents /\ t \in Threads
        /\ interactions[t] \in Interactions /\ task[e] \in Tasks
    BY <2>1, AtFacts
  <2>3. interactions[t].summary + 1 \in Nat
    BY <2>2 DEF Interactions
  <2>4. \/ \E next \in Tasks : Await(e, next)
        \/ \E o \in Outcomes : Finish(e, o)
    BY <1>8, <2>2, <2>3, TaskTypes DEF Summarize, Tell, Outcomes
  <2>5. /\ interactions' \in [Threads -> Interactions \cup {NoInteraction}]
        /\ interactions'[t] \in Interactions
        /\ \A u \in Threads : u # t => interactions'[u] = interactions[u]
    BY <1>8, <2>2, RowTypes DEF Summarize, TypeOK
  <2>6. /\ TypeOK'
        /\ \A f \in Events : f # e => task'[f] = task[f] /\ outcome'[f] = outcome[f]
    BY <2>1, <2>4, <2>5, TaskOnly DEF TypeOK
  <2>7. Exists(Thread(e))' /\ \A u \in Threads : Exists(u) => Exists(u)'
    BY <2>1, <2>5, RowTypes DEF Exists, Thread
  <2>8. \A i \in 1 .. Len(queue') : queue'[i] \in seen
    BY <2>1 DEF Started
  <2> QED
    BY <2>1, <2>2, <2>6, <2>7, <2>8, TaskKeepsStarted
<1>9. ASSUME NEW e \in Events, ConfirmRead(e)
      PROVE  StartedOK'
  <2>1. /\ At(e, "confirm") /\ PublishConfirmed(e, task[e].summary)
        /\ UNCHANGED <<now, suspends, content, seen, queue, known, pending, interactions, received>>
    BY <1>9 DEF ConfirmRead, ingress
  <2>2. /\ e \in seen /\ content[e] \in Contents /\ Thread(e) \in Threads
        /\ interactions[Thread(e)] \in Interactions /\ task[e] \in Tasks
    BY <2>1, AtFacts
  <2>3. task[e].summary \in Nat
    BY <2>2 DEF Tasks
  <2>4. /\ \E next \in Tasks : Await(e, next)
        /\ confirmed' \in [Threads -> Seq(Nat)]
    BY <2>1, <2>2, <2>3, PublishTypes
  <2>5. /\ TypeOK'
        /\ \A f \in Events : f # e => task'[f] = task[f] /\ outcome'[f] = outcome[f]
    BY <2>1, <2>4, TaskOnly DEF TypeOK
  <2>6. Exists(Thread(e))' /\ \A u \in Threads : Exists(u) => Exists(u)'
    BY <2>1, <2>2, InteractionAssumption DEF Exists, Thread
  <2>7. \A i \in 1 .. Len(queue') : queue'[i] \in seen
    BY <2>1 DEF Started
  <2> QED
    BY <2>1, <2>2, <2>5, <2>6, <2>7, TaskKeepsStarted
<1>10. ASSUME NEW e \in Events, Complete(e)
       PROVE  StartedOK'
  <2> DEFINE t == Thread(e)
  <2>1. /\ At(e, "complete")
        /\ UNCHANGED <<now, suspends, content, seen, queue, known, pending, received, confirmed>>
    BY <1>10 DEF Complete, ingress
  <2>2. e \in seen /\ t \in Threads /\ interactions[t] \in Interactions
    BY <2>1, AtFacts
  <2>3. \E o \in Outcomes : Finish(e, o)
    BY <1>10 DEF Complete, Tell, Outcomes
  <2>4. /\ interactions' \in [Threads -> Interactions \cup {NoInteraction}]
        /\ interactions'[t] \in Interactions
        /\ \A u \in Threads : u # t => interactions'[u] = interactions[u]
    BY <1>10, <2>2, RowTypes DEF Complete, TypeOK
  <2>5. /\ TypeOK'
        /\ \A f \in Events : f # e => task'[f] = task[f] /\ outcome'[f] = outcome[f]
    BY <2>1, <2>3, <2>4, TaskOnly DEF TypeOK
  <2>6. Exists(Thread(e))' /\ \A u \in Threads : Exists(u) => Exists(u)'
    BY <2>1, <2>4, RowTypes DEF Exists, Thread
  <2>7. \A i \in 1 .. Len(queue') : queue'[i] \in seen
    BY <2>1 DEF Started
  <2> QED
    BY <2>1, <2>2, <2>5, <2>6, <2>7, TaskKeepsStarted
<1>11. ASSUME NEW e \in Events, Click(e)
       PROVE  StartedOK'
  <2> DEFINE t == Thread(e)
  <2>1. /\ Begin(e)
        /\ UNCHANGED <<now, suspends, content, seen, known, pending, interactions, received>>
    BY <1>11 DEF Click, ingress
  <2>2. /\ e \in seen /\ content[e] \in Contents /\ t \in Threads /\ queue' \in Seq(Events)
        /\ \A i \in 1 .. Len(queue') : queue'[i] \in seen
    BY <2>1, BeginFacts
  <2>3. task[e] \in Tasks /\ e \in Events
    BY DEF TypeOK
  <2>4. CASE ~Exists(t) /\ Finish(e, "ignored") /\ confirmed' = confirmed
    <3>1. "ignored" \in Outcomes
      BY DEF Outcomes
    <3>2. task'[e].at = "idle" /\ outcome'[e] = "ignored"
      BY <2>4, <3>1, FinishTypes DEF Idle
    <3>3. /\ TypeOK'
          /\ \A f \in Events : f # e => task'[f] = task[f] /\ outcome'[f] = outcome[f]
      BY <2>1, <2>2, <2>4, <3>1, TaskOnly DEF TypeOK
    <3>4. \A u \in Threads : Exists(u) => Exists(u)'
      BY <2>1 DEF Exists
    <3> QED
      BY <2>1, <2>2, <3>2, <3>3, <3>4, TaskKeepsStarted
  <2>5. ASSUME Exists(t),
               \/ Tell(e, "closed") /\ confirmed' = confirmed
               \/ PublishConfirmed(e, interactions[t].summary)
        PROVE  StartedOK'
    <3>1. interactions[t].summary \in Nat
      BY <2>2, <2>5 DEF TypeOK, Exists, Interactions
    <3>2. /\ \/ \E next \in Tasks : Await(e, next)
             \/ \E o \in Outcomes : Finish(e, o)
          /\ confirmed' \in [Threads -> Seq(Nat)]
      BY <2>2, <2>3, <2>5, <3>1, PublishTypes DEF TypeOK, Tell, Outcomes
    <3>3. /\ TypeOK'
          /\ \A f \in Events : f # e => task'[f] = task[f] /\ outcome'[f] = outcome[f]
      BY <2>1, <2>2, <3>2, TaskOnly DEF TypeOK
    <3>4. Exists(Thread(e))' /\ \A u \in Threads : Exists(u) => Exists(u)'
      BY <2>1, <2>5 DEF Exists, Thread
    <3> QED
      BY <2>1, <2>2, <3>3, <3>4, TaskKeepsStarted
  <2> QED
    BY <1>11, <2>4, <2>5 DEF Click, Closed, Active
<1>12. CASE UNCHANGED vars
  BY <1>12 DEF vars, ingress, TypeOK, Started, Exists, Thread
<1> QED
  BY <1>1, <1>2, <1>3, <1>4, <1>5, <1>6, <1>7, <1>8, <1>9, <1>10, <1>11, <1>12 DEF Next, TaskStep

\* Nothing has started at first.
LEMMA InitStarted == Init => StartedOK
<1> SUFFICES ASSUME Init PROVE StartedOK
  OBVIOUS
<1>1. TypeOK
  <2>1. /\ now \in 0 .. MaxTime /\ content \in [Events -> Contents \cup {Unsent}]
        /\ suspends \in Transports /\ seen \subseteq Events
        /\ running \in Events \cup {Nobody} /\ known \subseteq Threads
    BY ConversationAssumption DEF Init
  <2>2. /\ task \in [Events -> Tasks] /\ outcome \in [Events -> Outcomes]
        /\ pending \in [Users -> Contexts \cup {NoContext}]
        /\ interactions \in [Threads -> Interactions \cup {NoInteraction}]
        /\ received \in [Events -> Nat]
    BY TaskTypes DEF Init, Outcomes
  <2>3. queue \in Seq(Events) /\ confirmed \in [Threads -> Seq(Nat)]
    BY EmptySeq DEF Init
  <2> QED
    BY <2>1, <2>2, <2>3 DEF TypeOK
<1>2. Started
  BY EmptySeq DEF Init, Started, Idle
<1> QED
  BY <1>1, <1>2 DEF StartedOK

\* The types hold, and every task's event and interaction are known, in every
\* reachable state.
LEMMA AlwaysStarted == Spec => []StartedOK
BY InitStarted, StartedStep, PTL DEF Spec

\* The types hold in every reachable state.
THEOREM TypeCorrect == Spec => []TypeOK
BY AlwaysStarted, PTL DEF StartedOK

-----------------------------------------------------------------------------
(* Closed interactions                                                      *)

\* All that ever happens to a row: a thread gets one, a message is noted on it,
\* and, while it is ACTIVE, its summary is rewritten or it is completed.
RowStep(t) ==
  \/ interactions'[t] = interactions[t]
  \/ ~Exists(t) /\ interactions'[t] = Opened(now)
  \/ Exists(t) /\ interactions'[t] = Messaged(interactions[t], now)
  \/ Active(t) /\ interactions'[t] = Rewritten(interactions[t])
  \/ Active(t) /\ interactions'[t] = Completed(interactions[t])

\* Every step does one of these to each row.
LEMMA RowSteps ==
  ASSUME StartedOK, [Next]_vars
  PROVE  /\ \A t \in Threads : RowStep(t)
         /\ now \in Nat /\ now' \in Nat /\ now <= now'
<1>1. now \in Nat
  BY ConversationAssumption DEF StartedOK, TypeOK
<1>2. now' = now \/ now' = now + 1
  BY DEF Next, Tick, Ask, Deliver, TaskStep, Receive, Record, CarryOver, Route, Summarize,
         ConfirmRead, Complete, Click, vars
<1>3. ASSUME NEW t \in Threads, Ask(t)
      PROVE  \A u \in Threads : RowStep(u)
  BY <1>3 DEF Ask, RowStep, StartedOK, TypeOK
<1>4. ASSUME NEW e \in Events, Receive(e)
      PROVE  \A t \in Threads : RowStep(t)
  <2>1. Thread(e) \in Threads
    BY <1>4, BeginFacts DEF Receive
  <2> QED
    BY <1>4, <2>1 DEF Receive, RowStep, StartedOK, TypeOK
<1>5. ASSUME NEW e \in Events, Record(e)
      PROVE  \A t \in Threads : RowStep(t)
  <2>1. Thread(e) \in Threads /\ Exists(Thread(e))
    BY <1>5, AtFacts, RowTypes DEF Record, Exists
  <2> QED
    BY <1>5, <2>1 DEF Record, RowStep, StartedOK, TypeOK
<1>6. ASSUME NEW e \in Events, CarryOver(e) \/ Summarize(e) \/ Complete(e)
      PROVE  \A t \in Threads : RowStep(t)
  <2>1. Thread(e) \in Threads
    BY <1>6, AtFacts DEF CarryOver, Summarize, Complete
  <2>2. \/ interactions' = interactions
        \/ Active(Thread(e)) /\ interactions' = [interactions EXCEPT ![Thread(e)] = Rewritten(@)]
        \/ Active(Thread(e)) /\ interactions' = [interactions EXCEPT ![Thread(e)] = Completed(@)]
    BY <1>6 DEF CarryOver, Summarize, Complete
  <2> QED
    BY <2>1, <2>2 DEF RowStep, StartedOK, TypeOK
<1>7. ASSUME interactions' = interactions
      PROVE  \A t \in Threads : RowStep(t)
  BY <1>7 DEF RowStep
<1>8. \A t \in Threads : RowStep(t)
  BY <1>3, <1>4, <1>5, <1>6, <1>7
     DEF Next, Tick, Deliver, TaskStep, Route, ConfirmRead, Click, vars
<1> QED
  BY <1>1, <1>2, <1>8

\* A closed row keeps all but its last message, and stays closed.
LEMMA ClosedStep ==
  ASSUME StartedOK, [Next]_vars, NEW t \in Threads, Closed(t)
  PROVE  /\ KeepsAllButLastMessage(t)
         /\ Closed(t)'
         /\ interactions'[t].summary = interactions[t].summary
<1>1. /\ RowStep(t) /\ now \in Nat /\ now' \in Nat /\ now <= now'
      /\ StartedOK'
  BY RowSteps, StartedStep
<1>2. interactions[t] \in Interactions /\ ~Active(t) /\ Exists(t)
  BY Statuses DEF StartedOK, TypeOK, Closed, Exists
<1>3. interactions'[t] = interactions[t] \/ interactions'[t] = Messaged(interactions[t], now)
  BY <1>1, <1>2 DEF RowStep
<1>4. /\ interactions'[t] \in Interactions
      /\ interactions'[t].summary = interactions[t].summary
      /\ interactions'[t].expires_at = interactions[t].expires_at
      /\ interactions'[t].completed = interactions[t].completed
      /\ KeepsAllButLastMessage(t)
  <2>1. CASE interactions'[t] = interactions[t]
    <3>1. interactions[t] = [interactions[t] EXCEPT !.last_message = interactions[t].last_message]
      BY <1>2 DEF Interactions
    <3> QED
      BY <1>2, <2>1, <3>1 DEF KeepsAllButLastMessage
  <2>2. CASE interactions'[t] = Messaged(interactions[t], now)
    <3>1. KeepsAllButLastMessage(t)
      BY <2>2 DEF Messaged, KeepsAllButLastMessage
    <3> QED
      BY <1>1, <1>2, <2>2, <3>1 DEF Messaged, Interactions
  <2> QED
    BY <1>3, <2>1, <2>2
<1>5. interactions[t].completed \/ now > interactions[t].expires_at
  BY DEF Closed, derive_status, ClosedStatuses
<1>6. interactions'[t].completed \/ now' > interactions'[t].expires_at
  BY <1>1, <1>2, <1>4, <1>5 DEF Interactions
<1>7. interactions'[t] # NoInteraction
  BY <1>4, InteractionAssumption
<1>8. Closed(t)'
  BY <1>6, <1>7 DEF Closed, Exists, derive_status, ClosedStatuses
<1> QED
  BY <1>4, <1>8

\* No interaction is reopened, rewritten or given another deadline once it is
\* COMPLETED or EXPIRED, whichever tasks are under way.
THEOREM ClosedInteractionsAreFinal == Spec => ClosedIsFinal
<1>1. StartedOK /\ [Next]_vars => [\A t \in Threads : Closed(t) => KeepsAllButLastMessage(t)]_vars
  BY ClosedStep
<1> QED
  BY <1>1, AlwaysStarted, PTL DEF Spec, ClosedIsFinal

-----------------------------------------------------------------------------
(* What became of the deliveries, and what is kept of a closed thread       *)

\* The delivery completes its interaction.
Completes(e) ==
  /\ interactions[Thread(e)] \in Interactions
  /\ interactions'[Thread(e)] = Completed(interactions[Thread(e)])

\* A delivery that ends as lost or closed finds its interaction closed; one that
\* ends as confirmed completes it; one that ends unsent does either, or is a
\* correction.
EndsTruly(e) ==
  /\ outcome'[e] \in {"lost", "closed"} => Closed(Thread(e))
  /\ outcome'[e] = "confirmed" => Completes(e)
  /\ outcome'[e] = "unsent" => content[e].kind = "reply" \/ Closed(Thread(e)) \/ Completes(e)

\* What is kept for a user is, or was, the summary of a closed interaction.
KeptTruly(u) ==
  \/ pending'[u] \in {pending[u], NoContext}
  \/ \E t \in Threads : Closed(t) /\ pending'[u] = [thread |-> t, summary |-> interactions[t].summary]

\* An event that is known keeps its content.
LEMMA ContentSteps ==
  ASSUME StartedOK, [Next]_vars, NEW e \in seen
  PROVE  content'[e] = content[e] /\ Thread(e)' = Thread(e) /\ e \in Events
<1>1. e \in Events
  BY DEF StartedOK, TypeOK
<1>2. content'[e] = content[e]
  BY <1>1 DEF StartedOK, TypeOK, Next, Tick, Ask, Deliver, TaskStep, Receive, Record, CarryOver, Route,
         Summarize, ConfirmRead, Complete, Click, vars, ingress
<1> QED
  BY <1>1, <1>2 DEF Thread

\* It is a correction that the model is run for.
Correcting == \A e \in Events : task[e].at = "summarize" => content[e].kind = "reply"

\* A task comes to that step by routing a correction.
LEMMA CorrectingStep == StartedOK /\ Correcting /\ [Next]_vars => Correcting'
<1> SUFFICES ASSUME StartedOK, Correcting, [Next]_vars, NEW e \in Events, task'[e].at = "summarize"
             PROVE  content'[e].kind = "reply"
  BY DEF Correcting
<1>1. ASSUME task[e].at = "summarize"
      PROVE  content'[e].kind = "reply"
  <2>1. e \in seen /\ content[e].kind = "reply"
    BY <1>1 DEF StartedOK, Started, Correcting
  <2> QED
    BY <2>1, ContentSteps
<1>2. ASSUME task'[e] # task[e], NEW f \in Events, TaskStep(f)
      PROVE  content'[e].kind = "reply"
  <2>1. /\ content' = content /\ task \in [Events -> Tasks]
    BY <1>2 DEF TaskStep, Receive, Record, CarryOver, Route, Summarize, ConfirmRead, Complete, Click,
         StartedOK, TypeOK, Tasks, ingress
  <2>2. ASSUME NEW next, task' = [task EXCEPT ![f] = next]
        PROVE  e = f /\ next.at = "summarize"
    BY <1>2, <2>1, <2>2
  <2>3. ASSUME NEW o, Finish(f, o)
        PROVE  FALSE
    <3>1. task' = [task EXCEPT ![f] = Idle]
      BY <2>3 DEF Finish
    <3>2. Idle.at = "summarize"
      BY <2>2, <3>1
    <3> QED
      BY <3>2 DEF Idle
  <2>4. ASSUME Receive(f)
        PROVE  FALSE
    <3> DEFINE at == [at |-> "record", fresh |-> Thread(f) \notin known, summary |-> 0]
    <3>1. at.at # "summarize"
      OBVIOUS
    <3>2. \/ task' = [task EXCEPT ![f] = at]
          \/ \E o \in {"closed", "unsent"} : Finish(f, o)
      BY <2>4 DEF Receive, HandleClosed, Tell, Await
    <3> HIDE DEF at
    <3> QED
      BY <2>2, <2>3, <3>1, <3>2
  <2>5. ASSUME Record(f)
        PROVE  FALSE
    BY <2>1, <2>2, <2>5 DEF Record, Await, Tasks
  <2>6. ASSUME CarryOver(f)
        PROVE  FALSE
    BY <2>1, <2>2, <2>3, <2>6 DEF CarryOver, Await, Tasks
  <2>7. ASSUME Summarize(f)
        PROVE  FALSE
    BY <2>1, <2>2, <2>3, <2>7 DEF Summarize, Tell, Await, Tasks
  <2>8. ASSUME ConfirmRead(f) \/ Click(f)
        PROVE  FALSE
    BY <2>1, <2>2, <2>3, <2>8 DEF ConfirmRead, Click, PublishConfirmed, Tell, Await, Tasks
  <2>9. ASSUME Complete(f)
        PROVE  FALSE
    BY <2>3, <2>9 DEF Complete, Tell
  <2>10. ASSUME Route(f)
         PROVE  e = f /\ content[f].kind = "reply"
    <3>1. CASE HandleClosed(f)
      BY <2>3, <3>1 DEF HandleClosed, Tell
    <3>2. CASE PublishConfirmed(f, interactions[Thread(f)].summary)
      BY <2>1, <2>2, <3>2 DEF PublishConfirmed, Await, Tasks
    <3>3. CASE content[f].kind = "reply" /\ task' = [task EXCEPT ![f].at = "summarize"]
      BY <1>2, <2>1, <3>3
    <3> QED
      BY <2>10, <3>1, <3>2, <3>3 DEF Route
  <2> QED
    BY <1>2, <2>1, <2>4, <2>5, <2>6, <2>7, <2>8, <2>9, <2>10 DEF TaskStep
<1>3. task'[e] # task[e] => \E f \in Events : TaskStep(f)
  BY DEF Next, Tick, Ask, Deliver, vars
<1> QED
  BY <1>1, <1>2, <1>3

\* The model is run for corrections only.
LEMMA AlwaysCorrecting == Spec => []Correcting
<1>1. Init => Correcting
  BY DEF Init, Correcting, Idle
<1> QED
  BY <1>1, CorrectingStep, AlwaysStarted, PTL DEF Spec

\* A step ends a task truly, and keeps of a closed interaction what it came to.
LEMMA EndSteps ==
  ASSUME StartedOK, Correcting, [Next]_vars
  PROVE  /\ \A e \in Events : outcome'[e] = outcome[e] \/ (e \in seen /\ EndsTruly(e))
         /\ \A u \in Users : KeptTruly(u)
<1> DEFINE Goal == /\ \A e \in Events : outcome'[e] = outcome[e] \/ (e \in seen /\ EndsTruly(e))
                   /\ \A u \in Users : KeptTruly(u)
<1>1. ASSUME outcome' = outcome, pending' = pending
      PROVE  Goal
  BY <1>1 DEF KeptTruly
<1>2. ASSUME NEW e \in seen, e \in Events, NEW o \in Outcomes, Finish(e, o), EndsTruly(e),
             \A u \in Users : KeptTruly(u)
      PROVE  Goal
  BY <1>2, FinishTypes
<1>3. ASSUME NEW e \in seen, e \in Events, content[e] \in Contents, Closed(Thread(e)), HandleClosed(e)
      PROVE  Goal
  <2>1. PICK o \in {"closed", "unsent"} : Finish(e, o)
    BY <1>3, HandleClosedTypes DEF Closed
  <2>2. o \in Outcomes /\ EndsTruly(e)
    BY <1>3, <2>1, FinishTypes DEF EndsTruly, Outcomes
  <2>3. \A u \in Users : KeptTruly(u)
    <3>1. Thread(e) \in Threads
      BY <1>3 DEF Thread, Contents
    <3>2. /\ pending'[User(e)] = [thread |-> Thread(e), summary |-> interactions[Thread(e)].summary]
          /\ \A u \in Users : u # User(e) => pending'[u] = pending[u]
      BY <1>3, HandleClosedTypes DEF Closed
    <3> QED
      BY <1>3, <3>1, <3>2 DEF KeptTruly
  <2> HIDE DEF Goal
  <2> QED
    BY <1>2, <1>3, <2>1, <2>2, <2>3
<1>4. ASSUME NEW e \in Events, Receive(e)
      PROVE  Goal
  <2>1. e \in seen /\ content[e] \in Contents
    BY <1>4, BeginFacts DEF Receive
  <2> HIDE DEF Goal
  <2> QED
    BY <1>1, <1>3, <1>4, <2>1 DEF Receive, Await
<1>5. ASSUME NEW e \in Events, Route(e)
      PROVE  Goal
  <2>1. e \in seen /\ content[e] \in Contents
    BY <1>5, AtFacts DEF Route
  <2> HIDE DEF Goal
  <2> QED
    BY <1>1, <1>3, <1>5, <2>1 DEF Route, PublishConfirmed, Await
<1>6. ASSUME NEW e \in Events, CarryOver(e)
      PROVE  Goal
  <2>1. /\ e \in seen /\ Thread(e) \in Threads /\ User(e) \in Users /\ Exists(Thread(e))
    BY <1>6, AtFacts, RowTypes DEF CarryOver, Exists
  <2>2. \A u \in Users : KeptTruly(u)
    BY <1>6, <2>1 DEF CarryOver, KeptTruly, StartedOK, TypeOK
  <2>3. CASE outcome' = outcome
    BY <2>2, <2>3
  <2>4. CASE Finish(e, "lost") /\ ~Active(Thread(e))
    <3>1. "lost" \in Outcomes /\ outcome'[e] = "lost"
      BY <2>4, FinishTypes DEF Outcomes
    <3>2. EndsTruly(e)
      BY <2>1, <2>4, <3>1, Statuses DEF EndsTruly
    <3> HIDE DEF Goal
    <3> QED
      BY <1>2, <2>1, <2>2, <2>4, <3>1, <3>2
  <2> QED
    BY <1>6, <2>3, <2>4 DEF CarryOver, Await
<1>7. ASSUME NEW e \in Events, Summarize(e) \/ Complete(e)
      PROVE  Goal
  <2>1. /\ e \in seen /\ Thread(e) \in Threads /\ Exists(Thread(e))
        /\ interactions[Thread(e)] \in Interactions /\ pending' = pending
    BY <1>7, AtFacts, RowTypes DEF Summarize, Complete, Exists
  <2>2. \A u \in Users : KeptTruly(u)
    BY <2>1 DEF KeptTruly
  <2>3. ASSUME NEW o \in {"apology", "summary", "unsent"}, Finish(e, o), Summarize(e)
        PROVE  Goal
    <3>1. o \in Outcomes /\ outcome'[e] = o
      BY <2>3, FinishTypes DEF Outcomes
    <3>2. EndsTruly(e)
      BY <2>3, <3>1 DEF EndsTruly, Correcting, Summarize, At
    <3> HIDE DEF Goal
    <3> QED
      BY <1>2, <2>1, <2>2, <2>3, <3>1, <3>2
  <2>4. ASSUME Finish(e, "lost"), ~Active(Thread(e))
        PROVE  Goal
    <3>1. "lost" \in Outcomes /\ outcome'[e] = "lost"
      BY <2>4, FinishTypes DEF Outcomes
    <3>2. EndsTruly(e)
      BY <2>1, <2>4, <3>1, Statuses DEF EndsTruly
    <3> HIDE DEF Goal
    <3> QED
      BY <1>2, <2>1, <2>2, <2>4, <3>1, <3>2
  <2>5. ASSUME NEW o \in {"confirmed", "unsent"}, Finish(e, o),
               interactions' = [interactions EXCEPT ![Thread(e)] = Completed(@)]
        PROVE  Goal
    <3>1. o \in Outcomes /\ outcome'[e] = o
      BY <2>5, FinishTypes DEF Outcomes
    <3>2. Completes(e)
      BY <2>1, <2>5 DEF Completes, StartedOK, TypeOK
    <3>3. EndsTruly(e)
      BY <2>5, <3>1, <3>2 DEF EndsTruly
    <3> HIDE DEF Goal
    <3> QED
      BY <1>2, <2>1, <2>2, <2>5, <3>1, <3>3
  <2> HIDE DEF Goal
  <2> QED
    BY <1>1, <1>7, <2>1, <2>3, <2>4, <2>5 DEF Summarize, Complete, Await, Tell
<1>8. ASSUME NEW e \in Events, Click(e)
      PROVE  Goal
  <2>1. e \in seen /\ pending' = pending
    BY <1>8, BeginFacts DEF Click
  <2>2. ASSUME NEW o \in {"ignored", "closed", "unsent"}, Finish(e, o), o # "ignored" => Closed(Thread(e))
        PROVE  Goal
    <3>1. o \in Outcomes /\ outcome'[e] = o
      BY <2>2, FinishTypes DEF Outcomes
    <3>2. EndsTruly(e) /\ \A u \in Users : KeptTruly(u)
      BY <2>1, <2>2, <3>1 DEF EndsTruly, KeptTruly
    <3> HIDE DEF Goal
    <3> QED
      BY <1>2, <2>1, <2>2, <3>1, <3>2
  <2> HIDE DEF Goal
  <2> QED
    BY <1>1, <1>8, <2>1, <2>2 DEF Click, PublishConfirmed, Await, Tell
<1> HIDE DEF Goal
<1>9. Goal
  BY <1>1, <1>4, <1>5, <1>6, <1>7, <1>8
     DEF Next, Tick, Ask, Deliver, TaskStep, Record, ConfirmRead, PublishConfirmed, Await, vars
<1> QED
  BY <1>9 DEF Goal

\* A completed row is closed, and stays completed.
LEMMA CompletedStep ==
  ASSUME StartedOK, [Next]_vars, NEW t \in Threads, Exists(t), interactions[t].completed
  PROVE  Closed(t) /\ Exists(t)' /\ interactions'[t].completed
<1>1. Closed(t)
  BY DEF Closed, derive_status, ClosedStatuses
<1>2. KeepsAllButLastMessage(t) /\ Closed(t)' /\ interactions[t] \in Interactions
  BY <1>1, ClosedStep DEF StartedOK, TypeOK, Exists
<1> QED
  BY <1>1, <1>2 DEF KeepsAllButLastMessage, Interactions, Closed

\* A delivery comes to nothing only if its interaction closed while it was
\* handled; one that ended as confirmed has completed its interaction; one whose
\* end could not be told to its user is a correction, or has completed the
\* interaction or found it closed.
THEOREM OutcomesAreTrue == Spec => []OutcomeIsTrue
<1>1. Init => OutcomeIsTrue
  BY DEF Init, OutcomeIsTrue
<1>2. StartedOK /\ Correcting /\ OutcomeIsTrue /\ [Next]_vars => OutcomeIsTrue'
  <2> SUFFICES ASSUME StartedOK, Correcting, OutcomeIsTrue, [Next]_vars, NEW e \in Events,
                      outcome'[e] # "none"
               PROVE  /\ outcome'[e] \in {"lost", "closed"} => Closed(Thread(e))'
                      /\ outcome'[e] = "unsent" => content'[e].kind = "reply" \/ Closed(Thread(e))'
                      /\ outcome'[e] = "confirmed" => interactions'[Thread(e)'].completed
    BY DEF OutcomeIsTrue
  <2>1. outcome'[e] = outcome[e] \/ (e \in seen /\ EndsTruly(e))
    BY EndSteps
  <2>2. /\ e \in seen /\ Thread(e)' = Thread(e) /\ Thread(e) \in Threads /\ content'[e] = content[e]
        /\ outcome'[e] = outcome[e] => Exists(Thread(e)) \/ outcome[e] = "ignored"
    <3>1. e \in seen /\ (outcome'[e] = outcome[e] => Exists(Thread(e)) \/ outcome[e] = "ignored")
      BY <2>1 DEF StartedOK, Started
    <3>2. content[e] \in Contents
      BY <3>1 DEF StartedOK, Started
    <3> QED
      BY <3>1, <3>2, ContentSteps DEF Thread, Contents
  <2>3. Closed(Thread(e)) => Closed(Thread(e))'
    <3>1. \A t \in Threads : Closed(t) => Closed(t)'
      BY ClosedStep
    <3> QED
      BY <2>2, <3>1 DEF Closed, Exists
  <2>4. Completes(e) => interactions'[Thread(e)].completed /\ Closed(Thread(e))'
    <3>1. ASSUME Completes(e)
          PROVE  interactions'[Thread(e)].completed /\ Exists(Thread(e))'
      <4>1. interactions'[Thread(e)] \in Interactions
        BY <3>1, RowTypes DEF Completes
      <4>2. interactions'[Thread(e)].completed
        BY <3>1 DEF Completes, Completed, Interactions
      <4> QED
        BY <2>2, <4>1, <4>2, RowTypes DEF Exists
    <3> QED
      BY <2>2, <3>1 DEF Closed, Exists, derive_status, ClosedStatuses
  <2>5. outcome'[e] \in {"lost", "closed"} => Closed(Thread(e))'
    BY <2>1, <2>3 DEF OutcomeIsTrue, EndsTruly
  <2>6. outcome'[e] = "unsent" => content'[e].kind = "reply" \/ Closed(Thread(e))'
    BY <2>1, <2>2, <2>3, <2>4 DEF OutcomeIsTrue, EndsTruly
  <2>7. ASSUME outcome'[e] = "confirmed"
        PROVE  interactions'[Thread(e)].completed
    <3>1. CASE outcome'[e] = outcome[e]
      BY <2>2, <2>7, <3>1, CompletedStep DEF OutcomeIsTrue
    <3>2. CASE EndsTruly(e)
      BY <2>4, <2>7, <3>2 DEF EndsTruly
    <3> QED
      BY <2>1, <3>1, <3>2
  <2> QED
    BY <2>2, <2>5, <2>6, <2>7
<1> QED
  BY <1>1, <1>2, AlwaysStarted, AlwaysCorrecting, PTL DEF Spec

\* What is kept for a user's next thread is the summary with which an
\* interaction closed, and no later one.
THEOREM KeptContextIsFinal == Spec => []ContextIsFinal
<1>1. Init => ContextIsFinal
  BY DEF Init, ContextIsFinal
<1>2. StartedOK /\ Correcting /\ ContextIsFinal /\ [Next]_vars => ContextIsFinal'
  <2> SUFFICES ASSUME StartedOK, Correcting, ContextIsFinal, [Next]_vars, NEW u \in Users,
                      pending'[u] # NoContext
               PROVE  /\ Closed(pending[u].thread)'
                      /\ interactions'[pending'[u].thread].summary = pending'[u].summary
    BY DEF ContextIsFinal
  <2>1. PICK t \in Threads : /\ Closed(t) /\ pending'[u].thread = t
                             /\ pending'[u].summary = interactions[t].summary
    <3>1. CASE pending'[u] = pending[u]
      <4>1. pending[u] \in Contexts
        BY <3>1 DEF StartedOK, TypeOK
      <4> QED
        BY <3>1, <4>1 DEF ContextIsFinal, Contexts
    <3>2. CASE \E t \in Threads :
                 Closed(t) /\ pending'[u] = [thread |-> t, summary |-> interactions[t].summary]
      BY <3>2
    <3> QED
      BY <3>1, <3>2, EndSteps DEF KeptTruly
  <2>2. Closed(t)' /\ interactions'[t].summary = interactions[t].summary
    BY <2>1, ClosedStep
  <2> QED
    BY <2>1, <2>2 DEF Closed, Exists
<1> QED
  BY <1>1, <1>2, AlwaysStarted, AlwaysCorrecting, PTL DEF Spec

-----------------------------------------------------------------------------
(* What is published as confirmed                                           *)

\* Over any transport: a task about to complete an interaction has published.
Published ==
  /\ \A e \in Events : task[e].at = "complete" => confirmed[Thread(e)] # <<>>
  /\ \A t \in Threads : Exists(t) /\ interactions[t].completed => confirmed[t] # <<>>

\* If publishing does not suspend, one task at a time is between its first step
\* and its last, so its thread's row is as it last saw it; a thread has no
\* confirmed summary until a task, which then completes or loses the interaction,
\* publishes the one the row has.
Alone ==
  /\ \A e \in Events :
       /\ task[e].at # "idle" => running = e
       /\ task[e].at \in {"confirm", "complete"} => interactions[Thread(e)].summary = task[e].summary
       /\ task[e].at = "confirm" => confirmed[Thread(e)] = <<>>
       /\ task[e].at = "complete" => confirmed[Thread(e)] = <<task[e].summary>>
  /\ \A t \in Threads :
       /\ confirmed[t] # <<>> => Closed(t) \/ \E e \in Events : task[e].at = "complete" /\ Thread(e) = t
       /\ confirmed[t] # <<>> => Len(confirmed[t]) = 1
       /\ Exists(t) /\ interactions[t].completed => confirmed[t] = <<interactions[t].summary>>

\* No event is nobody's.
LEMMA NobodysEvent == \A f \in Events : f # Nobody
BY ConversationAssumption DEF Events, Nobody

\* A task's step is seen by its own thread only: what it must keep is about it.
LEMMA OnlyTask ==
  ASSUME StartedOK, Alone, NEW e \in seen, running \in {e, Nobody},
         content' = content, now' = now,
         \A f \in Events : f # e => task'[f] = task[f],
         \A t \in Threads : t # Thread(e) =>
           confirmed'[t] = confirmed[t] /\ interactions'[t] = interactions[t],
         task'[e].at # "idle" => running' = e,
         task'[e].at \in {"confirm", "complete"} =>
           interactions'[Thread(e)].summary = task'[e].summary,
         task'[e].at = "confirm" => confirmed'[Thread(e)] = <<>>,
         task'[e].at = "complete" => confirmed'[Thread(e)] = <<task'[e].summary>>,
         confirmed'[Thread(e)] # <<>> => Closed(Thread(e))' \/ task'[e].at = "complete",
         confirmed'[Thread(e)] # <<>> => Len(confirmed'[Thread(e)]) = 1,
         Exists(Thread(e))' /\ interactions'[Thread(e)].completed =>
           confirmed'[Thread(e)] = <<interactions'[Thread(e)].summary>>
  PROVE  Alone'
<1>1. e \in Events /\ \A f \in Events : f # Nobody
  BY NobodysEvent DEF StartedOK, TypeOK
<1>2. \A f \in Events : f # e => task[f].at = "idle"
  BY <1>1 DEF Alone
<1>3. \A f \in seen : Thread(f)' = Thread(f)
  BY DEF Thread
<1>4. \A f \in Events : f # e => task'[f].at = "idle"
  BY <1>2
<1>5. \A f \in Events :
        /\ task'[f].at # "idle" => running' = f
        /\ task'[f].at \in {"confirm", "complete"} =>
             interactions'[Thread(f)'].summary = task'[f].summary
        /\ task'[f].at = "confirm" => confirmed'[Thread(f)'] = <<>>
        /\ task'[f].at = "complete" => confirmed'[Thread(f)'] = <<task'[f].summary>>
  BY <1>1, <1>3, <1>4
<1>6. ASSUME NEW t \in Threads, t # Thread(e)
      PROVE  /\ confirmed'[t] # <<>> => Closed(t)'
             /\ confirmed'[t] # <<>> => Len(confirmed'[t]) = 1
             /\ Exists(t)' /\ interactions'[t].completed => confirmed'[t] = <<interactions'[t].summary>>
  <2>1. confirmed[t] # <<>> => Closed(t)
    BY <1>2, <1>6 DEF Alone
  <2>2. Closed(t) => Closed(t)'
    BY <1>6 DEF Closed, Exists
  <2> QED
    BY <1>6, <2>1, <2>2 DEF Alone, Exists
<1>7. Thread(e)' = Thread(e)
  BY <1>3
<1>8. ASSUME NEW t \in Threads, t = Thread(e)
      PROVE  /\ confirmed'[t] # <<>> =>
                  Closed(t)' \/ \E f \in Events : task'[f].at = "complete" /\ Thread(f)' = t
             /\ confirmed'[t] # <<>> => Len(confirmed'[t]) = 1
             /\ Exists(t)' /\ interactions'[t].completed => confirmed'[t] = <<interactions'[t].summary>>
  <2>1. confirmed'[t] # <<>> => Closed(t)' \/ task'[e].at = "complete"
    BY <1>7, <1>8 DEF Closed, Exists
  <2>2. /\ confirmed'[t] # <<>> => Len(confirmed'[t]) = 1
        /\ Exists(t)' /\ interactions'[t].completed => confirmed'[t] = <<interactions'[t].summary>>
    BY <1>7, <1>8 DEF Exists
  <2> QED
    BY <1>1, <1>7, <1>8, <2>1, <2>2
<1>9. \A t \in Threads :
        /\ confirmed'[t] # <<>> => Closed(t)' \/ \E f \in Events : task'[f].at = "complete" /\ Thread(f)' = t
        /\ confirmed'[t] # <<>> => Len(confirmed'[t]) = 1
        /\ Exists(t)' /\ interactions'[t].completed => confirmed'[t] = <<interactions'[t].summary>>
  BY <1>6, <1>8
<1> QED
  BY <1>5, <1>9 DEF Alone

\* Between two steps of the only task under way, its thread's confirmed summary
\* is there only if the interaction is closed or the task is to complete it.
LEMMA AloneFacts ==
  ASSUME StartedOK, Alone, NEW e \in seen, running \in {e, Nobody}, Thread(e) \in Threads
  PROVE  /\ confirmed[Thread(e)] # <<>> => Closed(Thread(e)) \/ task[e].at = "complete"
         /\ confirmed[Thread(e)] # <<>> => Len(confirmed[Thread(e)]) = 1
         /\ Exists(Thread(e)) /\ interactions[Thread(e)].completed =>
              confirmed[Thread(e)] = <<interactions[Thread(e)].summary>>
<1>1. \A f \in Events : task[f].at = "complete" => f = e
  BY NobodysEvent DEF Alone
<1> QED
  BY <1>1 DEF Alone

\* Reading, rewriting and completing rows, as far as confirmations see it.
LEMMA RowEffects ==
  /\ \A i \in Interactions : /\ Rewritten(i).summary = i.summary + 1
                             /\ Rewritten(i).completed = i.completed
                             /\ Completed(i).summary = i.summary /\ Completed(i).completed
  /\ \A i \in Interactions, m \in Nat : /\ Messaged(i, m).summary = i.summary
                                        /\ Messaged(i, m).completed = i.completed
                                        /\ Messaged(i, m).expires_at = i.expires_at
  /\ \A m \in Nat : ~Opened(m).completed
BY DEF Interactions, Rewritten, Completed, Messaged, Opened

\* The first confirmed summary of a thread is its only one.
LEMMA FirstConfirmed ==
  ASSUME NEW v \in Nat
  PROVE  /\ Append(<<>>, v) = <<v>> /\ <<v>> # <<>> /\ Len(<<v>>) = 1 /\ <<v>>[1] = v
OBVIOUS

\* An open interaction has no confirmed summary, but for the task about to
\* complete it.
LEMMA OpenUnconfirmed ==
  ASSUME StartedOK, Alone, NEW e \in seen, running \in {e, Nobody}, Thread(e) \in Threads,
         task[e].at # "complete", Active(Thread(e)) \/ ~Exists(Thread(e))
  PROVE  /\ confirmed[Thread(e)] = <<>>
         /\ Exists(Thread(e)) => ~interactions[Thread(e)].completed
<1>1. ~Closed(Thread(e))
  BY Statuses DEF Closed
<1> QED
  BY <1>1, AloneFacts DEF Closed, derive_status, ClosedStatuses

\* A step of a task that publishes nothing and leaves its thread's row in the
\* state it found it in.
LEMMA QuietTask ==
  ASSUME StartedOK, Alone, NEW e \in seen, running \in {e, Nobody}, Thread(e) \in Threads,
         content' = content, now' = now, confirmed' = confirmed, interactions' = interactions,
         task[e].at # "complete" \/ Closed(Thread(e)),
         task'[e].at \notin {"confirm", "complete"},
         task'[e].at # "idle" => running' = e,
         \A f \in Events : f # e => task'[f] = task[f]
  PROVE  Alone'
<1>1. /\ confirmed[Thread(e)] # <<>> => Closed(Thread(e))
      /\ confirmed[Thread(e)] # <<>> => Len(confirmed[Thread(e)]) = 1
      /\ Exists(Thread(e)) /\ interactions[Thread(e)].completed =>
           confirmed[Thread(e)] = <<interactions[Thread(e)].summary>>
  BY AloneFacts
<1>2. Thread(e)' = Thread(e)
  BY DEF Thread
<1>3. Closed(Thread(e)) => Closed(Thread(e))'
  BY <1>2 DEF Closed, Exists
<1>4. Exists(Thread(e))' => Exists(Thread(e))
  BY <1>2 DEF Exists
<1> QED
  BY <1>1, <1>3, <1>4, OnlyTask

\* A step that publishes the row's summary on an open, unconfirmed interaction.
LEMMA PublishingTask ==
  ASSUME StartedOK, Alone, ~suspends, NEW e \in seen, running \in {e, Nobody},
         content[e] \in Contents, Exists(Thread(e)), confirmed[Thread(e)] = <<>>,
         content' = content, now' = now, interactions' = interactions,
         PublishConfirmed(e, interactions[Thread(e)].summary)
  PROVE  Alone'
<1> DEFINE v == interactions[Thread(e)].summary
<1> DEFINE next == [task[e] EXCEPT !.at = "complete", !.summary = v]
<1>1. e \in Events /\ Thread(e) \in Threads /\ task[e] \in Tasks
  BY DEF StartedOK, TypeOK, Contents, Thread
<1>2. interactions[Thread(e)] \in Interactions /\ v \in Nat
  BY <1>1 DEF StartedOK, TypeOK, Exists, Interactions
<1>3. /\ confirmed'[Thread(e)] = <<v>>
      /\ \A t \in Threads : t # Thread(e) => confirmed'[t] = confirmed[t]
      /\ next \in Tasks /\ Await(e, next)
  <2> HIDE DEF v
  <2>1. /\ confirmed'[Thread(e)] = Append(confirmed[Thread(e)], v)
        /\ \A t \in Threads : t # Thread(e) => confirmed'[t] = confirmed[t]
        /\ next \in Tasks /\ Await(e, next)
    BY <1>1, <1>2, PublishTypes DEF v
  <2> QED
    BY <1>2, <2>1, FirstConfirmed
<1>4. next.at = "complete" /\ next.summary = v
  BY <1>1 DEF Tasks
<1> HIDE DEF next, v
<1>5. /\ task'[e] = next /\ running' = e
      /\ \A f \in Events : f # e => task'[f] = task[f]
  BY <1>1, <1>3, MoveTypes DEF Moves
<1>6. Thread(e)' = Thread(e)
  BY DEF Thread
<1>7. interactions'[Thread(e)].summary = v
  BY DEF v
<1> QED
  BY <1>2, <1>3, <1>4, <1>5, <1>7, FirstConfirmed, OnlyTask

\* If publishing does not suspend, every step keeps tasks alone.
LEMMA AloneStep ==
  ASSUME StartedOK, Alone, ~suspends, [Next]_vars
  PROVE  Alone'
<1>1. ASSUME Tick
      PROVE  Alone'
  <2>1. \A t \in Threads : Closed(t) => Closed(t)'
    BY ClosedStep
  <2> QED
    BY <1>1, <2>1 DEF Tick, ingress, Alone, Exists, Thread
<1>2. ASSUME NEW t \in Threads, Ask(t)
      PROVE  Alone'
  <2>1. \A u \in Threads : Closed(u) => Closed(u)'
    BY ClosedStep
  <2>2. \A e \in Events : task[e].at # "idle" => Thread(e) \in Threads /\ Thread(e) # t
    BY <1>2 DEF Ask, StartedOK, Started, Thread, Contents
  <2>3. confirmed[t] = <<>>
    BY <1>2, <2>2 DEF Alone, Ask, Closed
  <2>4. /\ \A u \in Threads : u # t => interactions'[u] = interactions[u]
        /\ interactions'[t] = Opened(now) /\ now \in Nat
        /\ UNCHANGED <<task, running, confirmed, content>>
    BY <1>2, ConversationAssumption DEF Ask, ingress, StartedOK, TypeOK
  <2>5. ~interactions'[t].completed
    BY <2>4, RowEffects
  <2>6. \A e \in Events : Thread(e)' = Thread(e)
    BY <2>4 DEF Thread
  <2>7. \A e \in Events :
          /\ task'[e].at # "idle" => running' = e
          /\ task'[e].at \in {"confirm", "complete"} => interactions'[Thread(e)'].summary = task'[e].summary
          /\ task'[e].at = "confirm" => confirmed'[Thread(e)'] = <<>>
          /\ task'[e].at = "complete" => confirmed'[Thread(e)'] = <<task'[e].summary>>
    BY <2>2, <2>4, <2>6 DEF Alone
  <2>8. \A u \in Threads :
          /\ confirmed'[u] # <<>> => Closed(u)' \/ \E e \in Events : task'[e].at = "complete" /\ Thread(e)' = u
          /\ confirmed'[u] # <<>> => Len(confirmed'[u]) = 1
          /\ Exists(u)' /\ interactions'[u].completed => confirmed'[u] = <<interactions'[u].summary>>
    BY <2>1, <2>3, <2>4, <2>5, <2>6 DEF Alone, Exists
  <2> QED
    BY <2>7, <2>8 DEF Alone
<1>3. ASSUME NEW e \in Events, NEW c \in Contents, Deliver(e, c)
      PROVE  Alone'
  <2>1. \A f \in Events : f # e => content'[f] = content[f]
    BY <1>3 DEF Deliver, StartedOK, TypeOK
  <2>2. task[e].at = "idle" /\ UNCHANGED <<now, running, task, interactions, confirmed>>
    BY <1>3 DEF Deliver, StartedOK, Started
  <2>3. \A f \in Events : f # e => Thread(f)' = Thread(f)
    BY <2>1 DEF Thread
  <2>4. \A t \in Threads : Closed(t)' = Closed(t) /\ Exists(t)' = Exists(t)
    BY <2>2 DEF Closed, Exists
  <2> QED
    BY <2>2, <2>3, <2>4 DEF Alone
<1>4. ASSUME NEW e \in Events, Receive(e)
      PROVE  Alone'
  <2> DEFINE t == Thread(e)
  <2> DEFINE at == [at |-> "record", fresh |-> t \notin known, summary |-> 0]
  <2>1. /\ e \in seen /\ content[e] \in Contents /\ t \in Threads /\ running = Nobody
        /\ UNCHANGED <<now, content, confirmed>>
    BY <1>4, BeginFacts DEF Receive, Begin, ingress
  <2>2. task[e].at = "idle"
    BY <2>1, NobodysEvent DEF Alone
  <2>3. at \in Tasks /\ at.at = "record"
    BY TaskTypes
  <2>4. ~suspends /\ Thread(e)' = t
    BY <2>1 DEF Thread
  <2>5. CASE ~Exists(t) /\ interactions' = [interactions EXCEPT ![t] = Opened(now)] /\ Await(e, at)
    <3> HIDE DEF at
    <3>1. /\ task'[e] = at /\ running' = e /\ \A f \in Events : f # e => task'[f] = task[f]
      BY <2>3, <2>5, MoveTypes DEF Moves
    <3>2. /\ interactions'[t] = Opened(now) /\ now \in Nat
          /\ \A u \in Threads : u # t => interactions'[u] = interactions[u]
      BY <2>1, <2>5, ConversationAssumption DEF StartedOK, TypeOK
    <3>3. confirmed[t] = <<>> /\ ~interactions'[t].completed
      BY <2>1, <2>2, <2>5, <3>2, OpenUnconfirmed, RowEffects
    <3> QED
      BY <2>1, <2>3, <3>1, <3>2, <3>3, OnlyTask
  <2>6. CASE /\ task' = [task EXCEPT ![e] = at] /\ running' = e
             /\ UNCHANGED <<outcome, pending, interactions>>
    <3> HIDE DEF at
    <3>1. task'[e] = at /\ \A f \in Events : f # e => task'[f] = task[f]
      BY <2>3, <2>6, MoveTypes
    <3> QED
      BY <2>1, <2>2, <2>3, <2>6, <3>1, QuietTask
  <2>7. CASE Closed(t) /\ HandleClosed(e) /\ UNCHANGED interactions
    <3>1. task'[e] = Idle /\ \A f \in Events : f # e => task'[f] = task[f]
      BY <2>7, FinishTypes DEF HandleClosed, Tell, Outcomes
    <3> QED
      BY <2>1, <2>2, <2>7, <3>1, QuietTask DEF Idle
  <2> QED
    BY <1>4, <2>5, <2>6, <2>7 DEF Receive
<1>5. ASSUME NEW e \in Events, Record(e)
      PROVE  Alone'
  <2> DEFINE t == Thread(e)
  <2> DEFINE next == [task[e] EXCEPT !.at = IF task[e].fresh THEN "carry" ELSE "route"]
  <2>1. /\ At(e, "record") /\ Await(e, next) /\ UNCHANGED <<now, content, confirmed>>
        /\ interactions' = [interactions EXCEPT ![t] = Messaged(@, now)]
    BY <1>5 DEF Record, ingress
  <2>2. /\ e \in seen /\ t \in Threads /\ interactions[t] \in Interactions /\ task[e] \in Tasks
        /\ running \in {e, Nobody} /\ task[e].at = "record" /\ now \in Nat
    BY <2>1, AtFacts, ConversationAssumption DEF At, StartedOK, TypeOK
  <2>3. next \in Tasks /\ next.at \in {"carry", "route"}
    BY <2>2 DEF Tasks
  <2> HIDE DEF next
  <2>4. task'[e] = next /\ running' = e /\ \A f \in Events : f # e => task'[f] = task[f]
    BY <2>1, <2>3, MoveTypes DEF Moves
  <2>5. /\ interactions'[t] = Messaged(interactions[t], now)
        /\ \A u \in Threads : u # t => interactions'[u] = interactions[u]
    BY <2>1, <2>2 DEF StartedOK, TypeOK
  <2>6. /\ interactions'[t].summary = interactions[t].summary
        /\ interactions'[t].completed = interactions[t].completed
    BY <2>2, <2>5, RowEffects
  <2>7. /\ confirmed[t] # <<>> => Closed(t)
        /\ confirmed[t] # <<>> => Len(confirmed[t]) = 1
        /\ Exists(t) /\ interactions[t].completed => confirmed[t] = <<interactions[t].summary>>
        /\ Exists(t)
    BY <2>2, AloneFacts, RowTypes DEF Exists
  <2>8. \A u \in Threads : Closed(u) => Closed(u)'
    BY ClosedStep
  <2>9. Thread(e)' = t
    BY <2>1 DEF Thread
  <2>10. Closed(t) => Closed(Thread(e))'
    BY <2>2, <2>8, <2>9 DEF Closed, Exists
  <2> QED
    BY <2>1, <2>2, <2>3, <2>4, <2>5, <2>6, <2>7, <2>10, OnlyTask
<1>6. ASSUME NEW e \in Events, CarryOver(e)
      PROVE  Alone'
  <2> DEFINE t == Thread(e)
  <2> DEFINE routed == [task[e] EXCEPT !.at = "route"]
  <2>1. At(e, "carry") /\ UNCHANGED <<now, content, confirmed>>
    BY <1>6 DEF CarryOver, ingress
  <2>2. /\ e \in seen /\ t \in Threads /\ interactions[t] \in Interactions /\ task[e] \in Tasks
        /\ running \in {e, Nobody} /\ task[e].at = "carry"
    BY <2>1, AtFacts DEF At
  <2>3. routed \in Tasks /\ routed.at = "route"
    BY <2>2 DEF Tasks
  <2>4. CASE \/ Await(e, routed)
             \/ task' = [task EXCEPT ![e] = routed] /\ running' = e /\ outcome' = outcome
    <3> HIDE DEF routed
    <3>1. task'[e] = routed /\ running' = e /\ \A f \in Events : f # e => task'[f] = task[f]
      BY <2>3, <2>4, MoveTypes DEF Moves
    <3>2. CASE interactions' = interactions
      BY <2>1, <2>2, <2>3, <3>1, <3>2, QuietTask
    <3>3. CASE Active(t) /\ interactions' = [interactions EXCEPT ![t] = Rewritten(@)]
      <4>1. /\ interactions'[t] = Rewritten(interactions[t])
            /\ \A u \in Threads : u # t => interactions'[u] = interactions[u]
        BY <2>2, <3>3 DEF StartedOK, TypeOK
      <4>2. confirmed[t] = <<>> /\ Exists(t) /\ ~interactions[t].completed
        BY <2>2, <3>3, OpenUnconfirmed DEF Active
      <4>3. ~interactions'[t].completed
        BY <2>2, <4>1, <4>2, RowEffects
      <4> QED
        BY <2>1, <2>2, <2>3, <3>1, <4>1, <4>2, <4>3, OnlyTask
    <3> QED
      BY <1>6, <3>2, <3>3 DEF CarryOver
  <2>5. CASE Finish(e, "lost") /\ interactions' = interactions
    <3>1. task'[e] = Idle /\ \A f \in Events : f # e => task'[f] = task[f]
      BY <2>5, FinishTypes DEF Outcomes
    <3> QED
      BY <2>1, <2>2, <2>5, <3>1, QuietTask DEF Idle
  <2> QED
    BY <1>6, <2>4, <2>5 DEF CarryOver, routed
<1>7. ASSUME NEW e \in Events, Route(e)
      PROVE  Alone'
  <2> DEFINE t == Thread(e)
  <2>1. At(e, "route") /\ UNCHANGED <<now, content, interactions>>
    BY <1>7 DEF Route, ingress
  <2>2. /\ e \in seen /\ content[e] \in Contents /\ t \in Threads
        /\ interactions[t] \in Interactions /\ task[e] \in Tasks
        /\ running \in {e, Nobody} /\ task[e].at = "route"
    BY <2>1, AtFacts DEF At
  <2>3. CASE HandleClosed(e) /\ confirmed' = confirmed
    <3>1. task'[e] = Idle /\ \A f \in Events : f # e => task'[f] = task[f]
      BY <2>3, FinishTypes DEF HandleClosed, Tell, Outcomes
    <3> QED
      BY <2>1, <2>2, <2>3, <3>1, QuietTask DEF Idle
  <2>4. CASE Active(t) /\ PublishConfirmed(e, interactions[t].summary)
    <3>1. confirmed[t] = <<>> /\ Exists(t)
      BY <2>2, <2>4, OpenUnconfirmed DEF Active
    <3> QED
      BY <2>1, <2>2, <2>4, <3>1, PublishingTask
  <2>5. CASE /\ task' = [task EXCEPT ![e].at = "summarize"] /\ running' = e
             /\ UNCHANGED <<outcome, pending, confirmed>>
    <3>1. task'[e].at = "summarize" /\ \A f \in Events : f # e => task'[f] = task[f]
      BY <2>2, <2>5 DEF StartedOK, TypeOK, Tasks
    <3> QED
      BY <2>1, <2>2, <2>5, <3>1, QuietTask
  <2> QED
    BY <1>7, <2>3, <2>4, <2>5 DEF Route
<1>8. ASSUME NEW e \in Events, Summarize(e)
      PROVE  Alone'
  <2> DEFINE t == Thread(e)
  <2> DEFINE v == interactions[t].summary + 1
  <2> DEFINE next == [task[e] EXCEPT !.at = "confirm", !.summary = v]
  <2>1. At(e, "summarize") /\ UNCHANGED <<now, content, confirmed>>
    BY <1>8 DEF Summarize, ingress
  <2>2. /\ e \in seen /\ t \in Threads /\ interactions[t] \in Interactions /\ task[e] \in Tasks
        /\ running \in {e, Nobody} /\ task[e].at = "summarize"
    BY <2>1, AtFacts DEF At
  <2>3. ASSUME NEW o \in {"apology", "lost", "unsent"}, Finish(e, o), interactions' = interactions
        PROVE  Alone'
    <3>1. task'[e] = Idle /\ \A f \in Events : f # e => task'[f] = task[f]
      BY <2>3, FinishTypes DEF Outcomes
    <3> QED
      BY <2>1, <2>2, <2>3, <3>1, QuietTask DEF Idle
  <2>4. ASSUME Active(t), interactions' = [interactions EXCEPT ![t] = Rewritten(@)],
               Await(e, next) \/ Tell(e, "summary")
        PROVE  Alone'
    <3>1. /\ interactions'[t] = Rewritten(interactions[t])
          /\ \A u \in Threads : u # t => interactions'[u] = interactions[u]
      BY <2>2, <2>4 DEF StartedOK, TypeOK
    <3>2. confirmed[t] = <<>> /\ Exists(t) /\ ~interactions[t].completed
      BY <2>2, <2>4, OpenUnconfirmed DEF Active
    <3>3. ~interactions'[t].completed /\ interactions'[t].summary = v /\ v \in Nat
      BY <2>2, <3>1, <3>2, RowEffects DEF Interactions
    <3>4. next \in Tasks /\ next.at = "confirm" /\ next.summary = v
      <4> HIDE DEF v
      <4> QED
        BY <2>2, <3>3 DEF Tasks
    <3> HIDE DEF next, v
    <3>5. /\ (task'[e] = next /\ running' = e) \/ task'[e] = Idle
          /\ \A f \in Events : f # e => task'[f] = task[f]
      BY <2>4, <3>4, MoveTypes, FinishTypes DEF Moves, Tell, Outcomes
    <3>6. task'[e].at \in {"idle", "confirm"} /\ (task'[e].at = "confirm" => running' = e /\ task'[e].summary = v)
      BY <3>4, <3>5 DEF Idle
    <3> QED
      BY <2>1, <2>2, <3>1, <3>2, <3>3, <3>5, <3>6, OnlyTask
  <2> QED
    BY <1>8, <2>3, <2>4 DEF Summarize, Tell
<1>9. ASSUME NEW e \in Events, ConfirmRead(e)
      PROVE  Alone'
  <2>1. /\ At(e, "confirm") /\ PublishConfirmed(e, task[e].summary)
        /\ UNCHANGED <<now, content, interactions>>
    BY <1>9 DEF ConfirmRead, ingress
  <2>2. /\ e \in seen /\ content[e] \in Contents
        /\ running \in {e, Nobody} /\ task[e].at = "confirm" /\ Exists(Thread(e))
    BY <2>1, AtFacts, RowTypes DEF At, Exists
  <2>3. confirmed[Thread(e)] = <<>> /\ interactions[Thread(e)].summary = task[e].summary
    BY <2>2 DEF Alone
  <2> QED
    BY <2>1, <2>2, <2>3, PublishingTask
<1>10. ASSUME NEW e \in Events, Complete(e)
       PROVE  Alone'
  <2> DEFINE t == Thread(e)
  <2>1. At(e, "complete") /\ UNCHANGED <<now, content, confirmed>>
    BY <1>10 DEF Complete, ingress
  <2>2. /\ e \in seen /\ t \in Threads /\ interactions[t] \in Interactions
        /\ running \in {e, Nobody} /\ task[e].at = "complete" /\ Exists(t)
    BY <2>1, AtFacts, RowTypes DEF At, Exists
  <2>3. \A o \in {"lost", "confirmed", "unsent"} : Finish(e, o) =>
          task'[e] = Idle /\ \A f \in Events : f # e => task'[f] = task[f]
    BY FinishTypes DEF Outcomes
  <2>4. CASE ~Active(t) /\ Finish(e, "lost") /\ interactions' = interactions
    BY <2>1, <2>2, <2>3, <2>4, Statuses, QuietTask DEF Idle
  <2>5. CASE Tell(e, "confirmed") /\ interactions' = [interactions EXCEPT ![t] = Completed(@)]
    <3>1. /\ interactions'[t] = Completed(interactions[t])
          /\ \A u \in Threads : u # t => interactions'[u] = interactions[u]
      BY <2>2, <2>5 DEF StartedOK, TypeOK
    <3>2. /\ interactions'[t].completed /\ interactions'[t].summary = interactions[t].summary
          /\ interactions'[t] # NoInteraction
      <4>1. interactions'[t] \in Interactions
        BY <2>2, <3>1, RowTypes
      <4>2. interactions'[t].completed /\ interactions'[t].summary = interactions[t].summary
        BY <2>2, <3>1, RowEffects
      <4> QED
        BY <4>1, <4>2, RowTypes
    <3>3. confirmed[t] = <<interactions'[t].summary>> /\ Len(confirmed[t]) = 1
      <4>1. e \in Events /\ interactions[t].summary = task[e].summary
        BY <2>2 DEF Alone, StartedOK, TypeOK
      <4>2. confirmed[t] = <<task[e].summary>>
        BY <2>2, <4>1 DEF Alone
      <4>3. confirmed[t] # <<>>
        BY <4>2
      <4> QED
        BY <2>2, <3>2, <4>1, <4>2, <4>3, AloneFacts
    <3>4. Thread(e)' = t
      BY <2>1 DEF Thread
    <3>5. Closed(Thread(e))'
      BY <3>2, <3>4 DEF Closed, Exists, derive_status, ClosedStatuses
    <3>6. task'[e].at = "idle" /\ \A f \in Events : f # e => task'[f] = task[f]
      BY <2>3, <2>5 DEF Idle, Tell
    <3>7. confirmed'[t] = <<interactions'[t].summary>> /\ Len(confirmed'[t]) = 1
      BY <2>1, <3>3
    <3> QED
      BY <2>1, <2>2, <3>1, <3>5, <3>6, <3>7, OnlyTask
  <2> QED
    BY <1>10, <2>4, <2>5 DEF Complete
<1>11. ASSUME NEW e \in Events, Click(e)
       PROVE  Alone'
  <2> DEFINE t == Thread(e)
  <2>1. /\ e \in seen /\ content[e] \in Contents /\ t \in Threads /\ running = Nobody
        /\ UNCHANGED <<now, content, interactions>>
    BY <1>11, BeginFacts DEF Click, Begin, ingress
  <2>2. task[e].at = "idle"
    BY <2>1, NobodysEvent DEF Alone
  <2>3. ASSUME NEW o \in {"ignored", "closed", "unsent"}, Finish(e, o), confirmed' = confirmed
        PROVE  Alone'
    <3>1. task'[e] = Idle /\ \A f \in Events : f # e => task'[f] = task[f]
      BY <2>3, FinishTypes DEF Outcomes
    <3> QED
      BY <2>1, <2>2, <2>3, <3>1, QuietTask DEF Idle
  <2>4. CASE Active(t) /\ PublishConfirmed(e, interactions[t].summary)
    <3>1. confirmed[t] = <<>> /\ Exists(t)
      BY <2>1, <2>2, <2>4, OpenUnconfirmed DEF Active
    <3> QED
      BY <2>1, <2>4, <3>1, PublishingTask
  <2> QED
    BY <1>11, <2>3, <2>4 DEF Click, Tell
<1>12. CASE UNCHANGED vars
  BY <1>12 DEF vars, ingress, Alone, Closed, Exists, Thread
<1> QED
  BY <1>1, <1>2, <1>3, <1>4, <1>5, <1>6, <1>7, <1>8, <1>9, <1>10, <1>11, <1>12 DEF Next, TaskStep
\* What was confirmed stays; who is about to complete has published.
LEMMA ConfirmedSteps ==
  ASSUME StartedOK, [Next]_vars
  PROVE  /\ \A t \in Threads : confirmed[t] # <<>> => confirmed'[t] # <<>>
         /\ \A e \in Events : task'[e].at = "complete" =>
              e \in seen /\ (task[e].at = "complete" \/ confirmed'[Thread(e)] # <<>>)
<1> DEFINE Goal == /\ \A t \in Threads : confirmed[t] # <<>> => confirmed'[t] # <<>>
                   /\ \A e \in Events : task'[e].at = "complete" =>
                        e \in seen /\ (task[e].at = "complete" \/ confirmed'[Thread(e)] # <<>>)
<1>0. \A f \in Events : task[f].at = "complete" => f \in seen
  BY DEF StartedOK, Started
<1>1. ASSUME NEW e \in Events, e \in seen, content[e] \in Contents, NEW v \in Nat, PublishConfirmed(e, v)
      PROVE  Goal
  <2>1. task[e] \in Tasks /\ Thread(e) \in Threads
    BY <1>1 DEF StartedOK, TypeOK, Contents, Thread
  <2>2. /\ confirmed'[Thread(e)] = Append(confirmed[Thread(e)], v)
        /\ \A t \in Threads : t # Thread(e) => confirmed'[t] = confirmed[t]
    BY <1>1, <2>1, PublishTypes
  <2>3. confirmed'[Thread(e)] # <<>>
    <3>1. confirmed[Thread(e)] \in Seq(Nat)
      BY <2>1 DEF StartedOK, TypeOK
    <3> QED
      BY <1>1, <2>2, <3>1, AppendProperties
  <2>4. \A f \in Events : f # e => task'[f] = task[f]
    BY <1>1 DEF PublishConfirmed, Await, StartedOK, TypeOK
  <2>5. \A f \in Events : task'[f].at = "complete" =>
          f \in seen /\ (task[f].at = "complete" \/ confirmed'[Thread(f)] # <<>>)
    BY <1>0, <1>1, <2>3, <2>4
  <2>6. \A t \in Threads : confirmed[t] # <<>> => confirmed'[t] # <<>>
    BY <2>2, <2>3
  <2> QED
    BY <2>5, <2>6
<1>2. ASSUME confirmed' = confirmed,
             \A f \in Events : task'[f] = task[f] \/ task'[f].at # "complete"
      PROVE  Goal
  BY <1>0, <1>2
<1>3. \A e \in Events, o \in Outcomes : Finish(e, o) =>
        \A f \in Events : task'[f] = task[f] \/ task'[f].at # "complete"
  BY FinishTypes DEF Idle
<1>4. \A e \in Events, k \in Tasks :
        k.at # "complete" /\ (Await(e, k) \/ task' = [task EXCEPT ![e] = k]) =>
        \A f \in Events : task'[f] = task[f] \/ task'[f].at # "complete"
  BY DEF Await, StartedOK, TypeOK
<1> HIDE DEF Goal
<1>5. ASSUME NEW e \in Events, Receive(e)
      PROVE  Goal
  <2> DEFINE at == [at |-> "record", fresh |-> Thread(e) \notin known, summary |-> 0]
  <2>1. at \in Tasks /\ at.at # "complete"
    BY TaskTypes
  <2>2. Await(e, at) \/ task' = [task EXCEPT ![e] = at] \/ \E o \in {"closed", "unsent"} : Finish(e, o)
    BY <1>5 DEF Receive, HandleClosed, Tell
  <2> HIDE DEF at
  <2> QED
    BY <1>2, <1>3, <1>4, <1>5, <2>1, <2>2 DEF Receive, Outcomes
<1>6. ASSUME NEW e \in Events, Record(e) \/ CarryOver(e) \/ Summarize(e) \/ Complete(e)
      PROVE  Goal
  <2>1. task[e] \in Tasks /\ interactions[Thread(e)] \in Interactions /\ confirmed' = confirmed
    BY <1>6, AtFacts DEF Record, CarryOver, Summarize, Complete
  <2>2. interactions[Thread(e)].summary + 1 \in Nat
    BY <2>1 DEF Interactions
  <2>3. ASSUME Record(e) \/ CarryOver(e)
        PROVE  \/ \E k \in Tasks : k.at # "complete" /\ (Await(e, k) \/ task' = [task EXCEPT ![e] = k])
               \/ Finish(e, "lost")
    BY <2>1, <2>3 DEF Record, CarryOver, Tasks
  <2>4. ASSUME Summarize(e) \/ Complete(e)
        PROVE  \/ \E k \in Tasks : k.at # "complete" /\ Await(e, k)
               \/ \E o \in Outcomes : Finish(e, o)
    <3> DEFINE v == interactions[Thread(e)].summary + 1
    <3> DEFINE k == [task[e] EXCEPT !.at = "confirm", !.summary = v]
    <3>1. k \in Tasks /\ k.at # "complete"
      <4> HIDE DEF v
      <4> QED
        BY <2>1, <2>2 DEF Tasks, v
    <3>2. Await(e, k) \/ \E o \in {"apology", "lost", "summary", "confirmed", "unsent"} : Finish(e, o)
      BY <2>4 DEF Summarize, Complete, Tell
    <3> HIDE DEF k
    <3> QED
      BY <3>1, <3>2 DEF Outcomes
  <2> QED
    BY <1>2, <1>3, <1>4, <1>6, <2>1, <2>3, <2>4 DEF Outcomes
<1>7. ASSUME NEW e \in Events, Route(e) \/ ConfirmRead(e) \/ Click(e)
      PROVE  Goal
  <2>1. /\ e \in seen /\ content[e] \in Contents /\ task[e] \in Tasks /\ task[e].summary \in Nat
        /\ Exists(Thread(e)) => interactions[Thread(e)].summary \in Nat
    BY <1>7, AtFacts, BeginFacts
       DEF Route, ConfirmRead, Click, StartedOK, TypeOK, Tasks, Exists, Interactions
  <2>2. \/ \E v \in Nat : PublishConfirmed(e, v)
        \/ confirmed' = confirmed /\ \E o \in Outcomes : Finish(e, o)
        \/ confirmed' = confirmed /\ task' = [task EXCEPT ![e].at = "summarize"]
    BY <1>7, <2>1 DEF Route, ConfirmRead, Click, HandleClosed, Tell, Active, Outcomes
  <2>3. ASSUME task' = [task EXCEPT ![e].at = "summarize"]
        PROVE  \A f \in Events : task'[f] = task[f] \/ task'[f].at # "complete"
    BY <2>1, <2>3 DEF StartedOK, TypeOK, Tasks
  <2> QED
    BY <1>1, <1>2, <1>3, <2>1, <2>2, <2>3
<1>8. Goal
  BY <1>2, <1>5, <1>6, <1>7 DEF Next, Tick, Ask, Deliver, TaskStep, vars
<1> QED
  BY <1>8 DEF Goal

\* A row is completed by the task that has published for it.
LEMMA CompletingSteps ==
  ASSUME StartedOK, [Next]_vars, NEW t \in Threads, Exists(t)', interactions'[t].completed
  PROVE  \/ Exists(t) /\ interactions[t].completed
         \/ \E e \in Events : task[e].at = "complete" /\ Thread(e) = t
<1>1. CASE \E e \in Events : Complete(e) /\ interactions' # interactions
  <2>1. PICK e \in Events : Complete(e) /\ interactions' # interactions
    BY <1>1
  <2>2. /\ task[e].at = "complete" /\ Thread(e) \in Threads
        /\ interactions' = [interactions EXCEPT ![Thread(e)] = Completed(@)]
    BY <2>1, AtFacts DEF Complete, At
  <2>3. CASE t = Thread(e)
    BY <2>2, <2>3
  <2>4. CASE t # Thread(e)
    BY <2>2, <2>4 DEF Exists, StartedOK, TypeOK
  <2> QED
    BY <2>3, <2>4
<1>2. CASE ~\E e \in Events : Complete(e) /\ interactions' # interactions
  <2>1. \/ interactions'[t] = interactions[t]
        \/ interactions'[t] = Opened(now)
        \/ Exists(t) /\ interactions'[t] = Messaged(interactions[t], now)
        \/ Exists(t) /\ interactions'[t] = Rewritten(interactions[t])
    <3>1. \/ interactions' = interactions
          \/ \E u \in Threads : Ask(u)
          \/ \E e \in Events : Receive(e) \/ Record(e) \/ CarryOver(e) \/ Summarize(e)
      BY <1>2 DEF Next, Tick, Deliver, TaskStep, Route, ConfirmRead, Click, vars
    <3>2. \A u \in Threads : Ask(u) => interactions'[t] \in {interactions[t], Opened(now)}
      BY DEF Ask, StartedOK, TypeOK
    <3>3. ASSUME NEW e \in Events, Receive(e)
          PROVE  interactions'[t] \in {interactions[t], Opened(now)}
      BY <3>3 DEF Receive, StartedOK, TypeOK
    <3>4. ASSUME NEW e \in Events, Record(e) \/ CarryOver(e) \/ Summarize(e)
          PROVE  \/ interactions'[t] = interactions[t]
                 \/ Exists(t) /\ interactions'[t] = Messaged(interactions[t], now)
                 \/ Exists(t) /\ interactions'[t] = Rewritten(interactions[t])
      <4>1. Exists(Thread(e))
        BY <3>4, AtFacts, RowTypes DEF Record, CarryOver, Summarize, Exists
      <4> QED
        BY <3>4, <4>1 DEF Record, CarryOver, Summarize, StartedOK, TypeOK
    <3> QED
      BY <3>1, <3>2, <3>3, <3>4
  <2>2. now \in Nat /\ (Exists(t) => interactions[t] \in Interactions)
    BY ConversationAssumption DEF StartedOK, TypeOK, Exists
  <2> QED
    BY <2>1, <2>2, RowEffects DEF Exists
<1> QED
  BY <1>1, <1>2

\* Every step keeps the completed, and those about to be, published.
LEMMA PublishedStep ==
  ASSUME StartedOK, Published, [Next]_vars
  PROVE  Published'
<1>1. ASSUME NEW e \in Events, task'[e].at = "complete"
      PROVE  confirmed'[Thread(e)'] # <<>>
  <2>1. e \in seen
    BY <1>1, ConfirmedSteps
  <2>2. Thread(e)' = Thread(e) /\ Thread(e) \in Threads
    BY <2>1, ContentSteps DEF StartedOK, Started, Thread, Contents
  <2> QED
    BY <1>1, <2>2, ConfirmedSteps DEF Published
<1>2. ASSUME NEW t \in Threads, Exists(t)', interactions'[t].completed
      PROVE  confirmed'[t] # <<>>
  <2>1. confirmed[t] # <<>>
    BY <1>2, CompletingSteps DEF Published
  <2> QED
    BY <2>1, ConfirmedSteps
<1> QED
  BY <1>1, <1>2 DEF Published

\* Nothing is confirmed at first.
LEMMA InitAlone == Init => Alone /\ Published
<1> SUFFICES ASSUME Init PROVE Alone /\ Published
  OBVIOUS
<1>1. \A e \in Events : task[e].at = "idle"
  BY DEF Init, Idle
<1>2. \A t \in Threads : ~Exists(t) /\ confirmed[t] = <<>>
  BY DEF Init, Exists
<1> QED
  BY <1>1, <1>2 DEF Alone, Published

\* The transport stays what it is.
LEMMA SuspendsStays ==
  ASSUME [Next]_vars
  PROVE  suspends' = suspends
BY DEF Next, Tick, Ask, Deliver, TaskStep, Receive, Record, CarryOver, Route, Summarize, ConfirmRead,
       Complete, Click, vars

\* Tasks are alone in every reachable state over a transport that does not
\* suspend; over any, what completes has been published.
LEMMA AlwaysAlone == Spec => [](StartedOK /\ Published /\ (~suspends => Alone))
<1> DEFINE Inv == StartedOK /\ Published /\ (~suspends => Alone)
<1>1. Init => Inv
  BY InitStarted, InitAlone
<1>2. Inv /\ [Next]_vars => Inv'
  <2> SUFFICES ASSUME Inv, [Next]_vars PROVE Inv'
    OBVIOUS
  <2>1. StartedOK' /\ Published'
    BY StartedStep, PublishedStep
  <2>2. ASSUME ~suspends'
        PROVE  Alone'
    BY <2>2, SuspendsStays, AloneStep
  <2> QED
    BY <2>1, <2>2
<1> QED
  BY <1>1, <1>2, PTL DEF Spec

\* ConfirmFlow publishes one confirmed summary of an interaction, whichever
\* handlers race for it, over a transport that does not suspend.
THEOREM OneConfirmationEach == Spec => []OneConfirmation
<1>1. StartedOK /\ Published /\ (~suspends => Alone) => OneConfirmation
  <2> SUFFICES ASSUME StartedOK, ~suspends, Alone, NEW t \in Threads
               PROVE  Len(confirmed[t]) <= 1
    BY DEF OneConfirmation
  <2>1. CASE confirmed[t] = <<>>
    <3>1. confirmed[t] \in Seq(Nat)
      BY DEF StartedOK, TypeOK
    <3> QED
      BY <2>1, <3>1, EmptySeq
  <2>2. CASE confirmed[t] # <<>>
    <3>1. Len(confirmed[t]) = 1
      BY <2>2 DEF Alone
    <3> QED
      BY <3>1
  <2> QED
    BY <2>1, <2>2
<1> QED
  BY <1>1, AlwaysAlone, PTL

\* A completed interaction was confirmed, and with the summary it has.
THEOREM CompletedWereConfirmed == Spec => []CompletedAsConfirmed
<1>1. StartedOK /\ Published /\ (~suspends => Alone) => CompletedAsConfirmed
  <2> SUFFICES ASSUME StartedOK, Published, ~suspends => Alone, NEW t \in Threads,
                      Exists(t), interactions[t].completed
               PROVE  /\ confirmed[t] # <<>>
                      /\ ~suspends => interactions[t].summary = confirmed[t][Len(confirmed[t])]
    BY DEF CompletedAsConfirmed
  <2>1. confirmed[t] # <<>>
    BY DEF Published
  <2>2. ASSUME ~suspends
        PROVE  interactions[t].summary = confirmed[t][Len(confirmed[t])]
    <3>1. confirmed[t] = <<interactions[t].summary>> /\ Len(confirmed[t]) = 1
      BY <2>1, <2>2 DEF Alone
    <3> DEFINE v == interactions[t].summary
    <3>2. <<v>>[1] = v
      OBVIOUS
    <3> QED
      BY <3>1, <3>2
  <2> QED
    BY <2>1, <2>2
<1> QED
  BY <1>1, AlwaysAlone, PTL

-----------------------------------------------------------------------------
(* Redelivery                                                               *)


\* A delivery is queued once, before its task starts; its task records it once.
Fresh(e) == task[e].at = "idle" /\ received[e] = 0

Once ==
  /\ \A i, j \in 1 .. Len(queue) : queue[i] = queue[j] => i = j
  /\ \A i \in 1 .. Len(queue) : Fresh(queue[i])
  /\ \A e \in Events : e \notin seen => Fresh(e)
  /\ \A e \in Events : task[e].at = "record" => received[e] = 0
  /\ \A e \in Events : received[e] <= 1

\* A task that goes on is of a delivery no longer queued; it keeps the others.
LEMMA GoingOn ==
  ASSUME StartedOK, Once, NEW e \in seen, task[e].at # "idle",
         queue' = queue, seen' = seen, task'[e].at # "record", received'[e] <= 1,
         \A f \in Events : f # e => task'[f] = task[f] /\ received'[f] = received[f]
  PROVE  Once'
<1>1. \A i \in 1 .. Len(queue) : queue[i] # e /\ queue[i] \in Events
  BY DEF StartedOK, TypeOK, Started, Once, Fresh
<1>2. \A i \in 1 .. Len(queue') : Fresh(queue[i])'
  BY <1>1 DEF Once, Fresh
<1>3. \A i, j \in 1 .. Len(queue') : queue'[i] = queue'[j] => i = j
  BY DEF Once
<1>4. \A f \in Events : f \notin seen' => Fresh(f)'
  BY DEF Once, Fresh
<1>5. \A f \in Events : (task'[f].at = "record" => received'[f] = 0) /\ received'[f] <= 1
  BY DEF Once
<1> QED
  BY <1>2, <1>3, <1>4, <1>5 DEF Once

\* A task that starts is of the oldest delivery, which leaves the queue.
LEMMA Starting ==
  ASSUME StartedOK, Once, NEW e \in Events, Begin(e), seen' = seen, received' = received,
         \A f \in Events : f # e => task'[f] = task[f]
  PROVE  Once'
<1>1. /\ e \in seen /\ Len(queue') = Len(queue) - 1
      /\ \A i \in 1 .. Len(queue') : queue'[i] = queue[i + 1]
      /\ Len(queue) \in Nat /\ e = queue[1] /\ 1 \in 1 .. Len(queue)
  <2>1. queue \in Seq(Events) /\ queue # <<>> /\ e = Head(queue)
    BY DEF Begin, StartedOK, TypeOK
  <2>2. Len(queue) \in Nat /\ e = queue[1] /\ 1 \in 1 .. Len(queue)
    BY <2>1, EmptySeq, LenProperties
  <2> QED
    BY <2>2, BeginFacts
<1>2. \A i \in 1 .. Len(queue') : i \in Nat /\ i + 1 \in 1 .. Len(queue) /\ i + 1 # 1
  BY <1>1
<1>3. \A i \in 1 .. Len(queue') : queue'[i] # e /\ queue'[i] \in Events
  BY <1>1, <1>2 DEF Once, StartedOK, TypeOK, Started
<1>4. \A i \in 1 .. Len(queue') : Fresh(queue[i])'
  <2>1. ASSUME NEW i \in 1 .. Len(queue')
        PROVE  task'[queue'[i]].at = "idle" /\ received'[queue'[i]] = 0
    <3>1. queue'[i] = queue[i + 1] /\ Fresh(queue[i + 1])
      BY <1>1, <1>2 DEF Once
    <3> QED
      BY <1>3, <3>1 DEF Fresh
  <2> QED
    BY <2>1 DEF Fresh
<1>5. ASSUME NEW i \in 1 .. Len(queue'), NEW j \in 1 .. Len(queue'), queue'[i] = queue'[j]
      PROVE  i = j
  <2>1. i + 1 = j + 1
    BY <1>1, <1>2, <1>5 DEF Once
  <2> QED
    BY <1>2, <2>1
<1>6. \A f \in Events : f \notin seen' => Fresh(f)'
  BY <1>1 DEF Once, Fresh
<1>7. Fresh(e)
  BY <1>1 DEF Once
<1>8. \A f \in Events : (task'[f].at = "record" => received'[f] = 0) /\ received'[f] <= 1
  BY <1>7 DEF Once, Fresh
<1> QED
  BY <1>4, <1>5, <1>6, <1>8 DEF Once

\* Every step keeps deliveries single.
LEMMA OnceStep ==
  ASSUME StartedOK, Once, [Next]_vars
  PROVE  Once'
<1>1. CASE UNCHANGED <<queue, seen, task, received>>
  BY <1>1 DEF Once, Fresh
<1>2. ASSUME NEW e \in Events, NEW c \in Contents, Deliver(e, c)
      PROVE  Once'
  <2>1. /\ queue' \in Seq(Events) /\ Len(queue') = Len(queue) + 1 /\ Len(queue) \in Nat
        /\ \A i \in 1 .. Len(queue) : queue'[i] = queue[i]
        /\ queue'[Len(queue) + 1] = e
    BY <1>2, AppendProperties, LenProperties DEF Deliver, StartedOK, TypeOK
  <2>2. e \notin seen /\ seen' = seen \cup {e} /\ task' = task /\ received' = received
    BY <1>2 DEF Deliver
  <2>3. Fresh(e) /\ \A i \in 1 .. Len(queue) : queue[i] # e
    BY <2>2 DEF Once, StartedOK, Started
  <2>4. \A i \in 1 .. Len(queue') : i \in 1 .. Len(queue) \/ i = Len(queue) + 1
    BY <2>1
  <2>5. \A i, j \in 1 .. Len(queue') : queue'[i] = queue'[j] => i = j
    BY <2>1, <2>3, <2>4 DEF Once
  <2>6. \A i \in 1 .. Len(queue') : Fresh(queue[i])'
    BY <2>1, <2>2, <2>3, <2>4 DEF Once, Fresh
  <2>7. \A f \in Events : f \notin seen' => Fresh(f)'
    BY <2>2 DEF Once, Fresh
  <2>8. \A f \in Events : (task'[f].at = "record" => received'[f] = 0) /\ received'[f] <= 1
    BY <2>2 DEF Once
  <2> QED
    BY <2>5, <2>6, <2>7, <2>8 DEF Once
<1>3. \A e \in Events : \A k : task' = [task EXCEPT ![e] = k] =>
        \A f \in Events : f # e => task'[f] = task[f]
  BY DEF StartedOK, TypeOK
<1>4. ASSUME NEW e \in Events, Receive(e) \/ Click(e)
      PROVE  Once'
  <2>1. Begin(e) /\ seen' = seen /\ received' = received
    BY <1>4 DEF Receive, Click, ingress
  <2>2. \E k : task' = [task EXCEPT ![e] = k]
    BY <1>4 DEF Receive, Click, HandleClosed, PublishConfirmed, Await, Tell, Finish
  <2> QED
    BY <1>3, <2>1, <2>2, Starting
<1>5. ASSUME NEW e \in Events,
             CarryOver(e) \/ Route(e) \/ Summarize(e) \/ ConfirmRead(e) \/ Complete(e)
      PROVE  Once'
  <2>1. /\ e \in seen /\ task[e].at # "idle" /\ task[e] \in Tasks
        /\ queue' = queue /\ seen' = seen /\ received' = received
    BY <1>5, AtFacts DEF CarryOver, Route, Summarize, ConfirmRead, Complete, At, ingress
  <2>2. \E k : task' = [task EXCEPT ![e] = k] /\ k.at # "record"
    <3>1. /\ [task[e] EXCEPT !.at = "route"].at = "route"
          /\ \A v : [task[e] EXCEPT !.at = "complete", !.summary = v].at = "complete"
          /\ \A v : [task[e] EXCEPT !.at = "confirm", !.summary = v].at = "confirm"
          /\ [task[e] EXCEPT !.at = "summarize"].at = "summarize"
          /\ Idle.at = "idle"
      BY <2>1 DEF Tasks, Idle
    <3>2. task' = [task EXCEPT ![e].at = "summarize"] =>
            task' = [task EXCEPT ![e] = [task[e] EXCEPT !.at = "summarize"]]
      OBVIOUS
    <3> QED
      BY <1>5, <3>1, <3>2
         DEF CarryOver, Route, Summarize, ConfirmRead, Complete, HandleClosed, PublishConfirmed, Await, Tell, Finish
  <2>3. PICK k : task' = [task EXCEPT ![e] = k] /\ k.at # "record"
    BY <2>2
  <2>4. task'[e].at # "record" /\ \A f \in Events : f # e => task'[f] = task[f]
    BY <2>3 DEF StartedOK, TypeOK
  <2>5. received'[e] <= 1
    BY <2>1 DEF Once
  <2> QED
    BY <2>1, <2>4, <2>5, GoingOn
<1>6. ASSUME NEW e \in Events, Record(e)
      PROVE  Once'
  <2>1. /\ e \in seen /\ task[e].at = "record" /\ task[e] \in Tasks
        /\ queue' = queue /\ seen' = seen
    BY <1>6, AtFacts DEF Record, At, ingress
  <2>2. /\ task'[e].at # "record" /\ \A f \in Events : f # e => task'[f] = task[f]
    BY <1>6, <2>1 DEF Record, Await, StartedOK, TypeOK, Tasks
  <2>3. received[e] = 0
    BY <2>1 DEF Once
  <2>4. received'[e] <= 1 /\ \A f \in Events : f # e => received'[f] = received[f]
    BY <1>6, <2>3 DEF Record, StartedOK, TypeOK
  <2> QED
    BY <2>1, <2>2, <2>4, GoingOn
<1>7. CASE Tick \/ \E t \in Threads : Ask(t)
  BY <1>1, <1>7 DEF Tick, Ask, ingress
<1>8. CASE UNCHANGED vars
  BY <1>1, <1>8 DEF vars, ingress
<1> QED
  BY <1>2, <1>4, <1>5, <1>6, <1>7, <1>8 DEF Next, TaskStep

\* AckThenProcessPublisher drops what it saw: a message is published as received
\* once, however often Slack delivers it.
THEOREM MessagesReceivedOnce == Spec => []ReceivedOnce
<1>1. Init => Once
  <2> SUFFICES ASSUME Init PROVE Once
    OBVIOUS
  <2>1. \A e \in Events : Fresh(e)
    BY DEF Init, Fresh, Idle
  <2>2. 1 .. Len(queue) = {}
    BY DEF Init
  <2> QED
    BY <2>1, <2>2 DEF Once, Fresh
<1>2. StartedOK /\ Once /\ [Next]_vars => Once'
  BY OnceStep
<1>3. Once => ReceivedOnce
  BY DEF Once, ReceivedOnce
<1> QED
  BY <1>1, <1>2, <1>3, AlwaysStarted, PTL DEF Spec


=============================================================================
