---------------------------- MODULE Conversation ----------------------------
(***************************************************************************)
(* Slack deliveries on their way through the external-events ingress       *)
(* (AckThenProcessPublisher), the conversation router                      *)
(* (DevCommunicationRouter over SlackInboundConsumer) and the confirmation *)
(* gate (ConfirmFlow, CommunicationAgent) to the interaction of their      *)
(* thread.  Each accepted delivery is an asyncio task of one event loop.   *)
(* A task gives the loop up only where it awaits a publication, and only   *)
(* if the bus suspends there: the in-memory transport does not, another    *)
(* transport behind the MessageBus protocol may.  The clock goes on        *)
(* meanwhile, during a task's blocking calls too.                          *)
(***************************************************************************)
EXTENDS Interaction, Sequences

CONSTANTS
  Threads,        \* Slack threads: provider references
  Users,          \* Slack users
  MaxEvents,      \* bound: Slack events (redeliveries aside)
  Unsent,         \* an event of which nothing was delivered yet
  NoContext,      \* no closing summary is remembered for the user
  Transports,     \* whether a publication may suspend: a set of Booleans
  MaxTime         \* bound: ticks of the clock

ASSUME ConversationAssumption ==
  /\ NoContext \notin [thread : Threads, summary : Nat]
  /\ Transports \subseteq BOOLEAN
  /\ MaxTime \in Nat /\ MaxEvents \in Nat

VARIABLES
  now,           \* the clock
  content,       \* what each event says, in which thread; Unsent before
  suspends,      \* the bus in use suspends its publishers
  seen,          \* AckThenProcessPublisher._seen
  queue,         \* dispatch tasks created and not started
  running,       \* the task that has the event loop
  task,          \* where each task is
  outcome,       \* how each task ended
  known,         \* DevCommunicationRouter._known_references
  pending,       \* DevCommunicationRouter._pending_context
  interactions,  \* the table
  received,      \* how often a message was published as received
  confirmed      \* summaries published as confirmed, per thread

ingress == <<content, seen>>
vars == <<now, suspends, ingress, queue, running, task, outcome, known, pending,
          interactions, received, confirmed>>

-----------------------------------------------------------------------------
\* Events are numbered as they first come in; 0 is nobody's.
Events == 1 .. MaxEvents
Nobody == 0

\* A message is one of the curated confirmation words, or anything else; a
\* click is one on the Confirm button.
Contents == [kind : {"word", "reply", "click"}, thread : Threads, user : Users]
Contexts == [thread : Threads, summary : Nat]

\* fresh: is_new; summary: the summary the task is about to confirm.
Tasks == [at : {"idle", "record", "carry", "route", "summarize", "confirm", "complete"},
          fresh : BOOLEAN, summary : Nat]
Idle == [at |-> "idle", fresh |-> FALSE, summary |-> 0]

\* lost: the dispatch raised, which is only logged. unsent: so it did, but in
\* sending Slack what the handling had come to.
Outcomes == {"none", "summary", "confirmed", "closed", "apology", "ignored", "lost", "unsent"}

TypeOK ==
  /\ now \in 0 .. MaxTime
  /\ content \in [Events -> Contents \cup {Unsent}]
  /\ suspends \in Transports
  /\ seen \subseteq Events
  /\ queue \in Seq(Events)
  /\ running \in Events \cup {Nobody}
  /\ task \in [Events -> Tasks]
  /\ outcome \in [Events -> Outcomes]
  /\ known \subseteq Threads
  /\ pending \in [Users -> Contexts \cup {NoContext}]
  /\ interactions \in [Threads -> Interactions \cup {NoInteraction}]
  /\ received \in [Events -> Nat]
  /\ confirmed \in [Threads -> Seq(Nat)]

Init ==
  /\ now = 0
  /\ content = [e \in Events |-> Unsent]
  /\ suspends \in Transports
  /\ seen = {} /\ queue = <<>> /\ running = Nobody
  /\ task = [e \in Events |-> Idle]
  /\ outcome = [e \in Events |-> "none"]
  /\ known = {}
  /\ pending = [u \in Users |-> NoContext]
  /\ interactions = [t \in Threads |-> NoInteraction]
  /\ received = [e \in Events |-> 0]
  /\ confirmed = [t \in Threads |-> <<>>]

Thread(e) == content[e].thread
User(e) == content[e].user
Exists(t) == interactions[t] # NoInteraction
Active(t) == Exists(t) /\ derive_status(interactions[t], now) = "ACTIVE"
Closed(t) == Exists(t) /\ derive_status(interactions[t], now) \in ClosedStatuses

-----------------------------------------------------------------------------
(* The event loop                                                           *)

\* The task e goes on, or is picked up again where it was suspended.
At(e, at) == running \in {e, Nobody} /\ task[e].at = at

\* The task publishes, and awaits that.
Await(e, next) ==
  /\ task' = [task EXCEPT ![e] = next]
  /\ running' = IF suspends THEN Nobody ELSE e
  /\ UNCHANGED outcome

Finish(e, o) ==
  /\ task' = [task EXCEPT ![e] = Idle]
  /\ running' = Nobody
  /\ outcome' = [outcome EXCEPT ![e] = o]

\* The task ends by telling the user, and nobody catches what that may raise: a
\* ProviderError in _deliver_summary, which the other sends turn into a log line,
\* and in any of them what SlackOutboundClient does not turn into one.
Tell(e, o) == \E p \in {o, "unsent"} : Finish(e, p)

\* Fault: nothing is deduplicated.
DeliverAgain(e, c) ==
  /\ running = Nobody
  /\ seen' = seen \cup {e}
  /\ queue' = Append(queue, e)
  /\ content' = [content EXCEPT ![e] = c]
  /\ UNCHANGED <<now, suspends, running, task, outcome, known, pending, interactions,
                 received, confirmed>>

\* AckThenProcessPublisher.publish: a delivery whose keys were seen is dropped.
Deliver(e, c) ==
  /\ running = Nobody
  /\ e \notin seen
  /\ seen' = seen \cup {e}
  /\ queue' = Append(queue, e)
  /\ content' = [content EXCEPT ![e] = c]
  /\ UNCHANGED <<now, suspends, running, task, outcome, known, pending, interactions,
                 received, confirmed>>

\* The oldest task that has not started gets the loop.
Begin(e) == running = Nobody /\ queue # <<>> /\ e = Head(queue) /\ queue' = Tail(queue)

-----------------------------------------------------------------------------
(* A message: DevCommunicationRouter.consume                                *)

\* Fault: the summary kept is the task's, not the snapshot's.
HandleClosedUnread(e) ==
  /\ pending' = [pending EXCEPT ![User(e)] = [thread |-> Thread(e), summary |-> task[e].summary]]
  /\ Tell(e, "closed")

\* _handle_closed: the closing summary is kept for the user's next thread.
HandleClosed(e) ==
  /\ pending' = [pending EXCEPT ![User(e)] =
                   [thread |-> Thread(e), summary |-> interactions[Thread(e)].summary]]
  /\ Tell(e, "closed")

\* SlackInboundConsumer.consume, its InteractionService.create: a new row is
\* published, an open one is used, a closed one raises.
Receive(e) ==
  LET t == Thread(e)
      at == [at |-> "record", fresh |-> t \notin known, summary |-> 0]
  IN /\ Begin(e)
     /\ content[e].kind # "click"
     /\ known' = known \cup {t}
     /\ \/ /\ ~Exists(t)
           /\ interactions' = [interactions EXCEPT ![t] = Opened(now)]
           /\ Await(e, at)
           /\ UNCHANGED pending
        \/ /\ Active(t)
           /\ task' = [task EXCEPT ![e] = at]
           /\ running' = e
           /\ UNCHANGED <<outcome, pending, interactions>>
        \/ /\ Closed(t)
           /\ HandleClosed(e)
           /\ UNCHANGED interactions
     /\ UNCHANGED <<now, suspends, ingress, received, confirmed>>

\* SlackInboundConsumer.consume, after create: the row is told of the message,
\* and the text is published as it came.
Record(e) ==
  /\ At(e, "record")
  /\ interactions' = [interactions EXCEPT ![Thread(e)] = Messaged(@, now)]
  /\ received' = [received EXCEPT ![e] = @ + 1]
  /\ Await(e, [task[e] EXCEPT !.at = IF task[e].fresh THEN "carry" ELSE "route"])
  /\ UNCHANGED <<now, suspends, ingress, queue, known, pending, confirmed>>

\* _carry_over_context: what the user's closed thread came to opens the new
\* thread's summary. It is taken first, whether or not update_summary raises.
CarryOver(e) ==
  LET t == Thread(e)
      routed == [task[e] EXCEPT !.at = "route"]
  IN /\ At(e, "carry")
     /\ pending' = [pending EXCEPT ![User(e)] = NoContext]
     /\ \/ /\ pending[User(e)] = NoContext
           /\ task' = [task EXCEPT ![e] = routed]
           /\ running' = e
           /\ UNCHANGED <<outcome, interactions>>
        \/ /\ pending[User(e)] # NoContext
           /\ Active(t)
           /\ interactions' = [interactions EXCEPT ![t] = Rewritten(@)]
           /\ Await(e, routed)
        \/ /\ pending[User(e)] # NoContext
           /\ ~Active(t)
           /\ Finish(e, "lost")
           /\ UNCHANGED interactions
     /\ UNCHANGED <<now, suspends, ingress, queue, known, received, confirmed>>

-----------------------------------------------------------------------------
(* The confirmation gate: ConfirmFlow                                       *)

\* _confirm, up to its publication.
PublishConfirmed(e, summary) ==
  /\ confirmed' = [confirmed EXCEPT ![Thread(e)] = Append(@, summary)]
  /\ Await(e, [task[e] EXCEPT !.at = "complete", !.summary = summary])

\* handle: the snapshot decides. The word of a user who replies to an open
\* interaction confirms the snapshot's summary; any other text is a correction.
Route(e) ==
  LET t == Thread(e)
  IN /\ At(e, "route")
     /\ \/ /\ Closed(t)
           /\ HandleClosed(e)
           /\ UNCHANGED confirmed
        \/ /\ Active(t)
           /\ content[e].kind = "word"
           /\ PublishConfirmed(e, interactions[t].summary)
           /\ UNCHANGED pending
        \/ /\ Active(t)
           /\ content[e].kind = "reply"
           /\ task' = [task EXCEPT ![e].at = "summarize"]
           /\ running' = e
           /\ UNCHANGED <<outcome, pending, confirmed>>
     /\ UNCHANGED <<now, suspends, ingress, queue, known, interactions, received>>

\* Fault: a failed run is not caught.
SummarizeUncaught(e) ==
  LET t == Thread(e)
  IN /\ At(e, "summarize")
     /\ \/ /\ Finish(e, "lost")
           /\ UNCHANGED interactions
        \/ /\ Active(t)
           /\ interactions' = [interactions EXCEPT ![t] = Rewritten(@)]
           /\ Finish(e, "summary")
     /\ UNCHANGED <<now, suspends, ingress, queue, known, pending, received, confirmed>>

\* Fault: the model's confirmation is of the summary from before its run.
SummarizeStale(e) ==
  LET t == Thread(e)
  IN /\ At(e, "summarize")
     /\ Active(t)
     /\ interactions' = [interactions EXCEPT ![t] = Rewritten(@)]
     /\ Await(e, [task[e] EXCEPT !.at = "confirm", !.summary = interactions[t].summary])
     /\ UNCHANGED <<now, suspends, ingress, queue, known, pending, received, confirmed>>

\* CommunicationAgent.summarize has run the model. A run that fails is answered
\* with an apology; a summary is written, unless the interaction closed during
\* the run, and then sent (_deliver_summary), unless the model has read a
\* confirmation into the reply.
Summarize(e) ==
  LET t == Thread(e)
  IN /\ At(e, "summarize")
     /\ \/ /\ Tell(e, "apology")
           /\ UNCHANGED interactions
        \/ /\ ~Active(t)
           /\ Finish(e, "lost")
           /\ UNCHANGED interactions
        \/ /\ Active(t)
           /\ interactions' = [interactions EXCEPT ![t] = Rewritten(@)]
           /\ \/ Await(e, [task[e] EXCEPT !.at = "confirm",
                                        !.summary = interactions[t].summary + 1])
              \/ Tell(e, "summary")
     /\ UNCHANGED <<now, suspends, ingress, queue, known, pending, received, confirmed>>

\* _correct: the summary just written is confirmed.
ConfirmRead(e) ==
  /\ At(e, "confirm")
  /\ PublishConfirmed(e, task[e].summary)
  /\ UNCHANGED <<now, suspends, ingress, queue, known, pending, interactions, received>>

\* Fault: the row is completed whatever became of it since the snapshot.
CompleteUnchecked(e) ==
  /\ At(e, "complete")
  /\ interactions' = [interactions EXCEPT ![Thread(e)] = Completed(@)]
  /\ Finish(e, "confirmed")
  /\ UNCHANGED <<now, suspends, ingress, queue, known, pending, received, confirmed>>

\* _confirm, after its publication: InteractionService.complete, and the button
\* is replaced.
Complete(e) ==
  LET t == Thread(e)
  IN /\ At(e, "complete")
     /\ \/ /\ Active(t)
           /\ interactions' = [interactions EXCEPT ![t] = Completed(@)]
           /\ Tell(e, "confirmed")
        \/ /\ ~Active(t)
           /\ Finish(e, "lost")
           /\ UNCHANGED interactions
     /\ UNCHANGED <<now, suspends, ingress, queue, known, pending, received, confirmed>>

\* Fault: a click is taken although the interaction is closed.
ClickUnchecked(e) ==
  LET t == Thread(e)
  IN /\ Begin(e)
     /\ content[e].kind = "click"
     /\ Exists(t)
     /\ PublishConfirmed(e, interactions[t].summary)
     /\ UNCHANGED <<now, suspends, ingress, known, pending, interactions, received>>

\* _handle_block_actions and confirm_interaction: a click on the button of an
\* unknown thread is ignored, on that of a closed one only the button goes.
Click(e) ==
  LET t == Thread(e)
  IN /\ Begin(e)
     /\ content[e].kind = "click"
     /\ \/ /\ ~Exists(t)
           /\ Finish(e, "ignored")
           /\ UNCHANGED confirmed
        \/ /\ Closed(t)
           /\ Tell(e, "closed")
           /\ UNCHANGED confirmed
        \/ /\ Active(t)
           /\ PublishConfirmed(e, interactions[t].summary)
     /\ UNCHANGED <<now, suspends, ingress, known, pending, interactions, received>>

-----------------------------------------------------------------------------
\* RequestUserInput and NotifyUser: the platform opens the thread itself. On a
\* thread that has an interaction they change nothing (or raise).
Ask(t) ==
  /\ running = Nobody
  /\ ~Exists(t)
  /\ interactions' = [interactions EXCEPT ![t] = Opened(now)]
  /\ UNCHANGED <<now, suspends, ingress, queue, running, task, outcome, known, pending,
                 received, confirmed>>

\* Slack sends the next event, or again one it sent before.
Sent(e, c) == content[e] = c \/ (content[e] = Unsent /\ 1 .. e - 1 \subseteq seen)

Tick ==
  /\ now < MaxTime
  /\ now' = now + 1
  /\ UNCHANGED <<suspends, ingress, queue, running, task, outcome, known, pending,
                 interactions, received, confirmed>>

TaskStep(e) == \/ Receive(e) \/ Record(e) \/ CarryOver(e) \/ Route(e) \/ Summarize(e)
               \/ ConfirmRead(e) \/ Complete(e) \/ Click(e)

Next ==
  \/ Tick
  \/ \E t \in Threads : Ask(t)
  \/ \E e \in Events, c \in Contents : Sent(e, c) /\ Deliver(e, c)
  \/ \E e \in Events : TaskStep(e)

Spec == Init /\ [][Next]_vars

-----------------------------------------------------------------------------
(* Properties                                                               *)

\* "Completed and expired interactions are immutable and never reopened":
\* whatever tasks still hold of it, a closed interaction keeps its summary, its
\* deadline and the way it closed. (A message may still be noted on one that
\* closed since create looked.)
KeepsAllButLastMessage(t) ==
  \E m \in {interactions[t].last_message, now} :
    interactions'[t] = [interactions[t] EXCEPT !.last_message = m]
ClosedIsFinal == [][\A t \in Threads : Closed(t) => KeepsAllButLastMessage(t)]_vars

\* One interaction is confirmed once, by word, by click or by the model's
\* reading of a reply, however these race, as long as publishing does not
\* suspend: then nothing comes between a publication and its completion but
\* the clock.
OneConfirmation == ~suspends => \A t \in Threads : Len(confirmed[t]) <= 1

\* A completed interaction had its summary published as confirmed; the summary
\* it was completed with is the confirmed one, if publishing does not suspend.
CompletedAsConfirmed ==
  \A t \in Threads :
    Exists(t) /\ interactions[t].completed =>
      /\ confirmed[t] # <<>>
      /\ ~suspends => interactions[t].summary = confirmed[t][Len(confirmed[t])]

\* What is kept for the user's next thread is the final summary of a closed one.
ContextIsFinal ==
  \A u \in Users : pending[u] # NoContext =>
    /\ Closed(pending[u].thread)
    /\ interactions[pending[u].thread].summary = pending[u].summary

\* A delivery comes to nothing (acknowledged, then only logged) only if its
\* interaction closed while it was handled; a user told "confirmed" has a
\* completed one. What a delivery came to may go unsent: a confirmation, by word
\* or by click, has then been completed, or found its interaction closed; only a
\* correction may leave the user unanswered on an open one.
\* About: the awaits and sends of DevCommunicationRouter that may raise, of which
\* _dispatch only logs the error.
OutcomeIsTrue ==
  \A e \in Events :
    /\ outcome[e] \in {"lost", "closed"} => Closed(Thread(e))
    /\ outcome[e] = "unsent" => content[e].kind = "reply" \/ Closed(Thread(e))
    /\ outcome[e] = "confirmed" => interactions[Thread(e)].completed

\* However often Slack redelivers a message, it is published as received once.
ReceivedOnce == \A e \in Events : received[e] <= 1

\* "every inbound or outbound message resets" the 8-hour timer: an interaction
\* whose last message came in time expires a whole window after that message.
ExpiresOnlyInSilence ==
  \A t \in Threads :
    Exists(t) /\ derive_status(interactions[t], now) = "EXPIRED"
              /\ interactions[t].last_message <= interactions[t].expires_at =>
      now > interactions[t].last_message + InactivityWindow

=============================================================================
