----------------------------- MODULE DecisionLog -----------------------------
(***************************************************************************)
(* The orchestrator's decision log.  A workflow host takes a ticket's      *)
(* state from a query view, has WorkflowTransitionPublisher make a         *)
(* transition, which records the decision through DecisionRecorder and     *)
(* AggregateManager.mutate (load, append, save under the version guard)    *)
(* and then publishes WorkflowUpdated; with the decision recorded and      *)
(* published, the host may have one of the command emitters publish a      *)
(* command the decision calls for.  Hosts interleave at every step where   *)
(* the code reads or writes the database or awaits the bus, and every such *)
(* step may fail.  A reader assembles the project view meanwhile.          *)
(* The variable saves is a history of what was committed: the code keeps   *)
(* one row per ticket and has no record of the rows it replaced.           *)
(***************************************************************************)
EXTENDS WorkflowTable, Integers, Sequences, FiniteSets

CONSTANTS
  Hosts,              \* workflow hosts, each with at most one call under way
  Tickets,
  Stages,             \* the workflow states the hosts move tickets among
  Entry,              \* the state a host assumes of a ticket without decisions
  FirstCommitterWins, \* FALSE under READ COMMITTED, what the code gets by
                      \* asking for no isolation level: an UPDATE writes over
                      \* whatever the row has become; TRUE under REPEATABLE READ
                      \* or SERIALIZABLE, where its commit then fails
  MaxCalls,           \* bound: transitions requested
  MaxCommands         \* bound: commands published

ASSUME DecisionLogAssumption ==
  /\ Stages \subseteq STATES /\ Entry \in Stages
  /\ FirstCommitterWins \in BOOLEAN
  /\ MaxCalls \in Nat /\ MaxCommands \in Nat

VARIABLES
  row,       \* row[t]: the committed AggregateVersionRow of ticket t
  saves,     \* saves[t]: every log committed for ticket t, in the order of the commits
  host,      \* host[h]: the call host h is making, or has made last
  calls,     \* number of transitions requested so far
  updated,   \* the WorkflowUpdated events on the bus
  commands,  \* the command envelopes on the bus
  project    \* the summaries a ProjectQuery in progress has read so far

vars == <<row, saves, host, calls, updated, commands, project>>

-----------------------------------------------------------------------------
(* Data.                                                                    *)

\* A decision is told from all others by the call that made it (its reason).
Decisions == [call : 1..MaxCalls, previous : Stages, resulting : Stages]

\* Versions start at 0; an aggregate that is not stored has no decisions.
NoVersion == -1
Aggregates == {a \in [version : Int, decisions : Seq(Decisions)] :
                 a.version = Len(a.decisions) - 1}
NotStored == [version |-> NoVersion, decisions |-> << >>]

\* One commit: the log written, and the numbers of the commits whose logs the
\* writer had loaded and its SELECT had found (0: none was stored).
Saves == [log : Seq(Decisions), base : Nat, found : Nat]

\* record()'s rule: the new aggregate holds one more decision.
Appended(existing, d) ==
  [version |-> existing.version + 1, decisions |-> Append(existing.decisions, d)]

\* WorkflowContextView and TicketSummaryView over the recorded decisions.
ContextView(ds) ==
  [count |-> Len(ds), state |-> IF ds = << >> THEN "UNKNOWN" ELSE ds[Len(ds)].resulting]
SummaryView(ds) == [sequence |-> Len(ds) - 1, state |-> ContextView(ds).state]
NotRead == [sequence |-> -2, state |-> "UNKNOWN"]
ViewStates == Stages \cup {"UNKNOWN"}

CommandTypes == { "EXECUTE_CODING_JOB", "REVIEW_PULL_REQUEST", "SYNCHRONIZE_PULL_REQUEST",
                  "REQUEST_MERGE", "REQUEST_USER_INPUT", "NOTIFY_USER",
                  "CANCEL_CODING_JOB", "CANCEL_REVIEW_JOB" }

Steps == { "idle", "deciding", "loading", "saving", "committing", "publishing",
           "returned", "refused" }
NoDecision == [call |-> 0, previous |-> Entry, resulting |-> Entry]
NoView == ContextView(<< >>)

\* A host without a call: what a call held is gone when it fails.
Idle(t) == [ pc |-> "idle", ticket |-> t, view |-> NoView, decision |-> NoDecision,
             loaded |-> NotStored, seen |-> 0, selected |-> NotStored, found |-> 0 ]

TypeOK ==
  /\ row \in [Tickets -> Aggregates]
  /\ saves \in [Tickets -> Seq(Saves)]
  /\ host \in [Hosts -> [ pc : Steps, ticket : Tickets,
                          view : [count : Nat, state : ViewStates],
                          decision : Decisions \cup {NoDecision},
                          loaded : Aggregates, seen : Nat,
                          selected : Aggregates, found : Nat ]]
  /\ calls \in 0..MaxCalls
  /\ updated \subseteq Tickets \X Decisions
  /\ commands \subseteq [ command_type : CommandTypes, payload : CommandTypes,
                          cause : Tickets \X Decisions ]
  /\ project \in [Tickets -> [sequence : Int, state : ViewStates]]

Init ==
  /\ row = [t \in Tickets |-> NotStored]
  /\ saves = [t \in Tickets |-> << >>]
  /\ host \in [Hosts -> {Idle(t) : t \in Tickets}]
  /\ calls = 0
  /\ updated = {} /\ commands = {}
  /\ project = [t \in Tickets |-> NotRead]

At(h, step) == host[h].pc = step
Goes(h, step) == host' = [host EXCEPT ![h].pc = step]
Fails(h) == host' = [host EXCEPT ![h] = Idle(host[h].ticket)]

-----------------------------------------------------------------------------
(* The host's call.                                                         *)

\* WorkflowContextQuery.retrieve: a session of its own.
Retrieve(h, t) ==
  /\ host[h].pc \in {"idle", "returned", "refused"}
  /\ calls < MaxCalls
  /\ host' = [host EXCEPT ![h] = [ Idle(t) EXCEPT !.pc = "deciding",
                                     !.view = ContextView(row[t].decisions) ]]
  /\ UNCHANGED <<row, saves, calls, updated, commands, project>>

\* transition_and_publish up to the recorder: the current state is the one
\* the host was shown, and only its legality is checked.
Transition(h, target) ==
  LET current == IF host[h].view.count = 0 THEN Entry ELSE host[h].view.state
  IN /\ At(h, "deciding")
     /\ calls < MaxCalls
     /\ Legal(current, target)
     /\ calls' = calls + 1
     /\ host' = [host EXCEPT ![h] = [ @ EXCEPT !.pc = "loading",
          !.decision = [call |-> calls + 1, previous |-> current, resulting |-> target] ]]
     /\ UNCHANGED <<row, saves, updated, commands, project>>

\* AggregateManager.mutate, its load.
Load(h) ==
  /\ At(h, "loading")
  /\ host' = [host EXCEPT ![h] = [ @ EXCEPT !.pc = "saving",
       !.loaded = row[host[h].ticket], !.seen = Len(saves[host[h].ticket]) ]]
  /\ UNCHANGED <<row, saves, calls, updated, commands, project>>

\* Faults: the version is not compared, or compared with the new one.
SelectUnguarded(h) ==
  /\ At(h, "saving")
  /\ host' = [host EXCEPT ![h] = [ @ EXCEPT !.pc = "committing",
       !.selected = row[host[h].ticket], !.found = Len(saves[host[h].ticket]) ]]
  /\ UNCHANGED <<row, saves, calls, updated, commands, project>>
SelectNewVersion(h) ==
  LET stored == row[host[h].ticket]
  IN /\ At(h, "saving")
     /\ host' = [host EXCEPT ![h] = [ @ EXCEPT
          !.selected = stored, !.found = Len(saves[host[h].ticket]),
          !.pc = IF host[h].loaded.version + 1 = stored.version THEN "committing" ELSE "refused" ]]
     /\ UNCHANGED <<row, saves, calls, updated, commands, project>>

\* save(): the SELECT of its session and the version guard.
Select(h) ==
  LET stored == row[host[h].ticket]
  IN /\ At(h, "saving")
     /\ host' = [host EXCEPT ![h] = [ @ EXCEPT
          !.selected = stored, !.found = Len(saves[host[h].ticket]),
          !.pc = IF host[h].loaded.version = stored.version THEN "committing" ELSE "refused" ]]
     /\ UNCHANGED <<row, saves, calls, updated, commands, project>>

\* Fault: the table has no unique constraint on the aggregate's identity.
ConflictWithoutConstraint(h) ==
  /\ row[host[h].ticket] # host[h].selected
  /\ FirstCommitterWins /\ host[h].selected # NotStored

\* The row has changed since save() selected it, and the database says so: an
\* INSERT meets the unique constraint; an UPDATE names the row's key and not
\* its version, so that only an isolation level could refuse it.
Conflict(h) ==
  LET t == host[h].ticket
  IN /\ row[t] # host[h].selected
     /\ FirstCommitterWins \/ host[h].selected = NotStored

\* What save() writes: the appended aggregate, with the version it computes
\* from the row it selected.
Written(h) ==
  [ Appended(host[h].loaded, host[h].decision) EXCEPT
      !.version = host[h].selected.version + 1 ]
Saved(h) ==
  /\ row' = [row EXCEPT ![host[h].ticket] = Written(h)]
  /\ saves' = [saves EXCEPT ![host[h].ticket] =
       Append(@, [log |-> Written(h).decisions, base |-> host[h].seen, found |-> host[h].found])]

\* Fault: the conflict is swallowed and the host goes on to publish.
CommitSwallowing(h) ==
  /\ At(h, "committing")
  /\ Goes(h, "publishing")
  /\ IF Conflict(h) THEN UNCHANGED <<row, saves>> ELSE Saved(h)
  /\ UNCHANGED <<calls, updated, commands, project>>

Commit(h) ==
  /\ At(h, "committing")
  /\ IF Conflict(h)
     THEN Goes(h, "refused") /\ UNCHANGED <<row, saves>>
     ELSE Goes(h, "publishing") /\ Saved(h)
  /\ UNCHANGED <<calls, updated, commands, project>>

\* The connection breaks during the commit: the decision is stored, the host
\* gets an exception.
CommitUnanswered(h) ==
  /\ At(h, "committing") /\ ~Conflict(h)
  /\ Saved(h)
  /\ Fails(h)
  /\ UNCHANGED <<calls, updated, commands, project>>

\* The publisher's await of the bus.
Publish(h) ==
  /\ At(h, "publishing")
  /\ updated' = updated \cup {<<host[h].ticket, host[h].decision>>}
  /\ host' = [host EXCEPT ![h] = [ Idle(host[h].ticket) EXCEPT !.pc = "returned",
                                     !.decision = host[h].decision ]]
  /\ UNCHANGED <<row, saves, calls, commands, project>>

\* A database or bus error, an illegal target, or the death of the host.
Fail(h) ==
  /\ host[h].pc \notin {"idle", "returned", "refused"}
  /\ Fails(h)
  /\ UNCHANGED <<row, saves, calls, updated, commands, project>>

-----------------------------------------------------------------------------
(* The command emitters.  Each checks the payload's class first, and then   *)
(* publishes one envelope; neither error leaves anything on the bus.         *)

Emit(h, command_type, payload) ==
  /\ At(h, "returned") /\ Cardinality(commands) < MaxCommands
  /\ IF payload = command_type
     THEN \/ /\ commands' = commands \cup
                  {[ command_type |-> command_type, payload |-> payload,
                     cause |-> <<host[h].ticket, host[h].decision>> ]}
             /\ UNCHANGED host
          \/ Fails(h) /\ UNCHANGED commands
     ELSE Fails(h) /\ UNCHANGED commands
  /\ UNCHANGED <<row, saves, calls, updated, project>>

ExecuteCodingJobEmitter(h, payload)       == Emit(h, "EXECUTE_CODING_JOB", payload)
ReviewPullRequestEmitter(h, payload)      == Emit(h, "REVIEW_PULL_REQUEST", payload)
SynchronizePullRequestEmitter(h, payload) == Emit(h, "SYNCHRONIZE_PULL_REQUEST", payload)
RequestMergeEmitter(h, payload)           == Emit(h, "REQUEST_MERGE", payload)
RequestUserInputEmitter(h, payload)       == Emit(h, "REQUEST_USER_INPUT", payload)
NotifyUserEmitter(h, payload)             == Emit(h, "NOTIFY_USER", payload)
CancelCodingJobEmitter(h, payload)        == Emit(h, "CANCEL_CODING_JOB", payload)
CancelReviewJobEmitter(h, payload)        == Emit(h, "CANCEL_REVIEW_JOB", payload)

-----------------------------------------------------------------------------
(* The project view: one summary after another, each in its own session.    *)

Summarize(t) ==
  /\ project[t] = NotRead
  /\ project' = [project EXCEPT ![t] = SummaryView(row[t].decisions)]
  /\ UNCHANGED <<row, saves, host, calls, updated, commands>>

ProjectRead ==
  /\ \A t \in Tickets : project[t] # NotRead
  /\ project' = [t \in Tickets |-> NotRead]
  /\ UNCHANGED <<row, saves, host, calls, updated, commands>>

HostNext(h) ==
  \/ \E t \in Tickets : Retrieve(h, t)
  \/ \E target \in Stages : Transition(h, target)
  \/ Load(h)
  \/ Select(h)
  \/ Commit(h)
  \/ CommitUnanswered(h)
  \/ Publish(h)
  \/ Fail(h)
  \/ \E payload \in CommandTypes :
       \/ ExecuteCodingJobEmitter(h, payload)
       \/ ReviewPullRequestEmitter(h, payload)
       \/ SynchronizePullRequestEmitter(h, payload)
       \/ RequestMergeEmitter(h, payload)
       \/ RequestUserInputEmitter(h, payload)
       \/ NotifyUserEmitter(h, payload)
       \/ CancelCodingJobEmitter(h, payload)
       \/ CancelReviewJobEmitter(h, payload)

Next ==
  \/ \E h \in Hosts : HostNext(h)
  \/ \E t \in Tickets : Summarize(t)
  \/ ProjectRead

Spec == Init /\ [][Next]_vars

-----------------------------------------------------------------------------
(* Properties.                                                              *)

\* The log of ticket t after its i-th commit.
LogAt(t, i) == IF i = 0 THEN << >> ELSE saves[t][i].log

\* A writer that had loaded an older log of t than the i-th wrote over it.  The
\* code lets that happen in one way only, which the check of the version
\* cannot see: the writer's SELECT found as many decisions as it had loaded.
Overtaken(t, i) ==
  /\ ~FirstCommitterWins
  /\ \E k \in i+1..Len(saves[t]) :
       /\ 0 < saves[t][k].base /\ saves[t][k].base < i
       /\ Len(LogAt(t, saves[t][k].found)) = Len(LogAt(t, saves[t][k].base))

\* Where a decision stands in a log, and which commits put it at the end of one.
Positions(ds, d) == {i \in DOMAIN ds : ds[i] = d}
CommitsOf(t, d) == {i \in DOMAIN saves[t] : Len(LogAt(t, i)) \in Positions(LogAt(t, i), d)}

\* What a host is answered about its transition is true for as long as it
\* keeps the answer.  A decision that it was told is recorded (or that it is
\* publishing) was committed once, and it is in the log exactly once or a
\* writer with an equal version has overtaken that commit; it is lost in no
\* other way.  A refused decision has never been in the log.
AnswersAreTrue ==
  \A h \in Hosts :
    LET t == host[h].ticket
        d == host[h].decision
        ds == row[t].decisions
    IN /\ host[h].pc \in {"publishing", "returned"} =>
            \E i \in DOMAIN saves[t] :
              /\ CommitsOf(t, d) = {i}
              /\ \/ \E p \in DOMAIN ds : Positions(ds, d) = {p}
                 \/ Positions(ds, d) = {} /\ Overtaken(t, i)
       /\ At(h, "refused") => \A i \in DOMAIN saves[t] : Positions(LogAt(t, i), d) = {}

\* A host is refused only because another one got ahead of it: since it
\* loaded the aggregate somebody has committed, so somebody makes progress.
RefusedOnlyIfOvertaken ==
  \A h \in Hosts : At(h, "refused") => Len(saves[host[h].ticket]) > host[h].seen

\* A view is never more than late, unless its log was overtaken: what a host
\* or a project view was shown was the ticket's log at some commit, and it
\* remains a true statement about a prefix of the log until a writer with an
\* equal version writes over that commit.
ViewsStayTrue ==
  LET TrueOf(ds, count, state) == count \in 1..Len(ds) /\ ds[count].resulting = state
      Stays(t, count, state) ==
        count = 0 \/ \E i \in DOMAIN saves[t] :
          /\ Len(LogAt(t, i)) = count /\ TrueOf(LogAt(t, i), count, state)
          /\ TrueOf(row[t].decisions, count, state) \/ Overtaken(t, i)
  IN /\ \A h \in Hosts :
          ~At(h, "idle") => Stays(host[h].ticket, host[h].view.count, host[h].view.state)
     /\ \A t \in Tickets :
          project[t] # NotRead => Stays(t, project[t].sequence + 1, project[t].state)

\* Every commit puts one decision at the end of the ticket's log, of the
\* latest one where the first committer wins and otherwise of one it once
\* had, and every event and command on the bus rests on a decision that was
\* committed.
Log == INSTANCE TicketLog
         WITH Overwrites <- ~FirstCommitterWins,
              logs <- [t \in Tickets |-> [i \in DOMAIN saves[t] |-> saves[t][i].log]],
              told <- updated \cup {c.cause : c \in commands}
ImplementsLog == Log!Spec

=============================================================================
