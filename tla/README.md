# A formal model of the software factory platform

TLA+ modules about the parts of the platform in which order, failure or
interleaving decide whether it is right, with the TLC configurations that check
them on small instances and TLAPS proofs of what holds for all of them.
`PROJECT.json` is the index: components, runs, the lines each definition models,
findings, hazards and theorems.

## 1. The system

The factory turns a ticket into merged and deployed work. Four services and two
packages carry its logic; the rest is data models, configuration and tools.

| Component | State it keeps | Operations | Talks to |
|---|---|---|---|
| Orchestrator: ticket state machine (`domain/workflow/`) | none: pure functions from a state and facts to a state and a `WorkflowDecision` | nine stage drivers, `transition`, six policies, `evaluate`, `evaluate_policy_set` | a caller that observes facts (not in the repository) |
| Orchestrator: admission scheduler (`domain/scheduler.py`, `infrastructure/dispatch/`) | `_in_flight`, a FIFO queue, a sequence counter | `submit`, `dispatch_admitted` (awaits the dispatcher), `on_complete` | dispatchers: local, AWS Batch (raises) |
| Orchestrator: decision log (`aggregate_manager`, `aggregate_repository`, `decision_recorder`) | versioned aggregates in a table | `load`, `save` under an expected version, `mutate`, `record`; query views | the database; `transition_and_publish` records, then publishes |
| Orchestrator: command emitters, agent hosts | none (`context_resolver_host` caches contexts) | build an envelope and publish it; run an agent and answer with its result | bus, agents |
| Workspace worker: ticket pipeline (`entrypoints/ticket_pipeline.py`) | checkpoints `plan.json`, `design.json`, `code.json`; a run's memory | `run_pipeline`: its stages, from readiness to Jira, clean or `--resume` | clone, worktree, agents, gates, GitHub, Jira |
| Workspace worker: repository manager, worktrees (`repo/`) | a clone shared by all tickets, a worktree and branch per ticket | `clone`, `add`, `sync_base`, `push` | git |
| Workspace worker: GitHub adapter, Jira client | none of their own | pull requests, reviews, merge; transitions | GitHub, Jira |
| Workspace worker: agent runtime (`agent_runtime/`) | streams and timers of one model call | run with retries and watchdogs | model API; agents, readiness gate and enrichment call it |
| Build order and frontier (`sfp_contracts/planning`, `tools/build_order.py`, `workflow/frontier.py`, `readiness_rubric.py`) | `docs/build_order.json`; recursion and walk of one call | `check_dangling`, `compute_waves`, `compute_ready`, `emit_json`; `compute_at_frontier`, the rubric | the file is all they share; the gate asks the frontier |
| Tools: Jira creator, link reconciler (`tools/`) | `.jira_creation_state.json`; the links read in a run | create epics, tasks and links; repair links | Jira |
| Communication: interactions, confirmation gate (`services/communication`) | `user_interactions` rows, status derived from the clock | `create`, `update_summary`, `complete`, `handle`, `confirm_interaction`, `summarize` | bus, model, Slack |
| External events: ingress, router (`services/external-events`) | `_seen` keys, background tasks, `_known_references`, `_pending_context`; endpoint cache | acknowledge a webhook, dispatch later, route a message or a click | bus, communication |
| Messaging package | registry, recorded messages | `publish` runs the handler inside the publisher's await | all services |
| Contracts and configuration; identity; other tools | immutable models; tables; none | validation; one-shot scripts | |

How they interact: Slack deliveries enter through the webhook, are acknowledged
and dispatched on the bus, and end at the interaction of their thread; confirmed
input and other facts reach the orchestrator, whose drivers and policies move
the ticket and emit commands; the scheduler admits execution commands to the
dispatchers; the worker's pipeline executes a ticket against git, GitHub and
Jira. The process that would host the orchestrator's drivers, scheduler and log
does not exist yet: its pieces are called by tests only, so the models let the
caller do anything the functions accept.

What is hard, and what must hold:

* Drivers and policies take facts late, repeated or out of place. Finished
  tickets must stay finished, unreviewed work must not merge, unmerged work must
  not deploy, and no call may leave the transition table.
* Dispatches are awaited and may raise while submissions and completions go on.
  Slots must be accounted for, the queue must be FIFO, nobody may overtake it.
* A pipeline run dies anywhere, mid-write and between merge and Jira included,
  is resumed from checkpoints, shares its clone, and races with people who push
  and review. What is pushed must be what the gates saw, only gated and approved
  work may land, Done must mean merged, and resuming must get there.
* Slack redelivers; each delivery is a background task; the clock closes
  interactions between any two steps; a bus may suspend its publishers. Closed
  interactions must be final, confirmations single and of the summary the row
  keeps, messages recorded once and lost only where nobody could handle them.
* Hosts record decisions in sessions of several statements, over a database
  whose isolation the repository leaves open, and publish after the commit.
  Nothing may be recorded twice by one call, nothing unrecorded published, what is
  recorded must not be lost where it can be helped, and a host that is refused must
  have been overtaken.
* A model stream ends, raises, falls silent or answers nonsense. Eight callers
  depend on it: none may answer positively without an answer, no two agents may
  work in one worktree, and every call must end.
* The webhook caches its configuration and secrets while operators edit them,
  providers redeliver, and the process restarts. Verdicts must rest on something
  that was in force; a 200 must not be a lie; duplicates must be explained.
* The backlog tools call a Jira that fails, or answers into the void, and are
  killed between a creation and its record. Their state file must stay true, and
  reconciling must arrive at one right link per dependency.
* The dependency graph comes from a document people write. Whatever it holds,
  the order must be right or refused, something must always be ready, and the
  frontier must be exactly what lies downstream of a manual ticket.

`PROJECT.json` lists each hazard at its line with the property that covers it,
or why none does.

## 2. Modules

| Module | Models | Extends / instantiates |
|---|---|---|
| `WorkflowTable` | `states.py`, the transition table, its guard | |
| `TicketLifecycle` | abstract: one ticket moves along edges of the table | `WorkflowTable` |
| `TicketWorkflow` | nine drivers, six policies, the engine, for one ticket | `WorkflowTable`; implements `TicketLifecycle` |
| `AdmissionScheduler` | scheduler, awaited dispatcher, its caller | |
| `TicketPipeline` | runs of one ticket, with clone, GitHub, Jira and other people | |
| `Interaction` | one row of `user_interactions` | |
| `Conversation` | ingress, router, confirmation gate over `Interaction` | `Interaction` |
| `TicketLog` | abstract: a ticket's successive logs, each an earlier one and one decision more, and what others are told of them | |
| `DecisionLog` | hosts, recorder, aggregates, emitters, query views | `WorkflowTable`; implements `TicketLog` |
| `AgentRun` | one agent run: a caller, a runtime, its streams and retries | |
| `Ingress` | webhook, resolver, secrets, publishers, challenge echo | |
| `Backlog` | Jira creator, link reconciler, Jira, people | |
| `BuildOrder` | ordering of a document, its file, the frontier's walk, the rubric | |
| `MC*` | constants and symmetry for TLC | the module they are named after |
| `TicketTools_proofs` | theorems about the tools that look after tickets | `BuildOrder`, `Backlog`, TLAPS |
| other `*_proofs` | theorems | the module they are named after, TLAPS |

Operators named `...Unchecked`, `...Stale`, `...Again` and the like, marked
"Fault:", are faulty variants of the definition that follows them. Each property
is known to fail when the definition is replaced by its variant (`mutants`), so
none holds for want of a behaviour that could break it. They are in no
specification. `Backlog` prefixes the names it would share with `BuildOrder`
(`BacklogInit`, `BacklogSpec`), so that one module can extend both.

### TicketWorkflow

A driver is pure: it reads the state and a few facts, and either holds or asks
`transition` for a target. `Drive`, `Hold` and `Transition` are those outcomes;
`raised` remembers who raised `IllegalTransitionError`. A fact is the set of
conditions its reader tests (a review is a set of statuses, because the reader
scans a list). Every driver and every policy is enabled in every state. The
tier is chosen at the start and carried along, as it is on the PR spec. The
history variables (`reviewed`, `resumed`, `merged`, `answered`) are
read by properties only and are reset when coding starts again.

`evaluate_policy_set` takes the first policy that asks for a transition; when
all decline, its outcome has no command, even if one of them wanted to ask the
user: the model keeps that.

### AdmissionScheduler

`stage` is where a command is: refused (`queued`), being dispatched (the
`await`), running, failed (the dispatcher raised out of `dispatch_admitted`,
slot taken), done, or `admitted` (popped by `on_complete`, its envelope still
with the caller). The caller is external. `ReportsSignals` says whether it also
reports completions of commands that hold no slot.

### TicketPipeline

Disk and GitHub outlive a run; `run` is its memory. A head is how many base
commits it contains and which commits of its own, which is what fast-forward,
`rev-list` and squash tell apart. Stages are actions; an agent or a gate is a
choice of outcome; `Abort` is every early return whose cause is outside.

The gates read the worktree's files, the push uploads commits. `uncommitted` says
that the worktree holds files no commit has: a coder may leave some when it ends or
is killed (`CoderLeavesFiles`), a later coder run may commit or drop them, a lost or
remade worktree takes them along. `history.gated` holds what the gates saw (`Trees`:
a head, with such files or without), and `Gated` reads it: a head was green itself,
or, if the coder leaves files, with uncommitted ones beside it.

A checkpoint's write may be cut between characters (`corrupt`: no JSON, so it counts
as absent and is deleted) or inside a multi-byte one (`undecodable`: the text is
written as UTF-8 without escapes, and `_load_checkpoint` does not catch
`UnicodeDecodeError`). The pass at the entry of a resumed run deletes either kind of
`plan.json` and `design.json`; it does not read `code.json`, so an undecodable one
ends every resumed run in `Code`.

Around a run: `Crash` (maybe during a checkpoint write), `BaseMoves`,
`OtherTicketClones` (refresh, or deletion and re-clone, of the shared clone),
`WorktreeHollowed`, `OtherReview`, `OtherPush`. Concurrent runs of one ticket
are not modelled: nothing locks a ticket, but `run-ticket.sh` starts one.

### Interaction and Conversation

A row is its summary (how many times it was written), its last message, its
deadline and whether it is completed; the status is derived from row and clock.
A delivery is a task of one event loop. A task gives the loop up only where it
awaits a publication, and only over a bus that suspends there (`suspends`):
`Await` is the in-memory transport, whose handler runs inside the await, or
another transport of the `MessageBus` protocol. The clock may go on at any point
of a task, since database and model calls block. The steps of a task are cut
where it publishes or calls the model: `Receive` (router, `create`), `Record`,
`CarryOver`, `Route` (`ConfirmFlow.handle` on its snapshot), `Summarize` (after
the model's run), `ConfirmRead` (the model read a confirmation into a reply),
`Complete`, and `Click`. `outcome` is how the task ended; `lost` is an exception
that `_dispatch` logs, and `unsent` one that is raised by the last thing a task does,
telling the user in Slack what it came to (`Tell`): `_deliver_summary` lets a
`ProviderError` through, `_notify` and `_deliver_summary` any exception that the Slack
client does not turn into one. Messages from bots and other bodies the router drops, and
clicks without the accept action, change nothing here and are left out.

### DecisionLog

`row[t]` is the committed aggregate of a ticket, `host[h]` a host's call with all
it holds: the view it was shown, the aggregate it loaded, the row `save()` has
selected. The steps of a call are cut where the code reads, writes or awaits:
`Retrieve` (the query view, in a session of its own), `Transition` (legality
only), `Load`, `Select` (`save()`'s SELECT and its version guard), `Commit`,
`CommitUnanswered` (stored, but the host gets an exception), `Conflict`
(the database refuses), `Publish`, `Emit`, and `Fail` anywhere. `Emit` refuses a
payload of another emitter's class. `SummaryView`s are collected by a project query
ticket by ticket.

`FirstCommitterWins` is the isolation level. The guard reads and writes in separate
statements, without a lock and without the version in the UPDATE's condition, and
nothing sets an isolation level: the code gets the database's default, READ COMMITTED
in PostgreSQL, where an UPDATE writes over whatever the row has become. That is
`FALSE`, and what the run uses. With `TRUE` the database fails the commit of an UPDATE
of a row that has changed. An INSERT meets the unique constraint at either level.

`saves[t]` is history: every log that was committed for the ticket, with the commits
that its writer had loaded (`base`) and selected (`found`). The code keeps one row and
cannot tell. `Overtaken(t, i)` reads it: a writer with an older log than the i-th wrote
later, which can only happen when its SELECT found as many decisions as it had loaded.
The properties allow a decision or a view to be lost in this one way and in no other;
where the first committer wins `Overtaken` is false and nothing is lost. The
refinement maps the history to the abstract `logs` and the bus to what is told.

### AgentRun

`caller` is one of eight, `runtime` one of two. In Claude's runtime `pc` goes from
the run to its stream, whose events carry messages reduced to what the code tells
apart of them (error flag, status class, text, structured output); the stream may
end, raise or trip a watchdog at each event (`waiting`), is closed, inspected, and
retried up to `MaxRetries` times. The GLM runtime reprompts once. `open` counts
agent processes that may still be working in the worktree: it is what a cancelled
stream leaves behind until its generator has ended. Each caller then judges the
outcome by its own contract. Waiting times are left out: a watchdog may trip
whenever it runs.

### Ingress

A request is `reading` until its body has come in, then decided in one step
(`Configured`, secret, strategy, window), and `publishing` while its publication is
awaited; `at` is in the end its answer. `cache` and `loaded` are the resolver's and
the secret provider's memories. `pastRows` and `pastKeys` are history: what has
been in force since the process started. `publisher` is chosen once: inline
(publish, then answer) or acknowledging (remember the delivery, answer, dispatch
later). A restart forgets caches, `seen`, and dispatches that were not made.

### Backlog

Both tools are sequential, and each keeps what it has yet to look at in `agenda`. A
creation and `Save` are two steps; a mishap is a failed call, one that took effect
unheard, a kill (`KilledSaving` leaves the file torn), an unreadable record or an
edit by people. `tries` counts `api_retry`'s attempts. The reconciler's `cache`
holds the links it has read in this run; `Omit` is what its generator of edges
leaves out, edge by edge. `since` is history: how many mishaps there had been when
the reconciler started, so that `Calm` says this run has met none. The hierarchy is
constant: parsing the document supplies it, each dependency once and no two tickets
blocking each other (see the finding on dependencies listed twice).

### BuildOrder

`memo` and `stack` are `compute_waves`' own; `NextTicket`, `Descend`, `Return` and
`Cycle` are the loop, the recursive call, its return and the exception. The order
in which a ticket's dependencies are visited is left open, which covers any order.
`file` is torn between `Open` and `Written`, when the gate may read it. The gate's
walk keeps `todo` and `visited` as the code does, its stack as a set: the order in
which it is popped does not matter, and what is on it twice is skipped. The
offset map is the choice of `Unknown`: the ticket or the map is not there.

## 3. What is checked

`tlc -config X.cfg M`; run names and modules are in `PROJECT.json`.

| Run | Instance | Shows |
|---|---|---|
| `TicketWorkflow` | two tiers (one human); each policy's facts alone and, for failures, with a review; two policy orders | `ReviewedUnlessResumed`, `DeployedOnlyMergedOrAnswered`, `TerminalIsFinal`, implementation of `TicketLifecycle` |
| `AdmissionScheduler` | 2 slots, 4 executions, 1 signal | types, slot accounting, capacity, no idle slot, no overtaking; under fairness `RefusedCommandsRun` |
| `TicketPipeline` | clean and resumed runs, 1 foreign base commit, 2 branch commits, 1 mishap, files left uncommitted, everything around a run (2,336,390 states) | types (a re-clone takes the worktree along), `MergedWasGatedAndApproved`, `PushedWasGated` |
| `PipelineResume` | resumed runs only, 4 mishaps, files left uncommitted, nobody else (16,166 states) | `OnePlanThroughout`, `LandsOneWork`; under fairness `ResumingFinishes` |
| `PipelineHead` | other people push | violation: `MergesApprovedHead` |
| `Conversation` | 2 threads, 1 user, 3 deliveries (redelivered at will), 2 ticks, window of 1, both kinds of bus, sends that raise; threads symmetric (2,816,755 states) | `OneConfirmation`, `CompletedAsConfirmed`, `ContextIsFinal`, `OutcomeIsTrue`, `ReceivedOnce`, `ClosedIsFinal` |
| `ConversationTimer` | same, in-memory bus | violation: `ExpiresOnlyInSilence` |
| `DecisionLog` | 2 hosts, 2 tickets (both symmetric), 3 calls, 1 command, READ COMMITTED (381,513 states) | `AnswersAreTrue`, `RefusedOnlyIfOvertaken`, `ViewsStayTrue`, implementation of `TicketLog` |
| `AgentRun` | 3 retries, 2 events a stream, 2 iterations of enrichment, a cancelled generator ends | `FailClosed`, `AloneInWorktree`; under fairness `EveryCallEnds` |
| `Ingress` | 1 endpoint with 4 rows, 1 secret reference, 2 keys (symmetric), 1 body, 2 requests, 1 edit, 1 restart, 1 tick, window 0, both publishers | `VerdictsAreJustified`, `AcknowledgedIsKept`, `DuplicatesTakeARestart` |
| `Backlog` | 1 epic, 3 tickets, 2 dependencies, 2 creator runs, 2 attempts, 2 mishaps, any number of reconciler runs | `StateFileIsTrue`, `ReconcilerIsRight`, `RepairsOnlyWhatIsWrong`; under fairness `LinksConverge` |
| `BuildOrder` | every graph of up to 3 tickets, every file | `OrderIsRight`, `SomethingIsReady`, `FrontierIsExact`; under fairness `EveryRunEnds` |

A module's type invariant is run where no theorem states it, or where it says more
than types; elsewhere the theorem `TypeCorrect` (`BacklogTypeCorrect`) stands for it.

### Violations: where the code does not do what the repository says

With a run:

* **A head nobody approved is merged** (`PipelineHead`). `ticket_pipeline.py:1280-1285`
  says the current head is judged; the head judged is the one learned when the pull
  request was opened, and the merge sends no sha.
* **Messages do not move the deadline** (`ConversationTimer`).
  `user_interaction.py:36-37` says every message resets it; the inbound path sets
  `last_message_*` only, the outbound path nothing, and `record_message`, which
  moves it, has no caller.

Met while modelling, in the models, and reached by TLC when asked; no run is kept
for them:

* **A wait ends without the user.** `transitions.py:1156-1158` says only the user's
  decision ends it. The table gives `WAITING_FOR_USER` an edge to every stage and
  the drivers look at their fact, so a plan that arrives moves a parked ticket on.
* **The merge is requested before approval.** `user_approval.py:5-7` says human
  tiers are approved before the merge proceeds; `MergeReadyPolicy` emits
  `RequestMerge` on entry to `MERGING`, where approval is asked for.
* **A signal's completion takes a slot** (`ReportsSignals = TRUE`).
  `scheduler.py:208-211` says it releases nothing; with a waiting command it pops
  the head and takes a slot nobody freed.
* **A code checkpoint without code.** `ticket_pipeline.py:1108-1111` says a coder
  that commits nothing leaves none. After `sync_base` fast-forwarded the empty
  branch past the clone's local base, the base's commits count as the coder's.
* **The tree that is pushed is not the tree that was gated.**
  `ticket_pipeline.py:1186-1189` says the tree pushed is the one the gates just
  verified, and 1137-1139 that it is byte-identical. The gates see uncommitted and
  untracked files too; the push uploads commits and nothing looks at the difference.
  Asked for a gated tree without uncommitted files, TLC refutes `PushedWasGated`. Only the coder's prompt (`coder/implement.md:10`) asks
  for a commit.
* **A torn checkpoint ends every resumed run.** `_load_checkpoint` says (223-229) that a
  corrupt file is deleted so that its stage runs again. A `code.json` cut inside a
  multi-byte character raises `UnicodeDecodeError`, which 232-233 do not catch, out of
  this run and every later one; `ResumingFinishes` names that case.
* **A summary nobody has seen is confirmed.** `update_summary` commits, then
  `_deliver_summary` fails to show the text (`unsent`); the next yes confirms it.
* **A decision is lost** (`FirstCommitterWins = FALSE`, `Overtaken`). Two hosts that
  select version n both commit n+1, and the first one's decision is gone although it
  was told that it is recorded.
* **The watchdog hangs** (`CleanupEnds = FALSE`). `runtime.py:451-452` says it cannot;
  `wait_for` waits for the cancelled `__anext__`, whose cleanup is not bounded.
* **A hard rejection is retried.** `runtime.py:28-29` says those fail at once; a
  message with an error and an empty result counts as transient (513-515).
* **A task without its epic.** A task whose epic failed is created without a parent
  and never again (`create_jira_tickets.py:518-523`).
* **An unreadable record counts as no link.** `reconcile_dep_links.py:13-17` says a
  failed read is never mistaken for a missing link; a link whose own record cannot be
  read is left out of its issue's links and may be created again. The next run removes the duplicate.
* **A dependency that is listed twice never settles.** `reconcile_dep_links.py:11`
  says that re-running reports zero changes once Jira matches the document. The
  hierarchy's parser keeps a dependency that a ticket lists twice
  (`create_jira_tickets.py:235`), and both are judged by one reading of the issue's
  links: a run that finds none creates two, the next one deletes both, twice, and
  creates two again. The repository's document lists none of its 232 dependencies
  twice, and `BacklogAssumption` says so; without it TLC refutes `ReconcilerIsRight`.
* **A file-system hiccup raises.** `frontier.py:252-254` says it never does; a file
  cut inside a character raises `UnicodeDecodeError`, which is not caught (`Raise`).

### Bounds, and why they are enough

* `TicketWorkflow` has no bound: the state is finite. Facts of several policies
  at once matter only where two policies of a set both have an opinion; those
  combinations are in `MCFactSets`. The theorems hold for all of `FactSpace`.
* `AdmissionScheduler`: two commands must be able to wait while two run, for
  FIFO and overtaking to mean something; each command is submitted once.
* `TicketPipeline`: `MaxCommits` bounds commits ever made on the branch: two are
  the least for work that others, or a second coder run, change. `MaxBase`
  bounds foreign base commits; one makes every comparison with the base differ
  (merges of the ticket add more). `MaxMishaps` bounds interruptions, failing
  gates and refusals, *not* the number of runs. `TicketPipeline` takes one, with all
  that goes on around a run; the same configuration with two, a failure and a failure of
  its recovery, has 17,102,617 states and passes too, but takes many minutes. With a
  coder that commits all it leaves, two mishaps have 2,422,758 states and pass.
  `PipelineResume` affords
  four by leaving other people out.
* `Conversation`: three deliveries are the least for one to close an
  interaction, one to be told so and one to carry the context over; two threads
  are the least for carrying over. Two ticks with a window of one let the clock
  close an interaction opened at the start anywhere inside a task; one opened by
  a tick later stays open, so both sides of every check are reached. Threads are
  interchangeable, so symmetry is sound (no liveness is checked there).

* `DecisionLog`: two hosts are the least that can overtake each other; three calls
  let a third decision follow a race of two; two tickets tell a ticket's log from
  another's. One command shows that emitting needs a recorded cause. Overtaken commits
  are reached. Two variants pass as well: the first committer wins (366,953 states), and
  four calls on one ticket without commands (99,149), where a SELECT finds another log
  of the same length as the one that was loaded.
* `AgentRun`: three retries are the default, two events the least for a stream
  whose last message differs from an earlier one, two iterations (the code's
  constant) for enrichment to reject and try again.
* `Ingress`: two requests for one body are a redelivery, overlapping or not; one
  edit and one restart in between make caches stale and forget them. A window of 0
  with one tick puts both sides of the age check in reach.
* `Backlog`: three tickets and two dependencies give an issue with links to two
  others; two mishaps are a failure and a failure of its repair; reconciler runs
  are not bounded, as convergence is about repeating them.
* `BuildOrder`: graphs of three tickets have shared dependencies (a memo hit, a
  visited ticket), chains, cycles of one to three, tails into cycles, and
  dependencies that are not listed. The theorems hold for any number.

Deadlock is not checked where the system may rightly stop: all commands done,
bounds of the pipeline used up, no deliveries, calls, requests or creator runs left.

### Fairness

`AdmissionScheduler!Fairness`: each dispatcher answers or raises, each running
command ends and is reported, and the caller dispatches an admitted head; nobody
need submit anything. That is the event loop's progress and the caller's duty by
`on_complete`'s documentation; no fairness is assumed that a dispatch succeeds,
hence the escape clause of `RefusedCommandsRun`.
`TicketPipeline!Fairness`: a started run takes its next stage and the operator
runs the ticket again while it is not Done. Mishaps are not fair but bounded, so
`ResumingFinishes` says that a ticket interrupted finitely often is done in the
end, unless an undecodable `code.json` stays behind (against the code's own words, see
above). It is claimed for plans of one spec and for worktrees that keep their files;
otherwise the run needs an operator by design.
`AgentRun!FairSpec`: the event loop goes on with the run (the model may fall silent
for ever, but then a watchdog's timer fires) and with the caller's code after it.
`Backlog!Fairness`: a started tool takes its next step, and the reconciler is started
again and again, as its documentation asks; mishaps are bounded, so `LinksConverge`
is about the time after the last one. `BuildOrder!FairSpec`: both programs are
sequential code, which runs on.

## 4. What is proved

TLAPS proves, for every value of the constants under the modules' assumptions
(finitely many execution commands apart from signals, at least one slot, bounds
that are natural numbers, human tiers among the tiers, an absent or torn file that is
no graph, at least one webhook body, dependencies listed once and never both ways):

| Module | Theorems |
|---|---|
| `TicketWorkflow_proofs` | `TypeCorrect`, `ReviewBeforeMerge`, `MergeBeforeDeploy`, `FinishedStays`, `PoliciesStay`, `Implements` |
| `AdmissionScheduler_proofs` | `Invariance`, `TypeCorrect`, `SlotsStayAccounted`, `CapacityIsRespected`, `NoIdleSlot`, `QueueStaysFifo`, `Overtaking`; all if only execution completions are reported |
| `TicketPipeline_proofs` | `Invariance`, `TypeCorrect`, `LandsGatedAndApproved`, `PushesGated`, `DoneAfterMerge`; if every run is resumed `ResumedInvariance`, `OnePlan`, `OneWorkLands` |
| `Conversation_proofs` | `TypeCorrect`, `ClosedInteractionsAreFinal`, `OutcomesAreTrue`, `KeptContextIsFinal`, `OneConfirmationEach`, `CompletedWereConfirmed`, `MessagesReceivedOnce` |
| `DecisionLog_proofs` | `Invariance`, `TypeCorrect`, `AnswersStayTrue`, `SomebodyGotAhead`, `ViewsAreOnlyLate`, `HostsImplementTheLog`; at either isolation level |
| `AgentRun_proofs` | `Invariance`, `TypeCorrect`, `NothingFailsOpen`, `OneAgentAtATime` |
| `Ingress_proofs` | `Invariance`, `TypeCorrect`, `AcknowledgedKept`, `DuplicatesBounded`, `AnswersJustified` |
| `TicketTools_proofs`, of `BuildOrder` | `Invariance`, `TypeCorrect`, `OrdersRightly`, `NeverStuck`, `FrontierExact` |
| `TicketTools_proofs`, of `Backlog` | `BacklogInvariance`, `BacklogTypeCorrect`, `StateFileStaysTrue`, `SweepInvariance`, `ReconcilesRightly`, `RightLinksUntouched`, `NothingToRepair` |

**TicketWorkflow.** `CallShape`: every driver, policy and engine call either holds
or makes one transition whose target its facts allow (`Requested`). After that no
proof looks at drivers again: the history invariants are inductive with `TypeOK`
(`MergeStageEdges`: the merge stages are entered from review or a wait only), and
refinement is one step to one step.

**AdmissionScheduler.** The counter alone is not inductive: that the head a
completion pops holds no slot already needs the queue to hold exactly the refused
commands, once each. `Inv` joins the counter, the bound and the FIFO property.

**TicketPipeline.** `StageInv` says what each stage relies on: at `push` the branch
has been gated, at `list` and `merge` a head without foreign commits has been
approved, at `jira` something has landed. A gated head stays gated whatever becomes of
the worktree, since `Gated` is about what the gates saw. `QuietStep` and `SidelongStep` dispose of
the steps that touch neither GitHub nor history; the rest are one case each.

For resumed runs two more invariants join it. `PlanInv`: no checkpoint is of an
earlier plan, and a code checkpoint is there only with the plan it was made for; past
the plan stage that plan is current, so `OnePlanThroughout` needs no more.
`LandsOneWork` counts commits, its own and those that others pushed. `WorkInv` says
whose the commits of each head are (`WhoseInv`), that work once pushed is kept where
the next run looks for it (`KeepInv`: a worktree is not remade after a push, and
code.json stays behind, so a ticket whose work has landed is not coded again), and
what has landed (`LandedInv`). The case that needs it most: once somebody else's
commit is on GitHub, no push of the pipeline is a fast-forward any more.

**Conversation.** `Started`: a queued or running task's event is known and, between
its steps, so is its interaction. With it, `RowSteps` lists all that ever happens
to a row, from which finality, truthful outcomes and kept contexts follow over any
bus; that a task may fail to send its last message adds one outcome to its last step and
no step. `Alone` (only if the bus does not suspend) says that one task at a time is
between its first step and its last, that its row is as it last saw it, and that a
confirmed summary means a closed row or a task about to complete it. `Published`
carries the half of `CompletedAsConfirmed` that needs no such bus. `Once` adds that
the queue has no delivery twice and that what is queued has not been recorded.

Over a bus that suspends, `OneConfirmation` and the summary half of
`CompletedAsConfirmed` are not claimed: two tasks may both publish before either
completes, and a correction may slip between a publication and its completion.
The in-memory transport, the only one there is, rules that out.

**DecisionLog.** The row alone is not enough: without isolation a stored version says
nothing about which log is stored. The invariant is about the ticket's history of logs
(`HistoryInv`). `Rooted`: each was written by somebody who had loaded an earlier one and
found as many decisions when selecting, and appended one. `Kept`: a log once written
begins every later one, or was overtaken. `Distinct`: no decision was committed twice,
which needs that every decision carries its call's number and that no two hosts share
one. `CommitFits` is where the database comes in: a commit that `Conflict` lets through
has loaded something if anything is stored (the unique constraint), and the latest log
if the first committer wins. `GrownHistory` shows that a commit which fits leads from
one good history to another; what hosts and views hold then stays a statement about the
log at some commit. Refinement is one step to one step or a stutter.

**AgentRun.** `AttemptsLeft`, `AgentWorks`, `ResultStands` and `AnswerStands` say, place
by place, how many attempts there were, whether an agent is at work, what the result
rests on, and what the answer rests on. Each step touches one or two of them.

**Ingress.** `CacheInv`: what the resolver and the secret provider hold is among the
rows and keys of the process's past (`pastRows`, `pastKeys`), and so is all that a
verdict is decided by in one step: that is `AnswersJustified`. `OnceInv`: a request
is on the bus or in the queue once at most, and not at all before it has got past
everything that could refuse it. `KeptInv`: a body that was acknowledged, or is remembered as seen, is on
the bus, waits for its dispatch, or is accounted for as lost. `CountInv`, for the
acknowledging publisher: of one body there are no more copies than restarts, and one
more once this process has seen it.

**Backlog.** `StateFileIsTrue` says nothing of the moment between a creation and its
record, when a key is nowhere. `UnsavedInv` fills it: the last issue in Jira was made
for the item at the head of the agenda, under the epic whose key the tool knows.
`PlaceInv` says that a tool knows what the file says, `KeysInv` what the file says of
Jira, `CreatedInv` that every issue is recorded, about to be, or cost a mishap.

Whether a run of the reconciler is right depends on a cache that its own writes make
stale. `SweepInv`, for a calm run: dependencies that are done with are matched; what
was read of the links of a dependency that is left, if it was, is still what there
is; and for the one in hand the doomed ids are those of the links between its two
issues. It is inductive because writing for one dependency touches no other's links
(`PairsDiffer`, `OthersKept`): keys are of one item each, which is `KeysInv`, and no
pair of tickets is listed twice. No two links share an id (`IdsInv`), so deleting by
id deletes one. `NothingToRepair` follows: once all is right, a calm run writes
nothing.

**BuildOrder.** `PathInv`: the stack is a path of dependencies between different
tickets without waves, so a dependency met on it closes a cycle. `WaveInv`: whoever
has a wave has it from dependencies that have theirs. `WalkInv`: what the walk has
seen or has yet to see lies upstream, contains the direct dependencies and, for what
has been seen, their dependencies; so when nothing is left, what has been seen is
closed and contains all that is upstream, which is defined as the least such set: no
recursion and no induction over paths is needed. `NeverStuck` takes, among the
tickets not done, one with the least wave (`NatLessThanWellFounded`).

**Only model-checked**: `RefusedCommandsRun`, `ResumingFinishes`, `EveryCallEnds`,
`LinksConverge` and `EveryRunEnds`: liveness under fairness is out of the prover's
reach, as is `ENABLED`. Every other property of a passing run is proved,
under the hypotheses named above where it needs one. Nothing here is recursive over data, which the prover could not do by
induction either.

## 5. Plan

In this order:

1. Proofs: a variant for each liveness property, as a safety property that the prover
   can reach: that a calm step of the reconciler lowers what is left of its agenda and
   work, that a retry of `AgentRun` uses up an attempt, that the frontier's walk visits
   no ticket twice.
2. Modelling: two runs of one ticket at once; pages of reviews in `list_pr_reviews`;
   `context_resolver_host`; which summaries Slack has shown, for the button under a
   superseded one; edits of the hierarchy document against an older
   `build_order.json`; `record_message` and `status`, once something calls them.

## 6. Not modelled

* Identity service, contracts, configuration: data models and validation.
* Other tools (`create_sfp_ticket.py`, `fk_lint.py`, notification), scripts and local
  infrastructure: one-shot I/O. Of the creator, `--update-descriptions` and
  `--dry-run`, which change no key and no link; the parsing of the hierarchy
  document; of `build_order.py`, the rendering of `BUILD_ORDER.md`.
* `context_resolver_host`; failure classification, the manual classifier and
  markdown, which map text to text.
* The composition root's wiring, its seeding of an endpoint row, its Slack client.
* The computation of signatures (a key fits or does not), prompts, schema validation inside agents, Slack wording,
  languages and button layout: data that no property tells apart.
* Operational commands: text parsed into one published command, no state.
* GitHub operations the pipeline never calls (`update_pr`, `delete_ref`,
  `sync_branch`, `push_branch`), `worktree remove`, branch naming.
* The adapter's retry loop, except for its effect: a merge that took place and
  is reported as failed.
