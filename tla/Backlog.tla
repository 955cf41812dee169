------------------------------- MODULE Backlog -------------------------------
(***************************************************************************)
(* The tools that bring the ticket hierarchy into Jira: the creator        *)
(* (create_jira_tickets.py: epics, tasks, then Blocks links, with the keys *)
(* in a state file) and the reconciler (reconcile_dep_links.py: one link   *)
(* per dependency, in the right direction).  Every call to Jira may fail,  *)
(* or take effect and be reported as failed; a tool may be killed between  *)
(* two steps or while it writes its file; people edit links meanwhile.     *)
(***************************************************************************)
EXTENDS Naturals, FiniteSets, Sequences

CONSTANTS
  EpicList,      \* epics, in the document's order
  TicketList,    \* tickets, by number
  EpicOf,        \* the epic of a ticket
  EdgeList,      \* the dependencies, by ticket
  NoKey,         \* not in the state file
  CutShort,      \* a state file cut short while it was written
  Attempts,      \* api_retry's attempts
  MaxRuns,       \* bound: runs of the creator
  MaxMishaps     \* bound: failed calls, unreadable records, kills, edits by people

EpicIds == {EpicList[i] : i \in DOMAIN EpicList}
Tasks == {TicketList[i] : i \in DOMAIN TicketList}
Edge(blocker, blocked) == [blocker |-> blocker, blocked |-> blocked]
Edges == {EdgeList[i] : i \in DOMAIN EdgeList}

ASSUME BacklogAssumption ==
  /\ EpicList \in Seq(EpicIds) /\ TicketList \in Seq(Tasks) /\ EpicIds \cap Tasks = {}
  /\ EpicOf \in [Tasks -> EpicIds]
  /\ EdgeList \in Seq([blocker : Tasks, blocked : Tasks])
  /\ \A i, j \in DOMAIN EdgeList : EdgeList[i] = EdgeList[j] => i = j
  /\ \A e \in Edges : e.blocker # e.blocked /\ Edge(e.blocked, e.blocker) \notin Edges
  /\ NoKey \notin Nat /\ CutShort \notin [EpicIds \cup Tasks -> Nat \cup {NoKey}]
  /\ Attempts \in Nat \ {0} /\ MaxRuns \in Nat /\ MaxMishaps \in Nat

VARIABLES
  issues,     \* Jira's issues: what each was made for, and its parent
  links,      \* Jira's Blocks links
  nextLink,   \* the id of the next one
  saved,      \* .jira_creation_state.json: the keys of epics and tickets
  tool,       \* which tool runs
  state,      \* the keys it knows
  agenda,     \* what it has yet to look at
  pc,         \* where it is with the head of its agenda
  tries,      \* attempts made at the current call
  cache,      \* _LINKS_CACHE: the links read, per issue
  doomed,     \* ids it has yet to delete
  since,      \* history: the mishaps before the reconciler's run
  runs, mishaps

jira == <<issues, links, nextLink>>
reconciling == <<tries, cache, doomed, since>>
backlogVars == <<jira, saved, tool, state, agenda, pc, reconciling, runs, mishaps>>

-----------------------------------------------------------------------------
Items == EpicIds \cup Tasks
IssueKeys == DOMAIN issues
States == [Items -> Nat \cup {NoKey}]
Links == [id : Nat, inward : Nat, outward : Nat]
Unread == [known |-> FALSE, failed |-> FALSE, links |-> {}]

BacklogTypeOK ==
  /\ issues \in Seq([item : Items, parent : Nat \cup {NoKey}])
  /\ links \subseteq Links /\ nextLink \in Nat
  /\ saved \in States \cup {CutShort} /\ state \in States
  /\ tool \in {"none", "creator", "reconciler"} /\ agenda \in Seq(Items \cup Edges)
  /\ pc \in {"pick", "again", "save", "delete", "create"}
  /\ tries \in 0 .. Attempts - 1 /\ doomed \subseteq Nat
  /\ \A k \in DOMAIN cache : cache[k].links \subseteq Links
  /\ runs \in 0 .. MaxRuns /\ mishaps \in 0 .. MaxMishaps /\ since \in 0 .. mishaps

NothingKnown == [x \in Items |-> NoKey]

BacklogInit ==
  /\ issues = <<>> /\ links = {} /\ nextLink = 1
  /\ saved = NothingKnown /\ state = NothingKnown
  /\ tool = "none" /\ agenda = <<>> /\ pc = "pick"
  /\ tries = 0 /\ cache = <<>> /\ doomed = {} /\ since = 0
  /\ runs = 0 /\ mishaps = 0

-----------------------------------------------------------------------------
(* Calls                                                                    *)

\* What a call comes to: done, not done, or done and reported as failed.
Results == {"ok", "failed", "unheard"}
Done(result) == result # "failed"

Mishap == mishaps < MaxMishaps /\ mishaps' = mishaps + 1
Outcome(result) == IF result = "ok" THEN UNCHANGED mishaps ELSE Mishap

Posted(item, parent, result) ==
  issues' = IF Done(result) THEN Append(issues, [item |-> item, parent |-> parent]) ELSE issues

\* blocks_link_keys: the inward issue is the blocker.
Link(e) == [id |-> nextLink, inward |-> state[e.blocker], outward |-> state[e.blocked]]

\* create_issue_link; the reconciler's POST.
Linked(e, result) ==
  /\ links' = IF Done(result) THEN links \cup {Link(e)} ELSE links
  /\ nextLink' = IF Done(result) THEN nextLink + 1 ELSE nextLink

\* The tool is done with the head of its list.
Advance == agenda' = Tail(agenda) /\ pc' = "pick"

\* A tool that ends, or is killed, forgets.
ToolExit ==
  /\ tool' = "none" /\ state' = NothingKnown /\ agenda' = <<>> /\ pc' = "pick"
  /\ tries' = 0 /\ cache' = <<>> /\ doomed' = {} /\ since' = 0

-----------------------------------------------------------------------------
(* The creator: main                                                        *)

\* load_state raises on a torn file.
StartCreator ==
  /\ tool = "none" /\ saved # CutShort
  /\ runs < MaxRuns /\ runs' = runs + 1
  /\ tool' = "creator" /\ state' = saved
  /\ agenda' = EpicList \o TicketList \o EdgeList
  /\ UNCHANGED <<jira, saved, pc, reconciling, mishaps>>

Creating(what) == tool = "creator" /\ agenda # <<>> /\ Head(agenda) \in what
Reconciling(what) == tool = "reconciler" /\ agenda # <<>> /\ Head(agenda) \in what
Linkable(e) == state[e.blocker] # NoKey /\ state[e.blocked] # NoKey

\* What the state file has is not created again; an edge needs both its issues.
Skip ==
  /\ pc = "pick"
  /\ \/ Creating(Items) /\ state[Head(agenda)] # NoKey
     \/ Creating(Edges) /\ ~Linkable(Head(agenda))
  /\ Advance
  /\ UNCHANGED <<jira, saved, tool, state, reconciling, runs, mishaps>>

\* Step 1: on a failure once more, without the Epic Name field.
CreateEpic(result) ==
  /\ Creating(EpicIds) /\ state[Head(agenda)] = NoKey /\ pc \in {"pick", "again"}
  /\ Outcome(result)
  /\ Posted(Head(agenda), NoKey, result)
  /\ CASE result = "ok" -> pc' = "save" /\ UNCHANGED agenda
       [] result # "ok" /\ pc = "pick" -> pc' = "again" /\ UNCHANGED agenda
       [] OTHER -> Advance
  /\ UNCHANGED <<links, nextLink, saved, tool, state, reconciling, runs>>

\* Step 2: under its epic, if that has a key.
CreateTask(result) ==
  /\ Creating(Tasks) /\ state[Head(agenda)] = NoKey /\ pc = "pick"
  /\ Outcome(result)
  /\ Posted(Head(agenda), state[EpicOf[Head(agenda)]], result)
  /\ IF result = "ok" THEN pc' = "save" /\ UNCHANGED agenda ELSE Advance
  /\ UNCHANGED <<links, nextLink, saved, tool, state, reconciling, runs>>

\* Fault: the file is written at the end only.
SaveLater ==
  /\ pc = "save"
  /\ state' = [state EXCEPT ![Head(agenda)] = Len(issues)]
  /\ Advance
  /\ UNCHANGED <<jira, saved, tool, reconciling, runs, mishaps>>

\* The key of the answer goes into the state, and the state into the file.
Save ==
  /\ pc = "save"
  /\ state' = [state EXCEPT ![Head(agenda)] = Len(issues)]
  /\ saved' = state'
  /\ Advance
  /\ UNCHANGED <<jira, tool, reconciling, runs, mishaps>>

\* Step 3: whatever links there are, one more for each edge.
CreateLink(result) ==
  /\ Creating(Edges) /\ Linkable(Head(agenda)) /\ pc = "pick"
  /\ Outcome(result)
  /\ Linked(Head(agenda), result)
  /\ Advance
  /\ UNCHANGED <<issues, saved, tool, state, reconciling, runs>>

\* The state is saved once more: links_created, which nobody reads.
FinishCreator ==
  /\ tool = "creator" /\ agenda = <<>>
  /\ saved' = state
  /\ ToolExit
  /\ UNCHANGED <<jira, runs, mishaps>>

\* save_state truncates the file first.
KilledSaving ==
  /\ pc = "save" \/ (tool = "creator" /\ agenda = <<>>)
  /\ Mishap
  /\ saved' = CutShort
  /\ ToolExit
  /\ UNCHANGED <<jira, runs>>

-----------------------------------------------------------------------------
(* The reconciler: main                                                     *)

StartReconciler ==
  /\ tool = "none" /\ saved # CutShort
  /\ tool' = "reconciler" /\ state' = saved
  /\ agenda' = EdgeList
  /\ cache' = [k \in IssueKeys |-> Unread] /\ since' = mishaps
  /\ UNCHANGED <<jira, saved, pc, tries, doomed, runs, mishaps>>

\* expected_edges, a generator, leaves out an edge unless both its issues are in the
\* state file.
Omit ==
  /\ Reconciling(Edges) /\ pc = "pick" /\ ~Linkable(Head(agenda))
  /\ Advance
  /\ UNCHANGED <<jira, saved, tool, state, reconciling, runs, mishaps>>

Looking == Reconciling(Edges) /\ pc = "pick" /\ Linkable(Head(agenda))
Blocked == state[Head(agenda).blocked]
Of(key) == {l \in links : key \in {l.inward, l.outward}}

\* blocks_links_of: read once per issue; a record that cannot be read is left
\* out, and a failure to list them is remembered.
ReadLinks(unreadable) ==
  /\ Looking /\ ~cache[Blocked].known
  /\ IF unreadable = {} THEN UNCHANGED mishaps ELSE Mishap
  /\ cache' = [cache EXCEPT ![Blocked] =
                 [known |-> TRUE, failed |-> FALSE, links |-> Of(Blocked) \ unreadable]]
  /\ UNCHANGED <<jira, saved, tool, state, agenda, pc, tries, doomed, since, runs>>

ReadFails ==
  /\ Looking /\ ~cache[Blocked].known
  /\ Mishap
  /\ cache' = [cache EXCEPT ![Blocked] = [known |-> TRUE, failed |-> TRUE, links |-> {}]]
  /\ UNCHANGED <<jira, saved, tool, state, agenda, pc, tries, doomed, since, runs>>

Between(known, a, b) == {l \in known : {l.inward, l.outward} = {a, b}}

\* Fault: the direction the wrong way round.
CorrectReversed(l, e) == l.inward = state[e.blocked] /\ l.outward = state[e.blocker]

\* In the right direction.
Correct(l, e) == l.inward = state[e.blocker] /\ l.outward = state[e.blocked]

\* Fault: one correct link is enough, whatever else there is.
RightlyLinkedAmongOthers(e) ==
  \E l \in Between(cache[Blocked].links, state[e.blocker], state[e.blocked]) : Correct(l, e)

\* plan_for_matches: nothing to do.
RightlyLinked(e) ==
  \E l \in cache[Blocked].links :
    /\ Between(cache[Blocked].links, state[e.blocker], state[e.blocked]) = {l}
    /\ Correct(l, e)

\* An error is recorded, or all is well.
Pass ==
  /\ Looking /\ cache[Blocked].known
  /\ cache[Blocked].failed \/ RightlyLinked(Head(agenda))
  /\ Advance
  /\ UNCHANGED <<jira, saved, tool, state, reconciling, runs, mishaps>>

\* Delete every link there is between the two, then create one.
Plan ==
  /\ Looking /\ cache[Blocked].known
  /\ ~cache[Blocked].failed /\ ~RightlyLinked(Head(agenda))
  /\ doomed' = {l.id : l \in Between(cache[Blocked].links, state[Head(agenda).blocker], Blocked)}
  /\ pc' = IF doomed' = {} THEN "create" ELSE "delete"
  /\ UNCHANGED <<jira, saved, tool, state, agenda, tries, cache, since, runs, mishaps>>

\* One DELETE with its attempts: once it took effect unheard, the others fail.
Delete(id, result) ==
  /\ pc = "delete" /\ id \in doomed
  /\ IF \E l \in links : l.id = id THEN Outcome(result) ELSE result = "failed" /\ UNCHANGED mishaps
  /\ links' = IF Done(result) THEN {l \in links : l.id # id} ELSE links
  /\ doomed' = doomed \ {id}
  /\ pc' = IF doomed' = {} THEN "create" ELSE "delete"
  /\ UNCHANGED <<issues, nextLink, saved, tool, state, agenda, tries, cache, since, runs>>

\* One attempt at the POST: another follows if it was not heard of.
Create(result) ==
  /\ pc = "create"
  /\ Outcome(result)
  /\ Linked(Head(agenda), result)
  /\ IF result = "ok" \/ tries + 1 = Attempts
     THEN tries' = 0 /\ Advance
     ELSE tries' = tries + 1 /\ UNCHANGED <<agenda, pc>>
  /\ UNCHANGED <<issues, saved, tool, state, cache, doomed, since, runs>>

FinishReconciler ==
  /\ tool = "reconciler" /\ agenda = <<>>
  /\ ToolExit
  /\ UNCHANGED <<jira, saved, runs, mishaps>>

-----------------------------------------------------------------------------
Killed ==
  /\ tool # "none"
  /\ Mishap
  /\ ToolExit
  /\ UNCHANGED <<jira, saved, runs>>

\* People turn, add and remove links.
Edited ==
  /\ Mishap
  /\ \/ \E l \in links : links' = links \ {l} /\ UNCHANGED nextLink
     \/ \E a, b \in IssueKeys :
          /\ a # b
          /\ links' = links \cup {[id |-> nextLink, inward |-> a, outward |-> b]}
          /\ nextLink' = nextLink + 1
  /\ UNCHANGED <<issues, saved, tool, state, agenda, pc, reconciling, runs>>

Creator ==
  \/ StartCreator \/ Skip \/ Save \/ FinishCreator
  \/ \E result \in Results : CreateEpic(result) \/ CreateTask(result) \/ CreateLink(result)

Reconciler ==
  \/ Omit \/ Pass \/ Plan \/ ReadFails \/ FinishReconciler
  \/ Looking /\ \E unreadable \in SUBSET Of(Blocked) : ReadLinks(unreadable)
  \/ \E result \in Results : Create(result) \/ \E id \in doomed : Delete(id, result)

BacklogNext == Creator \/ StartReconciler \/ Reconciler \/ Killed \/ KilledSaving \/ Edited

\* Tools run on until they end, and people reconcile until nothing changes.
Fairness == WF_backlogVars(Creator) /\ WF_backlogVars(StartReconciler) /\ WF_backlogVars(Reconciler)

BacklogSpec == BacklogInit /\ [][BacklogNext]_backlogVars
FairBacklogSpec == BacklogSpec /\ Fairness

-----------------------------------------------------------------------------
(* Properties                                                               *)

\* What the tools know of an issue is true: its key is that of an issue made for
\* that very item, a task's under the epic recorded for it if there was one then.
\* Every issue nobody knows of cost a mishap, so that a resumed run creates nothing
\* twice by itself; nor does it forget what was in the file.
\* About: create_jira_tickets.py's state file, its save after each creation and its
\* resumption.
Recorded(known) == {x \in Items : known[x] # NoKey}
TrueOf(known) ==
  \A x \in Recorded(known) :
    /\ known[x] \in IssueKeys /\ issues[known[x]].item = x
    /\ x \in Tasks => issues[known[x]].parent \in {NoKey, known[EpicOf[x]]}

Fresh == IF pc = "save" THEN 1 ELSE 0

StateFileIsTrue ==
  saved # CutShort =>
    /\ TrueOf(saved)
    /\ tool = "creator" => state = saved
    /\ Len(issues) <= Cardinality(Recorded(saved)) + Fresh + mishaps

Matched(e) ==
  \E l \in links :
    /\ {m \in links : {m.inward, m.outward} = {saved[e.blocker], saved[e.blocked]}} = {l}
    /\ l.inward = saved[e.blocker] /\ l.outward = saved[e.blocked]

Reconciled ==
  \A e \in Edges : saved[e.blocker] # NoKey /\ saved[e.blocked] # NoKey => Matched(e)

\* A run of the reconciler that meets no failure and no interference ends with exactly
\* one link for every dependency between known issues, from the blocker to the blocked,
\* whatever links there were, and although an issue's links are read once and used for
\* all its dependencies while links are deleted and created.
\* About: reconcile_dep_links.py's cache, classification and repair.
Calm == tool = "reconciler" /\ mishaps = since

ReconcilerIsRight == Calm /\ agenda = <<>> => Reconciled

\* Nor does such a run write where Jira is right already.
\* About: reconcile_dep_links.py ("Correct links are left untouched").
RepairsOnlyWhatIsWrong ==
  [][Calm /\ pc = "pick" /\ pc' # "pick" => ~Matched(Head(agenda))]_backlogVars

\* However the links were left, by failures, kills, repeated creator runs and
\* people, reconciling again and again ends with exactly one link for every
\* dependency between known issues, from the blocker to the blocked, and leaves it
\* at that.
\* About: reconcile_dep_links.py ("Idempotent: re-running reports zero changes").
LinksConverge == <>[](saved = CutShort \/ Reconciled)
=============================================================================
