--------------------------- MODULE TicketPipeline ---------------------------
(***************************************************************************)
(* The workspace worker's ticket pipeline (entrypoints/ticket_pipeline.py) *)
(* run again and again for one ticket, clean or with --resume, each run    *)
(* possibly cut short.  What outlives a run is on disk (the stage          *)
(* checkpoints, the shared clone, the ticket's worktree and branch) and on *)
(* GitHub and Jira; the rest of a run is its own memory.  Meanwhile the    *)
(* base branch moves, other tickets' runs refresh the clone they share     *)
(* with this one, and other people push to and review the pull request.    *)
(*                                                                         *)
(* A branch head stands for its commit: how many commits of the base       *)
(* branch it contains, and which commits of its own.  One head is a        *)
(* fast-forward of another when it has all the other has.                  *)
(***************************************************************************)
EXTENDS Naturals, FiniteSets

CONSTANTS
  MaxBase,         \* bound: commits that others land on the base branch
  MaxCommits,      \* bound: commits ever made on the ticket branch
  MaxMishaps,      \* bound: interruptions, failing gates and refusals
  Modes,           \* values the operator gives --resume: a set of Booleans
  NoHead,          \* no branch
  EmptyCoderRuns,  \* the coder may end without a commit on the branch
  CoderLeavesFiles, \* the coder may leave files it has not committed
  SeveralSpecs,    \* the planner may return more than one PR-spec
  CloneIsShared,   \* other tickets' runs use, and may replace, the clone
  WorktreeBreaks,  \* the worktree's directory may be hollowed out
  OthersReview,    \* people review the pull request and dismiss reviews
  OthersPush       \* people push to the ticket branch

Heads == [base : Nat, work : SUBSET (1 .. MaxCommits)]

ASSUME PipelineAssumption ==
  /\ MaxBase \in Nat /\ MaxCommits \in Nat \ {0} /\ MaxMishaps \in Nat
  /\ Modes \subseteq BOOLEAN
  /\ NoHead \notin Heads
  /\ EmptyCoderRuns \in BOOLEAN /\ CoderLeavesFiles \in BOOLEAN
  /\ SeveralSpecs \in BOOLEAN /\ CloneIsShared \in BOOLEAN
  /\ WorktreeBreaks \in BOOLEAN /\ OthersReview \in BOOLEAN /\ OthersPush \in BOOLEAN

VARIABLES
  run,         \* the running pipeline's memory, or NoRun
  ckpt,        \* plan.json, design.json and code.json
  localBase,   \* base commits in the clone's local base branch
  worktree,    \* the ticket's worktree directory
  uncommitted, \* the worktree is valid and holds files that no commit has
  branch,      \* the ticket branch in the clone: its head, or NoHead
  originBase,  \* base commits on GitHub
  remote,      \* the ticket branch on GitHub: its head, or NoHead
  pr,          \* the branch's latest pull request: "none", "open" or "merged"
  reviews,     \* per head, the latest submitted review of the pull request
  jira,        \* the ticket's status
  commits,     \* commits made on the ticket branch so far
  mishaps,     \* mishaps so far
  history      \* what the properties remember of the runs

disk == <<ckpt, localBase, worktree, uncommitted, branch>>
github == <<originBase, remote, pr, reviews>>
vars == <<run, disk, github, jira, commits, mishaps, history>>

-----------------------------------------------------------------------------
Stages == {"readiness", "plan", "design", "clone", "worktree", "code", "verify",
           "sync", "gates", "push", "create_pr", "review", "list", "merge", "jira"}

\* A checkpoint is of the plan in plan.json ("current") or of an earlier one
\* ("stale"), or its file is truncated: between two characters ("corrupt") or
\* inside a multi-byte one, and then it is no UTF-8 ("undecodable"). A plan's
\* checkpoint may hold more than one PR-spec ("several").
Checkpoint == {"absent", "corrupt", "undecodable", "current", "stale", "several"}
Torn == {"corrupt", "undecodable"}
Files == {"plan", "design", "code"}

\* What the gates can check: the worktree of a head, with uncommitted files or not.
Trees == [head : Heads, uncommitted : BOOLEAN]

\* at: the next stage; code: the plan the coder's output was made for; prHead:
\* pr.head_sha; again: the reviewer has run a second time.
Runs == [at : Stages \cup {"idle"}, resume : BOOLEAN, code : {"none", "current", "stale"},
         prHead : Heads \cup {NoHead}, again : BOOLEAN]
NoRun == [at |-> "idle", resume |-> FALSE, code |-> "none", prHead |-> NoHead, again |-> FALSE]

NoReviews == [h \in {} |-> ""]
Verdicts == {"", "APPROVED", "CHANGES_REQUESTED", "COMMENTED", "DISMISSED"}

\* A valid worktree has the ticket branch checked out.
TypeOK ==
  /\ run \in Runs
  /\ ckpt \in [Files -> Checkpoint]
  /\ ckpt["design"] # "several" /\ ckpt["code"] # "several"
  /\ localBase \in Nat /\ originBase \in Nat
  /\ worktree \in {"absent", "valid", "broken"}
  /\ branch \in Heads \cup {NoHead} /\ remote \in Heads \cup {NoHead}
  /\ worktree = "valid" => branch # NoHead
  /\ uncommitted \in BOOLEAN /\ (uncommitted => worktree = "valid")
  /\ pr \in {"none", "open", "merged"}
  /\ \A h \in DOMAIN reviews : h \in Heads /\ reviews[h] \in Verdicts
  /\ jira \in {"To Do", "Done"}
  /\ commits \in 0 .. MaxCommits /\ mishaps \in 0 .. MaxMishaps
  /\ history \in [gated : SUBSET Trees, approved : SUBSET Heads, landed : SUBSET Heads,
                  foreign : SUBSET (1 .. MaxCommits)]

\* The clone is there already, made for earlier tickets.
Init ==
  /\ run = NoRun
  /\ ckpt = [f \in Files |-> "absent"]
  /\ localBase = 0 /\ originBase = 0
  /\ worktree = "absent" /\ uncommitted = FALSE
  /\ branch = NoHead /\ remote = NoHead
  /\ pr = "none"
  /\ reviews = NoReviews
  /\ jira = "To Do"
  /\ commits = 0 /\ mishaps = 0
  /\ history = [gated |-> {}, approved |-> {}, foreign |-> {}, landed |-> {}]

At(stage) == run.at = stage
Goto(stage) == run' = [run EXCEPT !.at = stage]

\* A run that is over leaves nothing in memory.
Ends == run' = NoRun

\* A gate that fails, a verdict that is not the one wanted, a collaborator that
\* raises: the run ends here, by choice of the environment.
Mishap == mishaps < MaxMishaps /\ mishaps' = mishaps + 1
Abort == Mishap /\ Ends /\ UNCHANGED <<disk, github, jira, commits, history>>

Write(file, value) == ckpt' = [ckpt EXCEPT ![file] = value]

\* The commits of a head that are not the base branch's.
Work(h) == IF h = NoHead THEN {} ELSE h.work

\* Moving a branch from g, if it exists, to h is a fast-forward.
FastForward(g, h) == IF g = NoHead THEN TRUE ELSE g.base <= h.base /\ g.work \subseteq h.work

-----------------------------------------------------------------------------
(* Starting a run, and the stages whose output is kept in a checkpoint.     *)

\* git rev-list --count <base>..<branch> >= 1: the branch has a commit that the
\* clone's local base branch lacks. The probe fails outside a valid worktree.
verify_branch_commits ==
  worktree = "valid" /\ (Work(branch) # {} \/ branch.base > localBase)

\* The resume-entry pass over the checkpoints.
_validate_checkpoints ==
  ckpt' = [f \in Files |->
             IF \/ f # "code" /\ ckpt[f] \in Torn
                \/ f = "code" /\ ~verify_branch_commits
             THEN "absent" ELSE ckpt[f]]

\* The operator runs the ticket until it is Done.
Start(resume) ==
  /\ At("idle") /\ jira # "Done"
  /\ run' = [NoRun EXCEPT !.at = "readiness", !.resume = resume]
  /\ IF resume THEN _validate_checkpoints ELSE UNCHANGED ckpt
  /\ UNCHANGED <<localBase, worktree, uncommitted, branch, github, jira, commits, mishaps, history>>

Readiness ==
  /\ At("readiness")
  /\ \/ Goto("plan") /\ UNCHANGED <<disk, github, jira, commits, mishaps, history>>
     \/ Abort

\* _load_checkpoint on resume: a torn file is not loaded. One that is no JSON counts
\* as absent (and is deleted); one that is no UTF-8 raises instead (Unreadable), which
\* code.json alone can be here: the resume-entry pass deletes the other two.
Loads(file) == run.resume /\ ckpt[file] \notin {"absent"} \cup Torn
Unreadable(file) == run.resume /\ ckpt[file] = "undecodable"

\* A new plan leaves the later checkpoints where they are, of another plan.
NewPlan(spec) ==
  ckpt' = [f \in Files |-> IF f = "plan" THEN spec
                           ELSE IF ckpt[f] = "current" THEN "stale" ELSE ckpt[f]]

\* Fault: the planner runs again on resume.
PlanAlways ==
  /\ At("plan")
  /\ \/ NewPlan("current") /\ Goto("design") /\ UNCHANGED mishaps
     \/ SeveralSpecs /\ Mishap /\ NewPlan("several") /\ Ends
  /\ UNCHANGED <<localBase, worktree, uncommitted, branch, github, jira, commits, history>>

\* The plan is kept before it is found to have more than one PR-spec.
Plan ==
  /\ At("plan")
  /\ \/ /\ Loads("plan")
        /\ IF ckpt["plan"] = "several" THEN Ends ELSE Goto("design")
        /\ UNCHANGED <<ckpt, mishaps>>
     \/ ~Loads("plan") /\ NewPlan("current") /\ Goto("design") /\ UNCHANGED mishaps
     \/ ~Loads("plan") /\ SeveralSpecs /\ Mishap /\ NewPlan("several") /\ Ends
  /\ UNCHANGED <<localBase, worktree, uncommitted, branch, github, jira, commits, history>>

Design ==
  /\ At("design")
  /\ Goto("clone")
  /\ IF Loads("design") THEN UNCHANGED ckpt ELSE Write("design", "current")
  /\ UNCHANGED <<localBase, worktree, uncommitted, branch, github, jira, commits, mishaps, history>>

-----------------------------------------------------------------------------
(* The clone and the worktree.                                              *)

\* The cached clone is fast-forwarded, or used stale when the fetch fails.
RefreshClone ==
  localBase' \in {localBase, originBase} /\ UNCHANGED <<worktree, uncommitted, branch>>

\* Fault: nobody notices that a worktree has lost its repository.
RecloneKeepsWorktree ==
  localBase' = originBase /\ branch' = NoHead /\ UNCHANGED <<worktree, uncommitted>>

\* A cached clone that is corrupt or has diverged is replaced, with all its
\* branches: the worktrees made from it lose their repository.
Reclone ==
  /\ localBase' = originBase /\ branch' = NoHead
  /\ worktree' = IF worktree = "valid" THEN "broken" ELSE worktree
  /\ uncommitted' = FALSE

\* RepoManager.clone, skipped when a resumed run finds the worktree's directory.
Clone ==
  /\ At("clone")
  /\ IF run.resume /\ worktree # "absent"
     THEN Goto("code") /\ UNCHANGED <<localBase, worktree, uncommitted, branch, mishaps>>
     ELSE /\ Goto("worktree")
          /\ \/ RefreshClone /\ UNCHANGED mishaps
             \/ Reclone /\ Mishap
  /\ UNCHANGED <<ckpt, github, jira, commits, history>>

\* WorktreeManager.add with a new branch: it refuses a valid worktree, replaces a
\* broken one, and git refuses a branch that exists.
WorktreeAdd ==
  /\ At("worktree")
  /\ CASE worktree = "valid" -> Ends /\ UNCHANGED <<worktree, branch>>
       [] worktree # "valid" /\ branch # NoHead ->
            Ends /\ worktree' = "absent" /\ UNCHANGED branch
       [] OTHER -> /\ Goto("code")
                   /\ worktree' = "valid"
                   /\ branch' = [base |-> localBase, work |-> {}]
  /\ UNCHANGED <<ckpt, localBase, uncommitted, github, jira, commits, mishaps, history>>

-----------------------------------------------------------------------------
(* The coder, the base sync and the gates.                                  *)

\* The coder's agent works in the worktree and is told to commit there; it cannot
\* commit in a broken one. Nothing looks at what it leaves uncommitted, which stays
\* for the agent of a later run to commit, leave or discard.
CoderRuns ==
  /\ uncommitted' \in {FALSE, worktree = "valid" /\ CoderLeavesFiles}
  /\ \/ /\ worktree = "valid" /\ commits < MaxCommits
        /\ commits' = commits + 1
        /\ branch' = [branch EXCEPT !.work = @ \cup {commits + 1}]
     \/ /\ EmptyCoderRuns \/ worktree # "valid" \/ Work(branch) # {}
        /\ UNCHANGED <<commits, branch>>

\* Fault: the coder runs again on resume.
CodeAlways ==
  /\ At("code")
  /\ CoderRuns
  /\ run' = [run EXCEPT !.at = "verify", !.code = "current"]
  /\ UNCHANGED <<ckpt, localBase, worktree, github, jira, mishaps, history>>

\* A resumed run loads code.json, is ended by a file it cannot decode, or lets the
\* coder run (with a file that it could decode and not parse deleted).
Code ==
  /\ At("code")
  /\ \/ /\ Loads("code")
        /\ run' = [run EXCEPT !.at = "sync", !.code = ckpt["code"]]
        /\ UNCHANGED <<ckpt, commits, uncommitted, branch>>
     \/ /\ Unreadable("code")
        /\ Ends
        /\ UNCHANGED <<ckpt, commits, uncommitted, branch>>
     \/ /\ ~Loads("code") /\ ~Unreadable("code")
        /\ CoderRuns
        /\ run' = [run EXCEPT !.at = "verify", !.code = "current"]
        /\ IF run.resume THEN Write("code", "absent") ELSE UNCHANGED ckpt
  /\ UNCHANGED <<localBase, worktree, github, jira, mishaps, history>>

\* code.json is written only when the branch is seen to hold a commit; the run
\* goes on either way.
VerifyCommits ==
  /\ At("verify")
  /\ Goto("sync")
  /\ IF verify_branch_commits THEN Write("code", "current") ELSE UNCHANGED ckpt
  /\ UNCHANGED <<localBase, worktree, uncommitted, branch, github, jira, commits, mishaps, history>>

Synced(h) == [h EXCEPT !.base = originBase]

\* Fault: a sync that brings nothing new skips the gates.
SyncBaseSkipsGates ==
  /\ At("sync")
  /\ \/ /\ worktree = "valid"
        /\ branch' = Synced(branch)
        /\ IF branch' = branch THEN Goto("push") ELSE Goto("gates")
        /\ UNCHANGED <<ckpt, localBase, worktree, uncommitted, github, jira, commits, mishaps, history>>
     \/ worktree = "broken" /\ Ends /\ UNCHANGED <<disk, github, jira, commits, mishaps, history>>
     \/ Abort

\* sync_base: GitHub's base branch is merged into the ticket branch, by a
\* fast-forward if it has no commit of its own. A conflict, or a fetch that
\* fails, ends the run with the branch as it was; uncommitted files stay, or are in
\* the merge's way and end the run too.
SyncBase ==
  /\ At("sync")
  /\ \/ /\ worktree = "valid"
        /\ branch' = Synced(branch)
        /\ Goto("gates")
        /\ UNCHANGED <<ckpt, localBase, worktree, uncommitted, github, jira, commits, mishaps, history>>
     \/ worktree = "broken" /\ Ends /\ UNCHANGED <<disk, github, jira, commits, mishaps, history>>
     \/ Abort

\* Build, tests and lint are green on the worktree's files, committed or not. (What
\* they find in a broken worktree is of no head, and cannot be pushed.)
Gates ==
  /\ At("gates")
  /\ \/ /\ Goto("push")
        /\ history' = IF worktree = "valid"
                      THEN [history EXCEPT !.gated = @ \cup
                              {[head |-> branch, uncommitted |-> uncommitted]}]
                      ELSE history
        /\ UNCHANGED <<disk, github, jira, commits, mishaps>>
     \/ Abort

-----------------------------------------------------------------------------
(* GitHub and Jira.                                                         *)

\* RepoManager.push: git uploads the branch's commits, whatever else the worktree
\* holds, and refuses what is no fast-forward of GitHub's branch.
CanPush == worktree = "valid" /\ FastForward(remote, branch)

Push ==
  /\ At("push")
  /\ \/ CanPush /\ remote' = branch /\ Goto("create_pr") /\ UNCHANGED mishaps
     \/ ~CanPush /\ Ends /\ UNCHANGED <<remote, mishaps>>
     \/ Mishap /\ Ends /\ UNCHANGED remote
  /\ UNCHANGED <<disk, originBase, pr, reviews, jira, commits, history>>

\* Fault: an open pull request is not adopted.
CreateOrFail ==
  /\ At("create_pr")
  /\ \/ /\ pr # "open" /\ Work(remote) # {}
        /\ pr' = "open" /\ reviews' = NoReviews
        /\ run' = [run EXCEPT !.at = "review", !.prHead = remote]
        /\ UNCHANGED mishaps
     \/ /\ pr = "open" \/ Work(remote) = {}
        /\ Ends
        /\ UNCHANGED <<pr, reviews, mishaps>>
     \/ Mishap /\ Ends /\ UNCHANGED <<pr, reviews>>
  /\ UNCHANGED <<disk, originBase, remote, jira, commits, history>>

\* A new pull request, or the open one that GitHub says exists already. GitHub
\* opens none for a branch without commits of its own.
CreatePr ==
  /\ At("create_pr")
  /\ \/ /\ pr # "open" /\ Work(remote) # {}
        /\ pr' = "open" /\ reviews' = NoReviews
        /\ run' = [run EXCEPT !.at = "review", !.prHead = remote]
        /\ UNCHANGED mishaps
     \/ /\ pr = "open"
        /\ run' = [run EXCEPT !.at = "review", !.prHead = remote]
        /\ UNCHANGED <<pr, reviews, mishaps>>
     \/ /\ pr # "open" /\ Work(remote) = {}
        /\ Ends
        /\ UNCHANGED <<pr, reviews, mishaps>>
     \/ Mishap /\ Ends /\ UNCHANGED <<pr, reviews>>
  /\ UNCHANGED <<disk, originBase, remote, jira, commits, history>>


\* submit_review: GitHub attaches the review to the pull request's head.
Submit(verdict) ==
  /\ reviews' = [h \in DOMAIN reviews \cup {remote} |->
                   IF h = remote THEN verdict ELSE reviews[h]]
  /\ history' = IF verdict = "APPROVED" THEN [history EXCEPT !.approved = @ \cup {remote}]
                ELSE history

\* Fault: the verdict is submitted and not looked at.
ReviewUnchecked ==
  /\ At("review")
  /\ \E verdict \in {"APPROVED", "CHANGES_REQUESTED"} : Submit(verdict)
  /\ IF run.again THEN Goto("merge") ELSE Goto("list")
  /\ UNCHANGED <<disk, originBase, remote, pr, jira, commits, mishaps>>

\* The reviewer judges the coder's output (twice at most, when it gives no
\* rationale; then the run ends) and the verdict is submitted. The second review
\* of a run is the pre-merge gate's.
Review ==
  /\ At("review")
  /\ \/ /\ Submit("APPROVED")
        /\ IF run.again THEN Goto("merge") ELSE Goto("list")
        /\ UNCHANGED <<disk, originBase, remote, pr, jira, commits, mishaps>>
     \/ /\ Mishap
        /\ Submit("CHANGES_REQUESTED")
        /\ Ends
        /\ UNCHANGED <<disk, originBase, remote, pr, jira, commits>>
     \/ Abort

effective_review_state(h) == IF h \in DOMAIN reviews THEN reviews[h] ELSE ""

\* The pre-merge gate reads the reviews for the head it learned with the pull
\* request; anything but an approval makes the reviewer run again.
ListReviews ==
  /\ At("list")
  /\ \/ /\ run' = IF effective_review_state(run.prHead) = "APPROVED"
                  THEN [run EXCEPT !.at = "merge"]
                  ELSE [run EXCEPT !.at = "review", !.again = TRUE]
        /\ UNCHANGED <<disk, github, jira, commits, mishaps, history>>
     \/ Abort

\* merge_pr squashes whatever the head is by now; it may fail, also with the
\* merge done (a retry after a timeout is refused).
Merge ==
  /\ At("merge")
  /\ \/ /\ \/ Goto("jira") /\ UNCHANGED mishaps
           \/ Mishap /\ Ends
        /\ pr' = "merged"
        /\ originBase' = originBase + 1
        /\ history' = [history EXCEPT !.landed = @ \cup {remote}]
        /\ UNCHANGED <<disk, remote, reviews, jira, commits>>
     \/ Abort

TransitionToDone ==
  /\ At("jira")
  /\ \/ Ends /\ jira' = "Done" /\ UNCHANGED <<disk, github, commits, mishaps, history>>
     \/ Abort

-----------------------------------------------------------------------------
(* What happens around a run.                                               *)

\* The file a stage is about to write.
Writing ==
  {f \in Files : \/ f \in {"plan", "design"} /\ At(f) /\ ~Loads(f)
                 \/ f = "code" /\ At("verify") /\ verify_branch_commits}

\* An agent is editing a worktree's files.
CoderAtWork == At("code") /\ worktree = "valid" /\ ~Loads("code") /\ ~Unreadable("code")

\* The process dies, perhaps while it writes a checkpoint or while the coder works.
\* How plan.json and design.json are torn makes no difference to what is done with them.
Crash ==
  /\ ~At("idle")
  /\ Mishap /\ Ends
  /\ \/ UNCHANGED ckpt
     \/ \E f \in Writing : Write(f, "corrupt")
     \/ "code" \in Writing /\ Write("code", "undecodable")
  /\ uncommitted' \in {uncommitted, uncommitted \/ (CoderAtWork /\ CoderLeavesFiles)}
  /\ UNCHANGED <<localBase, worktree, branch, github, jira, commits, history>>

BaseMoves ==
  /\ originBase < MaxBase
  /\ originBase' = originBase + 1
  /\ UNCHANGED <<run, disk, remote, pr, reviews, jira, commits, mishaps, history>>

OtherTicketClones ==
  /\ CloneIsShared
  /\ \/ RefreshClone /\ UNCHANGED mishaps
     \/ Reclone /\ Mishap
  /\ UNCHANGED <<run, ckpt, github, jira, commits, history>>

WorktreeHollowed ==
  /\ WorktreeBreaks /\ worktree = "valid"
  /\ Mishap
  /\ worktree' = "broken" /\ uncommitted' = FALSE
  /\ UNCHANGED <<run, ckpt, localBase, branch, github, jira, commits, history>>

OtherReview ==
  /\ OthersReview /\ pr = "open"
  /\ \/ \E verdict \in {"APPROVED", "CHANGES_REQUESTED", "COMMENTED"} : Submit(verdict)
     \/ /\ effective_review_state(remote) \in {"APPROVED", "CHANGES_REQUESTED"}
        /\ Submit("DISMISSED")
  /\ UNCHANGED <<run, disk, originBase, remote, pr, jira, commits, mishaps>>

OtherPush ==
  /\ OthersPush /\ remote # NoHead /\ commits < MaxCommits
  /\ commits' = commits + 1
  /\ remote' = [remote EXCEPT !.work = @ \cup {commits + 1}]
  /\ history' = [history EXCEPT !.foreign = @ \cup {commits + 1}]
  /\ UNCHANGED <<run, disk, originBase, pr, reviews, jira, mishaps>>

Step ==
  \/ Readiness \/ Plan \/ Design \/ Clone \/ WorktreeAdd \/ Code \/ VerifyCommits
  \/ SyncBase \/ Gates \/ Push \/ CreatePr \/ Review \/ ListReviews \/ Merge
  \/ TransitionToDone

Others == BaseMoves \/ OtherTicketClones \/ WorktreeHollowed \/ OtherReview \/ OtherPush

Next == (\E resume \in Modes : Start(resume)) \/ Step \/ Crash \/ Others

Spec == Init /\ [][Next]_vars

\* A started run goes on, and the operator starts another while the ticket is
\* not Done.
Fairness == WF_vars(Step) /\ WF_vars(\E resume \in Modes : Start(resume))
FairSpec == Spec /\ Fairness

-----------------------------------------------------------------------------
(* Properties.                                                              *)

\* The gates were green on the tree of h: on its files and no others, or, when the
\* coder may leave files uncommitted, on its files and such ones. The push uploads
\* commits only, so in the second case what was green is not all that is pushed.
Gated(h) ==
  \E tree \in history.gated :
    tree.head = h /\ (tree.uncommitted => CoderLeavesFiles)

\* What lands without anybody else's commits in it passed the gates, base merge
\* included, and was approved as it is: what the gates saw is its very tree, unless
\* the coder left files there that it had not committed.
MergedWasGatedAndApproved ==
  \A h \in history.landed :
    h.work \cap history.foreign = {} => Gated(h) /\ h \in history.approved

\* So did, as to the gates, all that is on GitHub without others' commits: the code
\* calls the pushed tree the verified one, and it is when everything is committed.
PushedWasGated ==
  remote # NoHead /\ remote.work \cap history.foreign = {} => Gated(remote)

\* The ticket is Done only once its pull request is merged.
DoneOnlyMerged == jira = "Done" => history.landed # {}

\* While every run is a resumed one, the code under way is of the plan under way.
\* About: the checkpoints of ticket_pipeline.py, which name no plan, and the order in
\* which a resumed run loads or makes them.
OnePlanThroughout == run.code # "stale"

\* A merge may be repeated by the next run, when the first was cut short after it.
\* While every run is a resumed one, it lands the same work: what differs from one
\* merge to the next is others'.
\* About: code.json, its deletion and its writing, against the worktree, the branch
\* and the pull request that an interrupted run leaves behind.
LandsOneWork ==
  \A g, h \in history.landed : g.work \ history.foreign = h.work \ history.foreign

\* However often it is interrupted, resuming carries the ticket to Done, unless a
\* code.json torn inside a character is left behind: that raises out of every resumed
\* run and is never deleted, though _load_checkpoint promises to delete a corrupt file
\* "so the stage re-runs cleanly".
ResumingFinishes == <>(jira = "Done") \/ <>[](ckpt["code"] = "undecodable")

\* Claimed of the pre-merge gate: the head that is merged is approved.
MergesApprovedHead ==
  [][history'.landed # history.landed => effective_review_state(remote) = "APPROVED"]_vars

=============================================================================
