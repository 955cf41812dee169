------------------------ MODULE TicketPipeline_proofs ------------------------
(***************************************************************************)
(* Proofs about TicketPipeline for any bounds, any order of clean and      *)
(* resumed runs and any of the things that may happen around them.  What   *)
(* is pushed is what the gates just saw, and what is merged is either what *)
(* was pushed and then approved, or holds a commit somebody else pushed in *)
(* between.                                                                *)
(***************************************************************************)
EXTENDS TicketPipeline, TLAPS

Clean(h) == Work(h) \cap history.foreign = {}

\* The inductive invariant says at which stage what the next one relies on has
\* been established, and that nothing around the run takes it back.
StageInv ==
  /\ run.at \in {"create_pr", "review", "list", "merge"} => remote # NoHead
  /\ pr = "open" => remote # NoHead
  /\ At("push") /\ worktree = "valid" => Gated(branch)
  /\ uncommitted => CoderLeavesFiles
  /\ run.at \in {"list", "merge"} /\ Clean(remote) => remote \in history.approved
  /\ At("jira") => history.landed # {}

Safe == StageInv /\ PushedWasGated /\ MergedWasGatedAndApproved /\ DoneOnlyMerged

Inv == TypeOK /\ Safe

\* Nothing has been pushed, approved or merged to begin with.
LEMMA InitInv == Init => Inv
<1> SUFFICES ASSUME Init PROVE Inv
  OBVIOUS
<1>1. TypeOK
  <2>1. run \in Runs
    BY DEF Init, Runs, NoRun
  <2>2. ckpt \in [Files -> Checkpoint] /\ ckpt["design"] # "several" /\ ckpt["code"] # "several"
    BY DEF Init, Files, Checkpoint
  <2>3. DOMAIN reviews = {}
    BY DEF Init, NoReviews
  <2>4. history \in [gated : SUBSET Trees, approved : SUBSET Heads, landed : SUBSET Heads,
                     foreign : SUBSET (1 .. MaxCommits)]
    BY DEF Init
  <2>5. commits \in 0 .. MaxCommits /\ mishaps \in 0 .. MaxMishaps
    <3>1. commits = 0 /\ mishaps = 0
      BY DEF Init
    <3>2. MaxCommits \in Nat /\ MaxMishaps \in Nat
      BY PipelineAssumption
    <3> QED
      BY <3>1, <3>2
  <2> QED
    BY <2>1, <2>2, <2>3, <2>4, <2>5 DEF Init, TypeOK
<1>2. StageInv
  BY DEF Init, StageInv, NoRun, At
<1> QED
  BY <1>1, <1>2 DEF Inv, Safe, Init, PushedWasGated, MergedWasGatedAndApproved, DoneOnlyMerged

-----------------------------------------------------------------------------
(* Type correctness, one action at a time.                                  *)

CkptOK == /\ ckpt \in [Files -> Checkpoint]
          /\ ckpt["design"] # "several" /\ ckpt["code"] # "several"

RunOK == run \in Runs

MishapsOK == mishaps \in 0 .. MaxMishaps

CloneOK == /\ localBase \in Nat
           /\ worktree \in {"absent", "valid", "broken"}
           /\ branch \in Heads \cup {NoHead}
           /\ worktree = "valid" => branch # NoHead

FilesOK == uncommitted \in BOOLEAN /\ (uncommitted => worktree = "valid")

CommitsOK == commits \in 0 .. MaxCommits

PrOK == /\ originBase \in Nat
        /\ remote \in Heads \cup {NoHead}
        /\ pr \in {"none", "open", "merged"}

ReviewsOK == \A h \in DOMAIN reviews : h \in Heads /\ reviews[h] \in Verdicts

HistoryOK == history \in [gated : SUBSET Trees, approved : SUBSET Heads,
                          landed : SUBSET Heads, foreign : SUBSET (1 .. MaxCommits)]

JiraOK == jira \in {"To Do", "Done"}

\* What the gates look at in a valid worktree.
Tree == [head |-> branch, uncommitted |-> uncommitted]

Parts == /\ RunOK /\ CkptOK /\ MishapsOK /\ CloneOK /\ FilesOK /\ CommitsOK
         /\ PrOK /\ ReviewsOK /\ HistoryOK /\ JiraOK

\* TypeOK by the state it is about, so that a step is looked at part by part.
LEMMA TypeParts == (TypeOK <=> Parts) /\ (TypeOK' <=> Parts')
BY DEF TypeOK, Parts, RunOK, CkptOK, MishapsOK, CloneOK, FilesOK, CommitsOK, PrOK, ReviewsOK,
       HistoryOK, JiraOK

\* A part whose variables do not change keeps its type.
LEMMA Unchanged ==
  /\ UNCHANGED run => (RunOK <=> RunOK')
  /\ UNCHANGED ckpt => (CkptOK <=> CkptOK')
  /\ UNCHANGED mishaps => (MishapsOK <=> MishapsOK')
  /\ UNCHANGED <<localBase, worktree, branch>> => (CloneOK <=> CloneOK')
  /\ UNCHANGED <<worktree, uncommitted>> => (FilesOK <=> FilesOK')
  /\ UNCHANGED commits => (CommitsOK <=> CommitsOK')
  /\ UNCHANGED <<originBase, remote, pr>> => (PrOK <=> PrOK')
  /\ UNCHANGED reviews => (ReviewsOK <=> ReviewsOK')
  /\ UNCHANGED history => (HistoryOK <=> HistoryOK')
  /\ UNCHANGED jira => (JiraOK <=> JiraOK')
<1>1. UNCHANGED <<worktree, uncommitted>> => (FilesOK <=> FilesOK')
  BY DEF FilesOK
<1> QED
  BY <1>1 DEF JiraOK, RunOK, CkptOK, MishapsOK, CloneOK, CommitsOK, PrOK, ReviewsOK, HistoryOK

\* The memory of a run that is over is NoRun.
LEMMA EndsType == Ends => RunOK'
BY DEF Ends, RunOK, Runs, NoRun

\* Going to the next stage changes nothing else of the run's memory.
LEMMA GotoType == ASSUME RunOK, NEW s \in Stages, Goto(s) PROVE RunOK'
BY DEF Goto, RunOK, Runs

\* Mishaps are counted up to their bound.
LEMMA MishapType == ASSUME MishapsOK, Mishap PROVE MishapsOK'
<1>1. MaxMishaps \in Nat
  BY PipelineAssumption
<1> QED
  BY <1>1 DEF MishapsOK, Mishap

\* Writing a checkpoint other than the plan's never makes it "several".
LEMMA WriteType ==
  ASSUME CkptOK, NEW f \in Files, NEW v \in Checkpoint \ {"several"}, Write(f, v)
  PROVE  CkptOK'
BY DEF CkptOK, Write, Files

\* Submitting a review adds a verdict for GitHub's head and, maybe, an approval.
LEMMA SubmitType ==
  ASSUME ReviewsOK, HistoryOK, remote \in Heads, NEW v \in Verdicts, Submit(v)
  PROVE  ReviewsOK' /\ HistoryOK'
<1>1. ReviewsOK'
  BY DEF ReviewsOK, Submit
<1>2. HistoryOK'
  BY DEF HistoryOK, Submit
<1> QED
  BY <1>1, <1>2

\* A run that aborts changes the run and the mishaps only.
LEMMA AbortType == ASSUME Parts, Abort PROVE Parts'
BY Unchanged, EndsType, MishapType DEF Abort, disk, github, Parts

\* Starting a run and its checkpointed stages.
LEMMA StageTypes ==
  ASSUME Parts, \/ \E resume \in Modes : Start(resume)
                \/ Readiness \/ Plan \/ Design \/ VerifyCommits
  PROVE  Parts'
<1> USE DEF Parts, disk, github
<1>1. CASE \E resume \in Modes : Start(resume)
  <2>1. PICK resume \in BOOLEAN : Start(resume)
    BY <1>1, PipelineAssumption
  <2>2. RunOK'
    BY <2>1 DEF Start, RunOK, Runs, NoRun, Stages
  <2>3. CkptOK'
    BY <2>1 DEF Start, CkptOK, _validate_checkpoints, Files, Checkpoint
  <2> QED
    BY <2>1, <2>2, <2>3, Unchanged DEF Start
<1>2. CASE Readiness
  BY <1>2, AbortType, Unchanged, GotoType DEF Readiness, Stages
<1>3. CASE Plan
  <2>1. RunOK'
    BY <1>3, EndsType, GotoType DEF Plan, Stages
  <2>2. CkptOK'
    BY <1>3, Unchanged DEF Plan, NewPlan, CkptOK, Files, Checkpoint
  <2>3. MishapsOK'
    BY <1>3, MishapType, Unchanged DEF Plan
  <2> QED
    BY <1>3, <2>1, <2>2, <2>3, Unchanged DEF Plan
<1>4. CASE Design
  <2>1. CkptOK'
    BY <1>4, Unchanged, WriteType DEF Design, Files, Checkpoint
  <2> QED
    BY <1>4, <2>1, Unchanged, GotoType DEF Design, Stages
<1>5. CASE VerifyCommits
  <2>1. CkptOK'
    BY <1>5, Unchanged, WriteType DEF VerifyCommits, Files, Checkpoint
  <2> QED
    BY <1>5, <2>1, Unchanged, GotoType DEF VerifyCommits, Stages
<1> QED
  BY <1>1, <1>2, <1>3, <1>4, <1>5

\* The clone, the worktree and the branch.
LEMMA CloneTypes ==
  ASSUME Parts, \/ Clone \/ WorktreeAdd \/ Code \/ SyncBase \/ Gates
  PROVE  Parts'
<1> USE DEF Parts, disk, github
<1>1. CASE Clone
  <2>1. CloneOK' /\ FilesOK' /\ MishapsOK'
    <3>1. CASE RefreshClone /\ UNCHANGED mishaps
      BY <3>1, Unchanged DEF RefreshClone, CloneOK, PrOK
    <3>2. CASE Reclone /\ Mishap
      BY <3>2, MishapType DEF Reclone, CloneOK, FilesOK, PrOK
    <3> QED
      BY <1>1, <3>1, <3>2, Unchanged DEF Clone
  <2>2. RunOK'
    BY <1>1, GotoType DEF Clone, Stages
  <2> QED
    BY <1>1, <2>1, <2>2, Unchanged DEF Clone
<1>2. CASE WorktreeAdd
  <2>1. [base |-> localBase, work |-> {}] \in Heads
    BY DEF CloneOK, Heads
  <2>2. CloneOK'
    BY <1>2, <2>1, PipelineAssumption DEF WorktreeAdd, CloneOK
  <2>3. RunOK'
    BY <1>2, EndsType, GotoType DEF WorktreeAdd, Stages
  <2>4. FilesOK'
    BY <1>2 DEF WorktreeAdd, FilesOK
  <2> QED
    BY <1>2, <2>2, <2>3, <2>4, Unchanged DEF WorktreeAdd
<1>3. CASE Code
  <2>1. CASE Loads("code")
    <3>1. ckpt["code"] \in {"current", "stale"} /\ ~Unreadable("code")
      BY <2>1 DEF Loads, Unreadable, CkptOK, Files, Checkpoint, Torn
    <3>2. /\ run' = [run EXCEPT !.at = "sync", !.code = ckpt["code"]]
          /\ UNCHANGED <<ckpt, commits, uncommitted, branch>>
      BY <1>3, <2>1, <3>1 DEF Code
    <3>3. RunOK'
      BY <3>1, <3>2 DEF RunOK, Runs, Stages
    <3> QED
      BY <1>3, <3>2, <3>3, Unchanged DEF Code
  <2>2. CASE ~Loads("code") /\ Ends /\ UNCHANGED <<ckpt, commits, uncommitted, branch>>
    BY <1>3, <2>2, EndsType, Unchanged DEF Code
  <2>3. CASE ~Loads("code") /\ ~Unreadable("code")
    <3>1. CoderRuns /\ run' = [run EXCEPT !.at = "verify", !.code = "current"]
      BY <1>3, <2>3 DEF Code
    <3>2. RunOK'
      BY <3>1 DEF RunOK, Runs, Stages
    <3>3. CkptOK'
      BY <1>3, <2>3, Unchanged, WriteType DEF Code, Files, Checkpoint
    <3>4. CommitsOK' /\ CloneOK'
      <4>1. CASE UNCHANGED <<commits, branch>>
        BY <1>3, <4>1, Unchanged DEF Code
      <4>2. CASE /\ worktree = "valid" /\ commits < MaxCommits /\ commits' = commits + 1
                 /\ branch' = [branch EXCEPT !.work = @ \cup {commits + 1}]
        <5>1. commits + 1 \in 1 .. MaxCommits /\ MaxCommits \in Nat
          BY <4>2, PipelineAssumption DEF CommitsOK
        <5>2. branch \in Heads /\ branch' \in Heads
          BY <4>2, <5>1 DEF CloneOK, Heads
        <5>3. branch' # NoHead
          BY <5>2, PipelineAssumption
        <5> QED
          BY <1>3, <4>2, <5>1, <5>2, <5>3 DEF Code, CloneOK, CommitsOK
      <4> QED
        BY <3>1, <4>1, <4>2 DEF CoderRuns
    <3>5. FilesOK'
      <4>1. uncommitted' \in {FALSE, worktree = "valid" /\ CoderLeavesFiles} /\ UNCHANGED worktree
        BY <1>3, <3>1 DEF Code, CoderRuns
      <4> QED
        BY <4>1 DEF FilesOK
    <3> QED
      BY <1>3, <3>2, <3>3, <3>4, <3>5, Unchanged DEF Code
  <2> QED
    BY <1>3, <2>1, <2>2, <2>3 DEF Code
<1>4. CASE SyncBase
  <2>1. CASE /\ worktree = "valid" /\ branch' = Synced(branch) /\ Goto("gates")
             /\ UNCHANGED <<ckpt, localBase, worktree, uncommitted, github, jira, commits,
                            mishaps, history>>
    <3>1. branch \in Heads /\ branch' \in Heads
      BY <2>1 DEF CloneOK, Heads, Synced, PrOK
    <3>2. CloneOK'
      BY <2>1, <3>1, PipelineAssumption DEF CloneOK
    <3> QED
      BY <2>1, <3>2, GotoType, Unchanged DEF Stages
  <2>2. CASE Ends /\ UNCHANGED <<disk, github, jira, commits, mishaps, history>>
    BY <2>2, EndsType, Unchanged
  <2> QED
    BY <1>4, <2>1, <2>2, AbortType DEF SyncBase
<1>5. CASE Gates
  <2>1. CASE /\ Goto("push") /\ UNCHANGED <<disk, github, jira, commits, mishaps>>
             /\ history' = IF worktree = "valid" THEN [history EXCEPT !.gated = @ \cup {Tree}]
                           ELSE history
    <3>1. worktree = "valid" => Tree \in Trees
      BY PipelineAssumption DEF Tree, Trees, CloneOK, FilesOK
    <3>2. HistoryOK'
      BY <2>1, <3>1 DEF HistoryOK
    <3> QED
      BY <2>1, <3>2, GotoType, Unchanged DEF Stages
  <2> QED
    BY <1>5, <2>1, AbortType DEF Gates, Tree
<1> QED
  BY <1>1, <1>2, <1>3, <1>4, <1>5

\* GitHub and Jira. The branch has been pushed when the pull request is opened.
LEMMA GitHubTypes ==
  ASSUME Parts, StageInv,
         Push \/ CreatePr \/ Review \/ ListReviews \/ Merge \/ TransitionToDone
  PROVE  Parts'
<1> USE DEF Parts, disk, github
<1>0. run.at \in {"create_pr", "review", "list", "merge"} => remote \in Heads
  BY DEF StageInv, PrOK
<1>1. CASE Push
  <2>1. CanPush => branch \in Heads
    BY DEF CanPush, CloneOK
  <2>2. PrOK'
    BY <1>1, <2>1 DEF Push, PrOK
  <2>3. RunOK' /\ MishapsOK'
    BY <1>1, EndsType, GotoType, MishapType, Unchanged DEF Push, Stages
  <2> QED
    BY <1>1, <2>2, <2>3, Unchanged DEF Push
<1>2. CASE CreatePr
  <2>1. remote \in Heads
    BY <1>0, <1>2 DEF CreatePr, At
  <2>2. RunOK'
    <3>1. CASE run' = [run EXCEPT !.at = "review", !.prHead = remote]
      BY <2>1, <3>1 DEF RunOK, Runs, Stages
    <3> QED
      BY <1>2, <3>1, EndsType DEF CreatePr
  <2>3. ReviewsOK'
    BY <1>2, Unchanged DEF CreatePr, ReviewsOK, NoReviews
  <2>4. MishapsOK' /\ PrOK'
    BY <1>2, MishapType, Unchanged DEF CreatePr, PrOK
  <2> QED
    BY <1>2, <2>2, <2>3, <2>4, Unchanged DEF CreatePr
<1>3. CASE Review
  <2>1. remote \in Heads
    BY <1>0, <1>3 DEF Review, At
  <2>2. CASE /\ Submit("APPROVED") /\ IF run.again THEN Goto("merge") ELSE Goto("list")
             /\ UNCHANGED <<disk, originBase, remote, pr, jira, commits, mishaps>>
    BY <2>1, <2>2, SubmitType, GotoType, Unchanged DEF Verdicts, Stages
  <2>3. CASE /\ Mishap /\ Submit("CHANGES_REQUESTED") /\ Ends
             /\ UNCHANGED <<disk, originBase, remote, pr, jira, commits>>
    BY <2>1, <2>3, SubmitType, MishapType, EndsType, Unchanged DEF Verdicts
  <2> QED
    BY <1>3, <2>2, <2>3, AbortType DEF Review
<1>4. CASE ListReviews
  <2>1. CASE \/ run' = [run EXCEPT !.at = "merge"]
             \/ run' = [run EXCEPT !.at = "review", !.again = TRUE]
    <3>1. RunOK'
      BY <2>1 DEF RunOK, Runs, Stages
    <3> QED
      BY <1>4, <3>1, AbortType, Unchanged DEF ListReviews
  <2> QED
    BY <1>4, <2>1, AbortType DEF ListReviews
<1>5. CASE Merge
  <2>1. CASE Abort
    BY <2>1, AbortType
  <2>2. CASE ~Abort
    <3>1. remote \in Heads
      BY <1>0, <1>5 DEF Merge, At
    <3>2. HistoryOK'
      BY <1>5, <2>2, <3>1 DEF Merge, HistoryOK
    <3>3. PrOK'
      BY <1>5, <2>2 DEF Merge, PrOK
    <3>4. RunOK' /\ MishapsOK'
      BY <1>5, <2>2, EndsType, GotoType, MishapType, Unchanged DEF Merge, Stages
    <3> QED
      BY <1>5, <2>2, <3>2, <3>3, <3>4, Unchanged DEF Merge
  <2> QED
    BY <2>1, <2>2
<1>6. CASE TransitionToDone
  <2>1. CASE Ends /\ jira' = "Done" /\ UNCHANGED <<disk, github, commits, mishaps, history>>
    BY <2>1, EndsType, Unchanged DEF JiraOK
  <2> QED
    BY <1>6, <2>1, AbortType DEF TransitionToDone
<1> QED
  BY <1>1, <1>2, <1>3, <1>4, <1>5, <1>6

\* A crash, and what others do.
LEMMA OtherTypes == ASSUME Parts, StageInv, Crash \/ Others PROVE Parts'
<1> USE DEF Parts, disk, github
<1>1. CASE Crash
  <2>1. CkptOK'
    <3>1. ASSUME NEW f \in Writing, NEW torn \in Torn, Write(f, torn) PROVE CkptOK'
      BY <3>1, WriteType DEF Writing, Checkpoint, Torn
    <3> QED
      BY <1>1, <3>1, Unchanged DEF Crash, Torn
  <2>2. FilesOK'
    BY <1>1 DEF Crash, CoderAtWork, FilesOK
  <2> QED
    BY <1>1, <2>1, <2>2, EndsType, MishapType, Unchanged DEF Crash
<1>2. CASE BaseMoves
  <2>1. PrOK'
    BY <1>2 DEF BaseMoves, PrOK
  <2> QED
    BY <1>2, <2>1, Unchanged DEF BaseMoves
<1>3. CASE OtherTicketClones
  <2>1. CASE RefreshClone /\ UNCHANGED mishaps
    <3>1. CloneOK'
      BY <2>1 DEF RefreshClone, CloneOK, PrOK
    <3> QED
      BY <1>3, <2>1, <3>1, Unchanged DEF OtherTicketClones, RefreshClone
  <2>2. CASE Reclone /\ Mishap
    <3>1. CloneOK' /\ FilesOK'
      BY <2>2 DEF Reclone, CloneOK, FilesOK, PrOK
    <3> QED
      BY <1>3, <2>2, <3>1, MishapType, Unchanged DEF OtherTicketClones
  <2> QED
    BY <1>3, <2>1, <2>2 DEF OtherTicketClones
<1>4. CASE WorktreeHollowed
  <2>1. CloneOK' /\ FilesOK'
    BY <1>4 DEF WorktreeHollowed, CloneOK, FilesOK
  <2> QED
    BY <1>4, <2>1, MishapType, Unchanged DEF WorktreeHollowed
<1>5. CASE OtherReview
  <2>1. PICK v \in Verdicts : Submit(v)
    BY <1>5 DEF OtherReview, Verdicts
  <2>2. remote \in Heads
    BY <1>5 DEF OtherReview, StageInv, PrOK
  <2>3. ReviewsOK' /\ HistoryOK'
    BY <2>1, <2>2, SubmitType
  <2> QED
    BY <1>5, <2>3, Unchanged DEF OtherReview
<1>6. CASE OtherPush
  <2>1. commits + 1 \in 1 .. MaxCommits /\ MaxCommits \in Nat
    BY <1>6, PipelineAssumption DEF OtherPush, CommitsOK
  <2>2. remote \in Heads /\ remote' \in Heads
    BY <1>6, <2>1 DEF OtherPush, PrOK, Heads
  <2>3. PrOK' /\ CommitsOK'
    BY <1>6, <2>1, <2>2 DEF OtherPush, PrOK, CommitsOK
  <2>4. HistoryOK'
    BY <1>6, <2>1 DEF OtherPush, HistoryOK
  <2> QED
    BY <1>6, <2>3, <2>4, Unchanged DEF OtherPush
<1> QED
  BY <1>1, <1>2, <1>3, <1>4, <1>5, <1>6 DEF Others

-----------------------------------------------------------------------------
(* Safety.                                                                  *)

\* A step that leaves GitHub's branch, Jira and the history alone is safe when it
\* goes to a stage that relies on nothing, or on what its own guard relies on, and
\* files are left uncommitted by a coder only.
LEMMA QuietStep ==
  ASSUME Safe, UNCHANGED <<remote, pr, jira, history>>,
         uncommitted' => uncommitted \/ CoderLeavesFiles,
         run'.at \notin {"push", "create_pr", "review", "list", "merge", "jira"}
  PROVE  Safe'
BY DEF Safe, StageInv, PushedWasGated, MergedWasGatedAndApproved, DoneOnlyMerged, Gated, At, Clean

\* A step of another process that leaves those alone, and a valid worktree as it is
\* or broken.
LEMMA SidelongStep ==
  ASSUME Safe, UNCHANGED <<run, remote, pr, jira, history>>,
         worktree' = "valid" => UNCHANGED <<worktree, branch>>,
         uncommitted' => uncommitted
  PROVE  Safe'
BY DEF Safe, StageInv, PushedWasGated, MergedWasGatedAndApproved, DoneOnlyMerged, Gated, At, Clean

\* Ending a run early relies on nothing.
LEMMA AbortSafe == ASSUME Safe, Abort PROVE Safe'
BY QuietStep DEF Abort, Ends, NoRun, disk, github

\* Approving, rejecting or dismissing only adds to what has been approved.
LEMMA SubmitSafe ==
  ASSUME Safe, HistoryOK, NEW v \in Verdicts, Submit(v), UNCHANGED <<remote, pr, jira>>
  PROVE  /\ PushedWasGated' /\ MergedWasGatedAndApproved' /\ DoneOnlyMerged'
         /\ history'.gated = history.gated /\ history'.foreign = history.foreign
         /\ history'.landed = history.landed
         /\ history.approved \subseteq history'.approved
         /\ v = "APPROVED" => remote \in history'.approved
<1>1. /\ history'.gated = history.gated /\ history'.foreign = history.foreign
      /\ history'.landed = history.landed
      /\ history.approved \subseteq history'.approved
      /\ v = "APPROVED" => remote \in history'.approved
  BY DEF Submit, HistoryOK
<1>2. PushedWasGated' /\ DoneOnlyMerged'
  BY <1>1 DEF Safe, PushedWasGated, DoneOnlyMerged, Gated
<1>3. MergedWasGatedAndApproved'
  BY <1>1 DEF Safe, MergedWasGatedAndApproved, Gated
<1> QED
  BY <1>1, <1>2, <1>3

\* Every step keeps what has been pushed, approved and merged safe.
LEMMA SafeStep ==
  ASSUME Parts, Safe, Next
  PROVE  Safe'
<1> USE DEF disk, github
<1>1. CASE \E resume \in Modes : Start(resume)
  BY <1>1, QuietStep DEF Start, NoRun
<1>2. CASE Readiness \/ Plan \/ Design
  <2>1. run'.at \in {"plan", "design", "clone", "idle"}
    BY <1>2 DEF Readiness, Plan, Design, Abort, Ends, NoRun, Goto, Parts, RunOK, Runs
  <2> QED
    BY <1>2, <2>1, QuietStep DEF Readiness, Plan, Design, Abort
<1>3. CASE Clone \/ WorktreeAdd \/ Code \/ VerifyCommits
  <2>1. run'.at \in {"code", "worktree", "sync", "verify", "idle"}
    <3>1. \A stage \in Stages : Goto(stage) => run'.at = stage
      BY DEF Goto, Parts, RunOK, Runs
    <3>2. CASE Clone \/ VerifyCommits
      BY <3>1, <3>2 DEF Clone, VerifyCommits, Stages
    <3>3. CASE WorktreeAdd
      BY <3>1, <3>3 DEF WorktreeAdd, Ends, NoRun, Stages
    <3>4. CASE Code
      <4>1. CASE Ends
        BY <4>1 DEF Ends, NoRun
      <4>2. CASE ~Ends
        BY <3>4, <4>2 DEF Code, Parts, RunOK, Runs
      <4> QED
        BY <4>1, <4>2
    <3> QED
      BY <1>3, <3>2, <3>3, <3>4
  <2>2. uncommitted' => uncommitted \/ CoderLeavesFiles
    <3>1. CASE Clone
      BY <3>1 DEF Clone, RefreshClone, Reclone
    <3>2. CASE Code
      BY <3>2 DEF Code, CoderRuns
    <3> QED
      BY <1>3, <3>1, <3>2 DEF WorktreeAdd, VerifyCommits
  <2> QED
    BY <1>3, <2>1, <2>2, QuietStep DEF Clone, WorktreeAdd, Code, VerifyCommits
<1>4. CASE SyncBase
  <2>1. run'.at \in {"gates", "idle"}
    BY <1>4 DEF SyncBase, Abort, Ends, NoRun, Goto, Parts, RunOK, Runs
  <2> QED
    BY <1>4, <2>1, QuietStep DEF SyncBase, Abort
<1>5. CASE Gates
  <2>1. CASE /\ Goto("push") /\ UNCHANGED <<disk, github, jira, commits, mishaps>>
             /\ history' = IF worktree = "valid" THEN [history EXCEPT !.gated = @ \cup {Tree}]
                           ELSE history
    <3>1. /\ history'.approved = history.approved /\ history'.foreign = history.foreign
          /\ history'.landed = history.landed
          /\ history.gated \subseteq history'.gated
          /\ worktree = "valid" => Tree \in history'.gated
      BY <2>1 DEF Parts, HistoryOK
    <3>2. run'.at = "push"
      BY <2>1 DEF Goto, Parts, RunOK, Runs
    <3>3. \A h : Gated(h) => Gated(h)'
      BY <3>1 DEF Gated
    <3>4. worktree = "valid" => Gated(branch)'
      <4>1. Tree.head = branch /\ (Tree.uncommitted => CoderLeavesFiles)
        BY DEF Tree, Safe, StageInv
      <4> QED
        BY <2>1, <3>1, <4>1 DEF Gated
    <3>5. StageInv'
      BY <2>1, <3>1, <3>2, <3>4 DEF Safe, StageInv, At, Clean
    <3>6. PushedWasGated' /\ MergedWasGatedAndApproved' /\ DoneOnlyMerged'
      <4>1. Gated(remote) => Gated(remote)'
        BY <2>1, <3>1 DEF Gated
      <4> QED
        BY <2>1, <3>1, <3>3, <4>1 DEF Safe, PushedWasGated, MergedWasGatedAndApproved,
                                      DoneOnlyMerged
    <3> QED
      BY <3>5, <3>6 DEF Safe
  <2> QED
    BY <1>5, <2>1, AbortSafe DEF Gates, Tree
<1>6. CASE Push
  <2>1. CASE CanPush /\ remote' = branch /\ Goto("create_pr") /\ UNCHANGED mishaps
    <3>1. run'.at = "create_pr" /\ branch # NoHead
      BY <2>1 DEF Goto, Parts, RunOK, Runs, CanPush, CloneOK
    <3>2. Gated(branch) /\ UNCHANGED <<history, jira, pr, uncommitted>>
      BY <1>6, <2>1 DEF Push, CanPush, Safe, StageInv
    <3>3. Gated(remote)'
      BY <2>1, <3>2 DEF Gated
    <3>4. \A h : Gated(h) => Gated(h)'
      BY <3>2 DEF Gated
    <3>5. StageInv'
      BY <2>1, <3>1, <3>2 DEF Safe, StageInv, At, Clean
    <3> QED
      BY <3>2, <3>3, <3>4, <3>5 DEF Safe, PushedWasGated, MergedWasGatedAndApproved,
                                    DoneOnlyMerged
  <2>2. CASE Ends /\ UNCHANGED remote
    BY <1>6, <2>2, QuietStep DEF Push, Ends, NoRun
  <2> QED
    BY <1>6, <2>1, <2>2 DEF Push
<1>7. CASE CreatePr
  <2>1. CASE Ends /\ UNCHANGED pr
    BY <1>7, <2>1, QuietStep DEF CreatePr, Ends, NoRun
  <2>2. CASE run' = [run EXCEPT !.at = "review", !.prHead = remote]
    <3>1. run'.at = "review" /\ remote # NoHead
      BY <1>7, <2>2 DEF CreatePr, At, Parts, RunOK, Runs, Safe, StageInv
    <3> QED
      BY <1>7, <3>1 DEF CreatePr, Safe, StageInv, PushedWasGated, MergedWasGatedAndApproved,
                        DoneOnlyMerged, Gated, At, Clean
  <2> QED
    BY <1>7, <2>1, <2>2 DEF CreatePr
<1>8. CASE Review
  <2>1. CASE /\ Submit("APPROVED") /\ IF run.again THEN Goto("merge") ELSE Goto("list")
             /\ UNCHANGED <<disk, originBase, remote, pr, jira, commits, mishaps>>
    <3>1. run'.at \in {"list", "merge"} /\ remote # NoHead
      BY <1>8, <2>1 DEF Review, Goto, At, Parts, RunOK, Runs, Safe, StageInv
    <3>2. /\ PushedWasGated' /\ MergedWasGatedAndApproved' /\ DoneOnlyMerged'
          /\ remote \in history'.approved
      BY <2>1, SubmitSafe DEF Verdicts, Parts
    <3>3. StageInv'
      BY <2>1, <3>1, <3>2 DEF Safe, StageInv, At
    <3> QED
      BY <3>2, <3>3 DEF Safe
  <2>2. CASE /\ Mishap /\ Submit("CHANGES_REQUESTED") /\ Ends
             /\ UNCHANGED <<disk, originBase, remote, pr, jira, commits>>
    <3>1. PushedWasGated' /\ MergedWasGatedAndApproved' /\ DoneOnlyMerged'
      BY <2>2, SubmitSafe DEF Verdicts, Parts
    <3>2. StageInv'
      BY <2>2 DEF Ends, NoRun, Safe, StageInv, At
    <3> QED
      BY <3>1, <3>2 DEF Safe
  <2> QED
    BY <1>8, <2>1, <2>2, AbortSafe DEF Review
<1>9. CASE ListReviews
  <2>1. CASE Abort
    BY <2>1, AbortSafe
  <2>2. CASE ~Abort
    <3>1. run'.at \in {"merge", "review"} /\ UNCHANGED <<remote, pr, jira, history, disk>>
      BY <1>9, <2>2 DEF ListReviews, Parts, RunOK, Runs
    <3> QED
      BY <1>9, <3>1 DEF ListReviews, Safe, StageInv, PushedWasGated, MergedWasGatedAndApproved,
                        DoneOnlyMerged, Gated, At, Clean
  <2> QED
    BY <2>1, <2>2
<1>10. CASE Merge
  <2>1. CASE Abort
    BY <2>1, AbortSafe
  <2>2. CASE ~Abort
    <3>1. /\ run'.at \in {"jira", "idle"} /\ UNCHANGED <<remote, jira>> /\ pr' = "merged"
          /\ history' = [history EXCEPT !.landed = @ \cup {remote}]
      BY <1>10, <2>2 DEF Merge, Goto, Ends, NoRun, Parts, RunOK, Runs
    <3>2. /\ history'.approved = history.approved /\ history'.foreign = history.foreign
          /\ history'.landed = history.landed \cup {remote}
          /\ history'.gated = history.gated
      <4>1. HistoryOK
        BY DEF Parts
      <4> QED
        BY <3>1, <4>1 DEF HistoryOK
    <3>3. remote # NoHead /\ (Clean(remote) => Gated(remote) /\ remote \in history.approved)
      BY <1>10 DEF Merge, At, Safe, StageInv, PushedWasGated, Clean, Work
    <3>4. MergedWasGatedAndApproved'
      <4>1. ASSUME NEW h \in history'.landed, h.work \cap history'.foreign = {}
            PROVE  Gated(h)' /\ h \in history'.approved
        BY <3>2, <3>3, <4>1 DEF Safe, MergedWasGatedAndApproved, Gated, Clean, Work
      <4> QED
        BY <4>1 DEF MergedWasGatedAndApproved
    <3> QED
      BY <1>10, <2>2, <3>1, <3>2, <3>3, <3>4
         DEF Merge, Safe, StageInv, PushedWasGated, DoneOnlyMerged, Gated, At, Clean
  <2> QED
    BY <2>1, <2>2
<1>11. CASE TransitionToDone
  <2>1. CASE Ends /\ jira' = "Done" /\ UNCHANGED <<disk, github, commits, mishaps, history>>
    BY <1>11, <2>1 DEF TransitionToDone, Ends, NoRun, Safe, StageInv, PushedWasGated,
                       MergedWasGatedAndApproved, DoneOnlyMerged, Gated, At, Clean
  <2> QED
    BY <1>11, <2>1, AbortSafe DEF TransitionToDone
<1>12. CASE Crash
  BY <1>12, QuietStep DEF Crash, CoderAtWork, Ends, NoRun
<1>13. CASE BaseMoves \/ OtherTicketClones \/ WorktreeHollowed
  BY <1>13, SidelongStep DEF BaseMoves, OtherTicketClones, RefreshClone, Reclone, WorktreeHollowed
<1>14. CASE OtherReview
  <2>1. PICK v \in Verdicts : Submit(v)
    BY <1>14 DEF OtherReview, Verdicts
  <2>2. HistoryOK /\ UNCHANGED <<run, disk, remote, pr, jira>>
    BY <1>14 DEF OtherReview, Parts
  <2>3. /\ PushedWasGated' /\ MergedWasGatedAndApproved' /\ DoneOnlyMerged'
        /\ history'.gated = history.gated /\ history'.foreign = history.foreign
        /\ history'.landed = history.landed
        /\ history.approved \subseteq history'.approved
    BY <2>1, <2>2, SubmitSafe
  <2>4. StageInv'
    BY <2>2, <2>3 DEF Safe, StageInv, Gated, At, Clean
  <2> QED
    BY <2>3, <2>4 DEF Safe
<1>15. CASE OtherPush
  <2>1. /\ history'.approved = history.approved /\ history'.landed = history.landed
        /\ history'.gated = history.gated
        /\ history'.foreign = history.foreign \cup {commits + 1}
    BY <1>15 DEF OtherPush, Parts, HistoryOK
  <2>2. remote \in Heads /\ remote' \in Heads /\ commits + 1 \in Work(remote')
    <3>1. commits + 1 \in 1 .. MaxCommits
      BY <1>15, PipelineAssumption DEF OtherPush, Parts, CommitsOK
    <3> QED
      BY <1>15, <3>1, PipelineAssumption DEF OtherPush, Parts, PrOK, Heads, Work
  <2>3. remote' # NoHead /\ ~Clean(remote)'
    BY <2>1, <2>2, PipelineAssumption DEF Clean
  <2>4. MergedWasGatedAndApproved'
    BY <2>1 DEF Safe, MergedWasGatedAndApproved, Gated
  <2>5. PushedWasGated' /\ DoneOnlyMerged'
    BY <1>15, <2>1, <2>3 DEF OtherPush, Safe, PushedWasGated, DoneOnlyMerged, Clean, Work
  <2>6. StageInv'
    BY <1>15, <2>1, <2>3 DEF OtherPush, Safe, StageInv, Gated, At, Clean
  <2> QED
    BY <2>4, <2>5, <2>6 DEF Safe
<1> QED
  BY <1>1, <1>2, <1>3, <1>4, <1>5, <1>6, <1>7, <1>8, <1>9, <1>10, <1>11, <1>12, <1>13, <1>14,
     <1>15 DEF Next, Step, Others

-----------------------------------------------------------------------------
\* The invariant is inductive.
LEMMA StepInv == Inv /\ [Next]_vars => Inv'
<1>1. ASSUME Inv, Next PROVE Inv'
  <2>1. Parts /\ StageInv /\ Safe
    BY <1>1, TypeParts DEF Inv, Safe
  <2>2. Parts'
    BY <1>1, <2>1, StageTypes, CloneTypes, GitHubTypes, OtherTypes DEF Next, Step
  <2>3. Safe'
    BY <1>1, <2>1, SafeStep
  <2> QED
    BY <2>2, <2>3, TypeParts DEF Inv
<1>2. ASSUME Inv, UNCHANGED vars PROVE Inv'
  <2>1. Parts'
    BY <1>2, TypeParts, Unchanged DEF vars, disk, github, Parts, Inv
  <2>2. Safe'
    BY <1>2, SidelongStep DEF vars, disk, github, Inv
  <2> QED
    BY <2>1, <2>2, TypeParts DEF Inv
<1> QED
  BY <1>1, <1>2

\* The inductive invariant holds throughout: at every stage, what the stage relies
\* on has been established by the run or by an earlier one.
THEOREM Invariance == Spec => []Inv
BY InitInv, StepInv, PTL DEF Spec

\* Every value stays in its type; a valid worktree always has its branch.
THEOREM TypeCorrect == Spec => []TypeOK
<1>1. Inv => TypeOK
  BY DEF Inv
<1> QED
  BY <1>1, Invariance, PTL

\* Whatever the order of runs, what lands without others' commits in it is a head
\* that passed the gates and was approved.
THEOREM LandsGatedAndApproved == Spec => []MergedWasGatedAndApproved
<1>1. Inv => MergedWasGatedAndApproved
  BY DEF Inv, Safe
<1> QED
  BY <1>1, Invariance, PTL

\* The gates saw everything the pipeline put on GitHub, as it is there.
THEOREM PushesGated == Spec => []PushedWasGated
<1>1. Inv => PushedWasGated
  BY DEF Inv, Safe
<1> QED
  BY <1>1, Invariance, PTL

\* A ticket is never Done without a merge.
THEOREM DoneAfterMerge == Spec => []DoneOnlyMerged
<1>1. Inv => DoneOnlyMerged
  BY DEF Inv, Safe
<1> QED
  BY <1>1, Invariance, PTL

-----------------------------------------------------------------------------
(* One ticket, one plan, one work: what resuming every run is for.  From    *)
(* here on every run is a resumed one.                                      *)

\* A resumed run finds its plan's checkpoint or makes it, and the later ones are of
\* that plan: code.json is never of an earlier one, nor there, whole or truncated,
\* without the plan it is of.
PlanInv ==
  /\ ~At("idle") => run.resume
  /\ run.at \in Stages \ {"readiness", "plan"} => ckpt["plan"] = "current"
  /\ ckpt["code"] \in Torn \cup {"current"} => ckpt["plan"] = "current"
  /\ ckpt["plan"] # "stale" /\ ckpt["code"] # "stale" /\ run.code # "stale"

\* Nothing is there before the first run.
LEMMA PlanInit == Init => PlanInv
<1> SUFFICES ASSUME Init PROVE PlanInv
  OBVIOUS
<1>1. run.at = "idle" /\ run.code = "none"
  BY DEF Init, NoRun
<1>2. ckpt["plan"] = "absent" /\ ckpt["code"] = "absent"
  BY DEF Init, Files
<1> QED
  BY <1>1, <1>2 DEF PlanInv, At, Stages, Torn

\* A step that leaves the run and the checkpoints alone, or ends the run.
LEMMA PlanQuiet ==
  ASSUME PlanInv, UNCHANGED ckpt, UNCHANGED run \/ Ends
  PROVE  PlanInv'
BY DEF PlanInv, Ends, NoRun, At, Stages

\* Aborting a stage touches no checkpoint.
LEMMA PlanAbort == ASSUME PlanInv, Abort PROVE PlanInv'
BY PlanQuiet DEF Abort, disk

\* Going on to a later stage with the checkpoints as they are.
LEMMA PlanGoto ==
  ASSUME PlanInv, RunOK, UNCHANGED ckpt, ~At("idle"),
         NEW s \in Stages, Goto(s), s = "plan" \/ ckpt["plan"] = "current"
  PROVE  PlanInv'
<1>1. run'.at = s /\ run'.resume = run.resume /\ run'.code = run.code
  BY DEF Goto, RunOK, Runs
<1> QED
  BY <1>1 DEF PlanInv, At, Stages

\* Every step of a resumed run, and every step around it, keeps to one plan.
LEMMA PlanStep ==
  ASSUME Parts, PlanInv, Next, Modes \subseteq {TRUE}
  PROVE  PlanInv'
<1> USE DEF disk, github
<1>0. RunOK /\ CkptOK
  BY DEF Parts
<1>1. CASE \E resume \in Modes : Start(resume)
  <2>1. Start(TRUE)
    BY <1>1
  <2>2. run' = [NoRun EXCEPT !.at = "readiness", !.resume = TRUE]
    BY <2>1 DEF Start
  <2>3. run'.at = "readiness" /\ run'.resume /\ run'.code = "none"
    BY <2>2 DEF NoRun
  <2>4. /\ ckpt'["plan"] \in {ckpt["plan"], "absent"}
        /\ ckpt["plan"] = "current" => ckpt'["plan"] = "current"
        /\ ckpt'["code"] \in {ckpt["code"], "absent"}
    BY <2>1 DEF Start, _validate_checkpoints, Files, Torn
  <2> QED
    BY <2>3, <2>4 DEF PlanInv, At, Torn
<1>2. CASE Readiness
  BY <1>0, <1>2, PlanGoto, PlanAbort DEF Readiness, At, Stages
<1>3. CASE Plan
  <2>1. run.resume
    BY <1>3 DEF Plan, PlanInv, At
  <2>2. CASE Loads("plan") /\ UNCHANGED ckpt
    <3>1. ckpt["plan"] \in {"current", "several"}
      BY <1>0, <2>2 DEF Loads, CkptOK, Checkpoint, Files, PlanInv, Torn
    <3> QED
      BY <1>0, <1>3, <2>2, <3>1, PlanGoto, PlanQuiet DEF Plan, At, Stages
  <2>3. CASE ~Loads("plan")
    <3>1. ckpt["code"] \notin Torn \cup {"current", "stale"}
      BY <2>1, <2>3 DEF Loads, PlanInv, Torn
    <3>2. ckpt'["code"] = ckpt["code"]
      BY <1>3, <2>3, <3>1 DEF Plan, NewPlan, Files
    <3>3. \/ ckpt'["plan"] = "current" /\ Goto("design")
          \/ ckpt'["plan"] = "several" /\ Ends
      BY <1>3, <2>3 DEF Plan, NewPlan, Files
    <3>4. CASE ckpt'["plan"] = "several" /\ Ends
      BY <3>1, <3>2, <3>4 DEF PlanInv, Ends, NoRun, At, Stages
    <3>5. CASE ckpt'["plan"] = "current" /\ Goto("design")
      <4>1. run'.resume = run.resume /\ run'.code = run.code /\ run'.at = "design"
        BY <1>0, <3>5 DEF Goto, RunOK, Runs
      <4> QED
        BY <2>1, <3>1, <3>2, <3>5, <4>1 DEF PlanInv, At
    <3> QED
      BY <3>3, <3>4, <3>5
  <2> QED
    BY <1>3, <2>2, <2>3 DEF Plan
<1>4. CASE Design \/ VerifyCommits
  <2>1. ckpt["plan"] = "current" /\ run.resume
    BY <1>4 DEF Design, VerifyCommits, PlanInv, At, Stages
  <2>2. ckpt'["plan"] = ckpt["plan"] /\ ckpt'["code"] \in {ckpt["code"], "current"}
    BY <1>0, <1>4 DEF Design, VerifyCommits, Write, CkptOK, Files
  <2>3. run'.resume = run.resume /\ run'.code = run.code
    BY <1>0, <1>4 DEF Design, VerifyCommits, Goto, RunOK, Runs
  <2> QED
    BY <2>1, <2>2, <2>3 DEF PlanInv, At, Torn
<1>5. CASE Clone \/ WorktreeAdd \/ SyncBase \/ Gates \/ Push \/ ListReviews
  <2>1. ckpt["plan"] = "current" /\ ~At("idle")
    BY <1>5 DEF Clone, WorktreeAdd, SyncBase, Gates, Push, ListReviews, PlanInv, At, Stages
  <2>2. CASE Clone \/ WorktreeAdd
    BY <1>0, <2>1, <2>2, PlanGoto, PlanQuiet DEF Clone, WorktreeAdd, Stages
  <2>3. CASE SyncBase \/ Gates \/ Push
    BY <1>0, <2>1, <2>3, PlanGoto, PlanQuiet, PlanAbort DEF SyncBase, Gates, Push, Stages
  <2>4. CASE ListReviews
    <3>1. CASE \/ run' = [run EXCEPT !.at = "merge"]
               \/ run' = [run EXCEPT !.at = "review", !.again = TRUE]
      <4>1. run'.resume = run.resume /\ run'.code = run.code
        BY <1>0, <3>1 DEF RunOK, Runs
      <4> QED
        BY <2>1, <2>4, <3>1, <4>1, PlanAbort DEF ListReviews, PlanInv, At
    <3> QED
      BY <2>4, <3>1, PlanAbort DEF ListReviews
  <2> QED
    BY <1>5, <2>2, <2>3, <2>4
<1>6. CASE Code
  <2>1. CASE Ends /\ UNCHANGED ckpt
    BY <2>1, PlanQuiet
  <2>2. CASE ~Ends
    <3>1. ckpt["plan"] = "current" /\ run.resume
      BY <1>6 DEF Code, PlanInv, At, Stages
    <3>2. ckpt'["plan"] = ckpt["plan"] /\ ckpt'["code"] \in {ckpt["code"], "absent"}
      BY <1>0, <1>6 DEF Code, Write, CkptOK, Files
    <3>3. run'.resume = run.resume
      BY <1>0, <1>6, <2>2 DEF Code, RunOK, Runs
    <3>4. run'.code \in {ckpt["code"], "current"}
      BY <1>0, <1>6, <2>2 DEF Code, RunOK, Runs
    <3> QED
      BY <3>1, <3>2, <3>3, <3>4 DEF PlanInv, At
  <2>3. Ends => UNCHANGED ckpt
    <3>1. Ends => run'.at = "idle"
      BY DEF Ends, NoRun
    <3>2. run'.at = "verify" \/ UNCHANGED ckpt
      BY <1>0, <1>6 DEF Code, RunOK, Runs
    <3> QED
      BY <3>1, <3>2
  <2> QED
    BY <2>1, <2>2, <2>3
<1>7. CASE CreatePr \/ Review \/ Merge \/ TransitionToDone
  <2>1. ckpt["plan"] = "current" /\ ~At("idle") /\ UNCHANGED ckpt
    BY <1>7 DEF CreatePr, Review, Merge, TransitionToDone, Abort, PlanInv, At, Stages
  <2>2. CASE run' = [run EXCEPT !.at = "review", !.prHead = remote]
    <3>1. run'.resume = run.resume /\ run'.code = run.code
      BY <1>0, <2>2 DEF RunOK, Runs
    <3> QED
      BY <2>1, <3>1 DEF PlanInv, At
  <2>3. CASE Ends \/ Abort
    BY <2>1, <2>3, PlanQuiet, PlanAbort
  <2>4. CASE Goto("merge") \/ Goto("list") \/ Goto("jira")
    BY <1>0, <2>1, <2>4, PlanGoto DEF Stages
  <2> QED
    BY <1>7, <2>2, <2>3, <2>4 DEF CreatePr, Review, Merge, TransitionToDone
<1>8. CASE Crash
  <2>1. run'.at = "idle" /\ run'.code = "none" /\ ~At("idle")
    BY <1>8 DEF Crash, Ends, NoRun
  <2>2. CASE UNCHANGED ckpt
    BY <1>8, <2>2, PlanQuiet DEF Crash
  <2>3. ASSUME NEW f \in Writing, NEW torn \in Torn, Write(f, torn) PROVE PlanInv'
    <3>1. f \in Files
      BY DEF Writing
    <3>2. CASE f = "plan"
      <4>1. run.resume /\ ~Loads("plan")
        BY <2>1, <3>2 DEF Writing, PlanInv
      <4>2. ckpt["code"] \notin Torn \cup {"current", "stale"}
        BY <4>1 DEF Loads, PlanInv, Torn
      <4>3. ckpt'["code"] = ckpt["code"] /\ ckpt'["plan"] = torn
        BY <1>0, <2>3, <3>2 DEF Write, CkptOK, Files
      <4> QED
        BY <2>1, <4>2, <4>3 DEF PlanInv, At, Stages, Torn
    <3>3. CASE f # "plan"
      <4>1. run.at \in {"design", "verify"}
        BY <3>3 DEF Writing, At
      <4>2. ckpt["plan"] = "current"
        BY <4>1 DEF PlanInv, Stages
      <4>3. ckpt'["plan"] = ckpt["plan"] /\ ckpt'["code"] \in {ckpt["code"], torn}
        BY <1>0, <2>3, <3>1, <3>3 DEF Write, CkptOK, Files
      <4> QED
        BY <2>1, <4>2, <4>3 DEF PlanInv, At, Stages, Torn
    <3> QED
      BY <3>2, <3>3
  <2> QED
    BY <1>8, <2>2, <2>3 DEF Crash, Torn
<1>9. CASE Others
  BY <1>9, PlanQuiet DEF Others, BaseMoves, OtherTicketClones, WorktreeHollowed, OtherReview,
                         OtherPush
<1> QED
  BY <1>1, <1>2, <1>3, <1>4, <1>5, <1>6, <1>7, <1>8, <1>9 DEF Next, Step

\* The commits of a head that the pipeline made.
Own(h) == Work(h) \ history.foreign

\* What the coder commits is on the branch only, until it is pushed; once somebody
\* else's commit is on GitHub, no push is a fast-forward any more.
WhoseInv ==
  /\ Work(branch) \cap history.foreign = {} /\ Work(branch) \subseteq 1 .. commits
  /\ Work(remote) \subseteq 1 .. commits
  /\ \A h \in history.landed : Work(h) \subseteq 1 .. commits
  /\ history.foreign \subseteq Work(remote)

\* The branch is what GitHub has of it, and the next run will not code again.
Kept == Work(branch) = Work(remote) /\ ckpt["code"] = "current"

\* The worktree, once there, is not made anew; from the coder's first commit on, a
\* run that has come past the coder leaves code.json behind; and a run that finds a
\* merged pull request does not code.
KeepInv ==
  /\ At("worktree") => worktree = "absent"
  /\ remote # NoHead => worktree # "absent"
  /\ pr = "open" => Work(remote) # {}
  /\ run.at \in {"review", "list", "merge"} => Work(remote) # {}
  /\ run.at \in {"sync", "gates", "push"} /\ worktree = "valid" /\ Work(branch) # {} =>
       ckpt["code"] = "current"
  /\ history.foreign = {} /\ worktree = "valid" =>
       /\ At("create_pr") =>
            Work(branch) = Work(remote) /\ (Work(branch) # {} => ckpt["code"] = "current")
       /\ run.at \in {"review", "list", "merge"} => Kept
       /\ history.landed # {} => Kept /\ ~At("verify")

\* Whatever has landed is the work that is on GitHub.
LandedInv ==
  \A h \in history.landed : remote # NoHead /\ Work(remote) # {} /\ Own(h) = Own(remote)

WorkInv == WhoseInv /\ KeepInv /\ LandedInv

\* Nothing has been committed or pushed before the first run.
LEMMA WorkInit == Init => WorkInv
<1> SUFFICES ASSUME Init PROVE WorkInv
  OBVIOUS
<1>1. /\ run.at = "idle" /\ history.landed = {} /\ history.foreign = {}
      /\ Work(branch) = {} /\ Work(remote) = {} /\ remote = NoHead /\ pr = "none"
  BY DEF Init, NoRun, Work
<1> QED
  BY <1>1 DEF WorkInv, WhoseInv, KeepInv, LandedInv, At

\* A step that leaves the branches and the worktree alone, and goes to a stage that
\* relies on nothing; code.json may go unless it keeps a merged ticket from coding.
LEMMA WorkQuiet ==
  ASSUME WorkInv, UNCHANGED <<worktree, branch, remote, pr, commits>>,
         history'.landed = history.landed, history'.foreign = history.foreign,
         run'.at \in {"idle", "readiness", "plan", "design", "clone", "code", "jira"},
         \/ ckpt["code"] = "current" => ckpt'["code"] = "current"
         \/ history.landed = {} \/ history.foreign # {} \/ worktree # "valid"
  PROVE  WorkInv'
<1>1. WhoseInv'
  BY DEF WorkInv, WhoseInv, Work
<1>2. KeepInv'
  BY DEF WorkInv, KeepInv, Kept, Work, At
<1>3. LandedInv'
  BY DEF WorkInv, LandedInv, Own, Work
<1> QED
  BY <1>1, <1>2, <1>3 DEF WorkInv

\* A step of another process, as to what the pipeline relies on.
LEMMA WorkSidelong ==
  ASSUME WorkInv, UNCHANGED <<worktree, branch, remote, pr, commits>>,
         history'.landed = history.landed, history'.foreign = history.foreign,
         UNCHANGED <<run, ckpt>>
  PROVE  WorkInv'
<1>1. WhoseInv'
  BY DEF WorkInv, WhoseInv, Work
<1>2. KeepInv'
  BY DEF WorkInv, KeepInv, Kept, Work, At
<1>3. LandedInv'
  BY DEF WorkInv, LandedInv, Own, Work
<1> QED
  BY <1>1, <1>2, <1>3 DEF WorkInv

\* Ending a run, or aborting it, leaves the branches to the next one.
LEMMA WorkEnds ==
  ASSUME WorkInv, Ends, UNCHANGED <<worktree, branch, remote, pr, commits, history, ckpt>>
  PROVE  WorkInv'
BY WorkQuiet DEF Ends, NoRun

\* So does aborting it.
LEMMA WorkAbort == ASSUME WorkInv, Abort PROVE WorkInv'
BY WorkEnds DEF Abort, disk, github

\* Refreshing or replacing the clone loses the branch and the use of the worktree,
\* and with them the chance to push anything else.
LEMMA WorkClone ==
  ASSUME Parts, WorkInv, RefreshClone \/ Reclone,
         UNCHANGED <<ckpt, remote, pr, commits, history>>,
         \/ run'.at \in {run.at, "code"}
         \/ run'.at = "worktree" /\ worktree = "absent"
  PROVE  WorkInv'
<1>1. /\ worktree' = worktree /\ branch' = branch
      \/ /\ branch' = NoHead /\ worktree' # "valid"
         /\ (worktree' = "absent") <=> (worktree = "absent")
  BY DEF RefreshClone, Reclone, Parts, CloneOK
<1>2. Work(branch') \subseteq Work(branch)
  BY <1>1 DEF Work
<1>3. WhoseInv'
  BY <1>2 DEF WorkInv, WhoseInv, Work
<1>4. KeepInv'
  BY <1>1 DEF WorkInv, KeepInv, Kept, Work, At
<1>5. LandedInv'
  BY DEF WorkInv, LandedInv, Own, Work
<1> QED
  BY <1>3, <1>4, <1>5 DEF WorkInv

\* Every step of a resumed run, and every step around it, keeps to one work.
LEMMA WorkStep ==
  ASSUME Parts, StageInv, PlanInv, WorkInv, Next, Modes \subseteq {TRUE}
  PROVE  WorkInv'
<1> USE DEF disk, github
<1>0. RunOK /\ CkptOK /\ CloneOK /\ PrOK /\ HistoryOK
  BY DEF Parts
<1>g. \A s \in Stages : Goto(s) => run'.at = s
  BY <1>0 DEF Goto, RunOK, Runs
<1>1. CASE \E resume \in Modes : Start(resume)
  <2>1. Start(TRUE)
    BY <1>1
  <2>2. run'.at = "readiness" /\ UNCHANGED <<worktree, branch, remote, pr, commits, history>>
    BY <2>1 DEF Start, NoRun
  <2>3. ckpt["code"] = "current" /\ verify_branch_commits => ckpt'["code"] = "current"
    BY <2>1 DEF Start, _validate_checkpoints, Files
  <2>4. history.landed # {} /\ history.foreign = {} /\ worktree = "valid" => verify_branch_commits
    BY DEF WorkInv, KeepInv, LandedInv, Kept, verify_branch_commits
  <2> QED
    BY <2>2, <2>3, <2>4, WorkQuiet
<1>2. CASE Readiness \/ Design \/ TransitionToDone
  <2>1. CASE Abort
    BY <2>1, WorkAbort
  <2>2. CASE ~Abort
    <3>1. run'.at \in {"plan", "clone", "idle"}
      BY <1>2, <2>2, <1>g DEF Readiness, Design, TransitionToDone, Ends, NoRun, Stages
    <3>2. ckpt'["code"] = ckpt["code"]
      BY <1>0, <1>2, <2>2 DEF Readiness, Design, TransitionToDone, Write, CkptOK, Files
    <3> QED
      BY <1>2, <2>2, <3>1, <3>2, WorkQuiet DEF Readiness, Design, TransitionToDone
  <2> QED
    BY <2>1, <2>2
<1>3. CASE Plan
  <2>1. run'.at \in {"design", "idle"}
    BY <1>3, <1>g DEF Plan, Ends, NoRun, Stages
  <2>2. ckpt["code"] = "current" => ckpt'["code"] = "current"
    BY <1>3 DEF Plan, Loads, PlanInv, At, Torn
  <2> QED
    BY <1>3, <2>1, <2>2, WorkQuiet DEF Plan
<1>4. CASE Clone
  <2>1. run.resume
    BY <1>4 DEF Clone, PlanInv, At
  <2>2. CASE worktree # "absent"
    BY <1>4, <2>1, <2>2, <1>g, WorkQuiet DEF Clone, Stages
  <2>3. CASE worktree = "absent"
    BY <1>4, <2>1, <2>3, <1>g, WorkClone DEF Clone, Stages
  <2> QED
    BY <2>2, <2>3
<1>5. CASE WorktreeAdd
  <2>1. worktree = "absent" /\ remote = NoHead
    BY <1>5 DEF WorktreeAdd, WorkInv, KeepInv
  <2>2. history.landed = {} /\ UNCHANGED <<ckpt, remote, pr, commits, history>>
    BY <1>5, <2>1 DEF WorktreeAdd, WorkInv, LandedInv
  <2>3. CASE Ends /\ worktree' = "absent" /\ UNCHANGED branch
    BY <2>1, <2>2, <2>3, WorkEnds
  <2>4. CASE Goto("code") /\ worktree' = "valid" /\ branch' = [base |-> localBase, work |-> {}]
    <3>1. Work(branch)' = {} /\ run'.at = "code"
      BY <1>g, <2>4 DEF Work, Stages
    <3>2. WhoseInv'
      BY <2>2, <3>1 DEF WorkInv, WhoseInv, Work
    <3>3. KeepInv'
      BY <2>2, <2>4, <3>1 DEF WorkInv, KeepInv, Work, At
    <3>4. LandedInv'
      BY <2>2 DEF LandedInv
    <3> QED
      BY <3>2, <3>3, <3>4 DEF WorkInv
  <2> QED
    BY <1>5, <2>1, <2>3, <2>4 DEF WorktreeAdd
<1>6. CASE Code
  <2>1. run.resume /\ UNCHANGED <<worktree, remote, pr, history>>
    BY <1>6 DEF Code, PlanInv, At
  <2>2. CASE Loads("code")
    <3>1. ckpt["code"] = "current" /\ ~Unreadable("code")
      BY <1>0, <2>2 DEF Loads, Unreadable, CkptOK, Files, Checkpoint, PlanInv, Torn
    <3>2. run'.at = "sync" /\ UNCHANGED <<ckpt, branch, commits>>
      BY <1>0, <1>6, <2>2, <3>1 DEF Code, RunOK, Runs
    <3>3. WhoseInv' /\ LandedInv'
      BY <2>1, <3>2 DEF WorkInv, WhoseInv, LandedInv, Own, Work
    <3>4. KeepInv'
      BY <2>1, <3>1, <3>2 DEF WorkInv, KeepInv, Kept, Work, At
    <3> QED
      BY <3>3, <3>4 DEF WorkInv
  <2>3. CASE ~Loads("code") /\ ~Unreadable("code")
    <3>1. CoderRuns /\ run'.at = "verify"
      BY <1>0, <1>6, <2>3 DEF Code, RunOK, Runs
    <3>2. history.landed = {} \/ history.foreign # {} \/ worktree # "valid"
      BY <2>1, <2>3 DEF Loads, WorkInv, KeepInv, Kept, Torn
    <3>3. WhoseInv' /\ LandedInv'
      <4>1. CASE UNCHANGED <<commits, branch>>
        BY <2>1, <4>1 DEF WorkInv, WhoseInv, LandedInv, Own, Work
      <4>2. CASE /\ worktree = "valid" /\ commits' = commits + 1
                 /\ branch' = [branch EXCEPT !.work = @ \cup {commits + 1}]
        <5>1. commits \in Nat
          BY PipelineAssumption DEF Parts, CommitsOK
        <5>2. 1 .. commits \subseteq 1 .. commits' /\ commits + 1 \in 1 .. commits'
              /\ commits + 1 \notin 1 .. commits
          BY <4>2, <5>1
        <5>3. branch \in Heads
          BY <1>0, <4>2 DEF CloneOK
        <5>4. Work(branch') \subseteq Work(branch) \cup {commits + 1}
          BY <4>2, <5>3, PipelineAssumption DEF Work, Heads
        <5>5. Work(remote)' = Work(remote)
          BY <2>1 DEF Work
        <5>6. Work(branch)' \subseteq Work(branch) \cup {commits + 1}
          BY <5>4 DEF Work
        <5>7. WhoseInv'
          <6>1. Work(branch)' \cap history.foreign = {} /\ Work(branch)' \subseteq 1 .. commits'
            BY <5>2, <5>6 DEF WorkInv, WhoseInv
          <6>2. \A h \in history.landed : Work(h) \subseteq 1 .. commits'
            BY <5>2 DEF WorkInv, WhoseInv
          <6>3. Work(remote) \subseteq 1 .. commits'
            BY <5>2 DEF WorkInv, WhoseInv
          <6> QED
            BY <2>1, <5>5, <6>1, <6>2, <6>3 DEF WorkInv, WhoseInv, Work
        <5>8. LandedInv'
          BY <2>1 DEF WorkInv, LandedInv, Own, Work
        <5> QED
          BY <5>7, <5>8
      <4> QED
        BY <3>1, <4>1, <4>2 DEF CoderRuns
    <3>4. KeepInv'
      BY <2>1, <3>1, <3>2 DEF WorkInv, KeepInv, Work, At
    <3> QED
      BY <3>3, <3>4 DEF WorkInv
  <2>4. CASE Ends /\ UNCHANGED <<ckpt, commits, branch>>
    BY <2>1, <2>4, WorkEnds
  <2> QED
    BY <1>6, <2>2, <2>3, <2>4 DEF Code
<1>7. CASE VerifyCommits
  <2>1. run'.at = "sync" /\ UNCHANGED <<worktree, branch, remote, pr, commits, history>>
    BY <1>7, <1>g DEF VerifyCommits, Stages
  <2>2. worktree = "valid" /\ Work(branch) # {} => ckpt'["code"] = "current"
    BY <1>0, <1>7 DEF VerifyCommits, verify_branch_commits, Write, CkptOK, Files
  <2>3. WhoseInv' /\ LandedInv'
    BY <2>1 DEF WorkInv, WhoseInv, LandedInv, Own, Work
  <2>4. history.landed = {} \/ history.foreign # {} \/ worktree # "valid"
    BY <1>7 DEF VerifyCommits, WorkInv, KeepInv
  <2>5. KeepInv'
    BY <2>1, <2>2, <2>4 DEF WorkInv, KeepInv, Work, At
  <2> QED
    BY <2>3, <2>5 DEF WorkInv
<1>8. CASE SyncBase
  <2>1. CASE /\ worktree = "valid" /\ branch' = Synced(branch) /\ Goto("gates")
             /\ UNCHANGED <<ckpt, localBase, worktree, uncommitted, github, jira, commits,
                            mishaps, history>>
    <3>1. branch \in Heads /\ branch' \in Heads
      BY <1>0, <2>1 DEF CloneOK, Heads, Synced, PrOK
    <3>2. Work(branch)' = Work(branch)
      BY <2>1, <3>1, PipelineAssumption DEF Synced, Work, Heads
    <3>3. run'.at = "gates" /\ At("sync")
      BY <1>8, <2>1, <1>g DEF SyncBase, Stages
    <3>4. WhoseInv' /\ LandedInv'
      BY <2>1, <3>2 DEF WorkInv, WhoseInv, LandedInv, Own, Work
    <3>5. KeepInv'
      <4>1. Work(remote)' = Work(remote)
        BY <2>1 DEF Work
      <4> QED
        BY <2>1, <3>2, <3>3, <4>1 DEF WorkInv, KeepInv, Kept, At
    <3> QED
      BY <3>4, <3>5 DEF WorkInv
  <2> QED
    BY <1>8, <2>1, WorkEnds, WorkAbort DEF SyncBase
<1>9. CASE Gates
  <2>1. CASE Abort
    BY <2>1, WorkAbort
  <2>2. CASE ~Abort
    <3>1. /\ run'.at = "push" /\ At("gates")
          /\ UNCHANGED <<ckpt, worktree, branch, remote, pr, commits>>
      BY <1>9, <2>2, <1>g DEF Gates, Stages
    <3>2. history'.landed = history.landed /\ history'.foreign = history.foreign
      BY <1>0, <1>9, <2>2 DEF Gates, HistoryOK
    <3>3. WhoseInv' /\ LandedInv'
      BY <3>1, <3>2 DEF WorkInv, WhoseInv, LandedInv, Own, Work
    <3>4. KeepInv'
      BY <3>1, <3>2 DEF WorkInv, KeepInv, Kept, Work, At
    <3> QED
      BY <3>3, <3>4 DEF WorkInv
  <2> QED
    BY <2>1, <2>2
<1>10. CASE Push
  <2>0. At("push") /\ UNCHANGED <<ckpt, worktree, branch, pr, commits, history>>
    BY <1>10 DEF Push
  <2>1. CASE CanPush /\ remote' = branch /\ Goto("create_pr")
    <3>1. worktree = "valid" /\ branch \in Heads /\ run'.at = "create_pr"
      BY <1>0, <1>g, <2>1 DEF CanPush, CloneOK, Stages
    <3>2. Work(remote) \subseteq Work(branch) /\ branch # NoHead
      BY <1>0, <2>1, <3>1, PipelineAssumption DEF CanPush, FastForward, Work
    <3>3. history.foreign = {}
      BY <3>2 DEF WorkInv, WhoseInv
    <3>4. Work(remote)' = Work(branch) /\ Work(branch)' = Work(branch)
      BY <2>0, <2>1 DEF Work
    <3>5. WhoseInv'
      BY <2>0, <3>3, <3>4 DEF WorkInv, WhoseInv, Work
    <3>6. Work(branch) # {} => ckpt["code"] = "current"
      BY <2>0, <3>1 DEF WorkInv, KeepInv, At
    <3>7. history.landed # {} => Kept /\ Work(remote) # {}
      BY <3>1, <3>3 DEF WorkInv, KeepInv, LandedInv
    <3>8. KeepInv'
      BY <2>0, <2>1, <3>1, <3>2, <3>4, <3>6, <3>7 DEF WorkInv, KeepInv, Kept, At
    <3>9. LandedInv'
      <4>1. \A h : Own(h)' = Own(h)
        BY <2>0 DEF Own, Work
      <4>2. history.landed # {} => Own(remote)' = Own(remote) /\ Work(remote)' # {}
        BY <2>0, <3>4, <3>7 DEF Own, Kept
      <4> QED
        BY <2>0, <2>1, <3>2, <4>1, <4>2 DEF WorkInv, LandedInv, Own, Work
    <3> QED
      BY <3>5, <3>8, <3>9 DEF WorkInv
  <2>2. CASE Ends /\ UNCHANGED remote
    BY <2>0, <2>2, WorkEnds
  <2> QED
    BY <1>10, <2>1, <2>2 DEF Push
<1>11. CASE CreatePr
  <2>0. UNCHANGED <<ckpt, worktree, branch, remote, commits, history>> /\ At("create_pr")
    BY <1>11 DEF CreatePr
  <2>1. CASE Ends /\ UNCHANGED pr
    BY <2>0, <2>1, WorkEnds
  <2>2. CASE run' = [run EXCEPT !.at = "review", !.prHead = remote] /\ Work(remote) # {}
    <3>1. run'.at = "review"
      BY <1>0, <2>2 DEF RunOK, Runs
    <3>2. WhoseInv' /\ LandedInv'
      BY <2>0 DEF WorkInv, WhoseInv, LandedInv, Own, Work
    <3>3. KeepInv'
      <4>1. Work(remote)' = Work(remote) /\ Work(branch)' = Work(branch)
        BY <2>0 DEF Work
      <4>2. remote # NoHead
        BY <2>0 DEF StageInv, At
      <4>3. history.foreign = {} /\ worktree = "valid" => Kept
        BY <2>0, <2>2 DEF WorkInv, KeepInv, Kept
      <4> QED
        BY <2>0, <2>2, <3>1, <4>1, <4>2, <4>3 DEF WorkInv, KeepInv, Kept, At
    <3> QED
      BY <3>2, <3>3 DEF WorkInv
  <2>3. pr = "open" => Work(remote) # {}
    BY DEF WorkInv, KeepInv
  <2> QED
    BY <1>11, <2>1, <2>2, <2>3 DEF CreatePr
<1>12. CASE Review \/ ListReviews
  <2>1. CASE Abort
    BY <2>1, WorkAbort
  <2>2. CASE ~Abort
    <3>1. /\ run.at \in {"review", "list"} /\ run'.at \in {"review", "list", "merge", "idle"}
          /\ UNCHANGED <<ckpt, worktree, branch, remote, pr, commits>>
      <4>1. CASE Review
        BY <2>2, <4>1, <1>g DEF Review, At, Ends, NoRun, Stages
      <4>2. CASE ListReviews
        BY <1>0, <2>2, <4>2 DEF ListReviews, At, RunOK, Runs
      <4> QED
        BY <1>12, <4>1, <4>2
    <3>2. history'.landed = history.landed /\ history'.foreign = history.foreign
      BY <1>0, <1>12, <2>2 DEF Review, ListReviews, Submit, HistoryOK
    <3>3. WhoseInv' /\ LandedInv'
      BY <3>1, <3>2 DEF WorkInv, WhoseInv, LandedInv, Own, Work
    <3>4. KeepInv'
      BY <3>1, <3>2 DEF WorkInv, KeepInv, Kept, Work, At
    <3> QED
      BY <3>3, <3>4 DEF WorkInv
  <2> QED
    BY <2>1, <2>2
<1>13. CASE Merge
  <2>1. CASE Abort
    BY <2>1, WorkAbort
  <2>2. CASE ~Abort
    <3>1. /\ At("merge") /\ run'.at \in {"jira", "idle"} /\ pr' = "merged"
          /\ UNCHANGED <<ckpt, worktree, branch, remote, commits>>
          /\ history' = [history EXCEPT !.landed = @ \cup {remote}]
      BY <1>13, <2>2, <1>g DEF Merge, Ends, NoRun, Stages
    <3>2. history'.landed = history.landed \cup {remote} /\ history'.foreign = history.foreign
      BY <1>0, <3>1 DEF HistoryOK
    <3>3. remote # NoHead /\ Work(remote) # {}
      BY <3>1 DEF StageInv, WorkInv, KeepInv, At
    <3>4. WhoseInv'
      BY <3>1, <3>2 DEF WorkInv, WhoseInv, Work
    <3>5. KeepInv'
      BY <3>1, <3>2, <3>3 DEF WorkInv, KeepInv, Kept, Work, At
    <3>6. LandedInv'
      BY <3>1, <3>2, <3>3 DEF WorkInv, LandedInv, Own, Work
    <3> QED
      BY <3>4, <3>5, <3>6 DEF WorkInv
  <2> QED
    BY <2>1, <2>2
<1>14. CASE Crash
  <2>1. run'.at = "idle" /\ UNCHANGED <<worktree, branch, remote, pr, commits, history>>
    BY <1>14 DEF Crash, Ends, NoRun
  <2>2. \/ ckpt'["code"] = ckpt["code"]
        \/ At("verify")
    BY <1>0, <1>14 DEF Crash, Writing, Write, CkptOK, Files, At
  <2>3. CASE At("verify")
    <3>1. history.landed = {} \/ history.foreign # {} \/ worktree # "valid"
      BY <2>3 DEF WorkInv, KeepInv
    <3> QED
      BY <2>1, <3>1, WorkQuiet
  <2>4. CASE ckpt'["code"] = ckpt["code"]
    <3>1. ckpt["code"] = "current" => ckpt'["code"] = "current"
      BY <2>4
    <3> QED
      BY <2>1, <3>1, WorkQuiet
  <2> QED
    BY <2>2, <2>3, <2>4
<1>15. CASE BaseMoves
  BY <1>15, WorkSidelong DEF BaseMoves
<1>16. CASE OtherTicketClones
  BY <1>16, WorkClone DEF OtherTicketClones
<1>17. CASE WorktreeHollowed
  <2>1. /\ worktree = "valid" /\ worktree' = "broken"
        /\ UNCHANGED <<run, ckpt, branch, remote, pr, commits, history>>
    BY <1>17 DEF WorktreeHollowed
  <2>2. WhoseInv' /\ LandedInv'
    BY <2>1 DEF WorkInv, WhoseInv, LandedInv, Own, Work
  <2>3. KeepInv'
    BY <2>1 DEF WorkInv, KeepInv, Work, At
  <2> QED
    BY <2>2, <2>3 DEF WorkInv
<1>18. CASE OtherReview
  <2>1. history'.landed = history.landed /\ history'.foreign = history.foreign
    BY <1>0, <1>18 DEF OtherReview, Submit, HistoryOK
  <2> QED
    BY <1>18, <2>1, WorkSidelong DEF OtherReview
<1>19. CASE OtherPush
  <2>0. /\ remote # NoHead /\ commits' = commits + 1
        /\ UNCHANGED <<run, ckpt, worktree, branch, pr>>
    BY <1>19 DEF OtherPush
  <2>1. /\ history'.landed = history.landed
        /\ history'.foreign = history.foreign \cup {commits + 1}
    BY <1>0, <1>19 DEF OtherPush, HistoryOK
  <2>2. commits \in Nat
    BY PipelineAssumption DEF Parts, CommitsOK
  <2>3. 1 .. commits \subseteq 1 .. commits' /\ commits + 1 \in 1 .. commits'
        /\ commits + 1 \notin 1 .. commits
    BY <2>0, <2>2
  <2>4. remote \in Heads /\ remote' = [remote EXCEPT !.work = @ \cup {commits + 1}]
    BY <1>0, <1>19 DEF OtherPush, PrOK
  <2>5. remote' \in Heads
    <3>1. commits + 1 \in 1 .. MaxCommits
      BY <1>19, <2>2, PipelineAssumption DEF OtherPush
    <3> QED
      BY <2>4, <3>1 DEF Heads
  <2>6. Work(remote)' = Work(remote) \cup {commits + 1} /\ remote' # NoHead
    BY <2>4, <2>5, PipelineAssumption DEF Work, Heads
  <2>7. Work(branch)' = Work(branch)
    BY <2>0 DEF Work
  <2>8. WhoseInv'
    <3>1. Work(branch) \cap history'.foreign = {}
      BY <2>1, <2>3 DEF WorkInv, WhoseInv
    <3>2. Work(branch) \subseteq 1 .. commits' /\ Work(remote)' \subseteq 1 .. commits'
      BY <2>3, <2>6 DEF WorkInv, WhoseInv
    <3>3. \A h \in history'.landed : Work(h) \subseteq 1 .. commits'
      BY <2>1, <2>3 DEF WorkInv, WhoseInv
    <3>4. history'.foreign \subseteq Work(remote)'
      BY <2>1, <2>6 DEF WorkInv, WhoseInv
    <3> QED
      BY <2>7, <3>1, <3>2, <3>3, <3>4 DEF WhoseInv, Work
  <2>9. KeepInv'
    BY <2>0, <2>1, <2>6 DEF WorkInv, KeepInv, At
  <2>10. LandedInv'
    <3>1. ASSUME NEW h \in history.landed
          PROVE  remote' # NoHead /\ Work(remote)' # {} /\ Work(h) \ history'.foreign = Own(remote)'
      <4>1. Work(h) \subseteq 1 .. commits /\ Work(remote) \subseteq 1 .. commits
            /\ Own(h) = Own(remote)
        BY DEF WorkInv, WhoseInv, LandedInv
      <4>2. Own(remote)' = Own(remote)
        BY <2>1, <2>3, <2>6, <4>1 DEF Own
      <4>3. Work(h) \ history'.foreign = Own(h)
        BY <2>1, <2>3, <4>1 DEF Own
      <4> QED
        BY <2>6, <4>1, <4>2, <4>3
    <3> QED
      BY <2>1, <3>1 DEF LandedInv, Own, Work
  <2> QED
    BY <2>8, <2>9, <2>10 DEF WorkInv
<1> QED
  BY <1>1, <1>2, <1>3, <1>4, <1>5, <1>6, <1>7, <1>8, <1>9, <1>10, <1>11, <1>12, <1>13, <1>14,
     <1>15, <1>16, <1>17, <1>18, <1>19 DEF Next, Step, Others

\* While every run is a resumed one, plan and work are kept together with the type
\* and what each stage relies on.
ResumedInv == Inv /\ PlanInv /\ WorkInv

\* That is inductive, when no run starts clean.
LEMMA ResumedStep ==
  ASSUME Modes \subseteq {TRUE}
  PROVE  ResumedInv /\ [Next]_vars => ResumedInv'
<1>1. ASSUME ResumedInv, Next PROVE ResumedInv'
  <2>1. Inv'
    BY <1>1, StepInv DEF ResumedInv
  <2>2. Parts /\ StageInv
    BY <1>1, TypeParts DEF ResumedInv, Inv, Safe
  <2>3. PlanInv' /\ WorkInv'
    BY <1>1, <2>2, PlanStep, WorkStep DEF ResumedInv
  <2> QED
    BY <2>1, <2>3 DEF ResumedInv
<1>2. ASSUME ResumedInv, UNCHANGED vars PROVE ResumedInv'
  <2>1. Inv'
    BY <1>2, StepInv DEF ResumedInv
  <2>2. PlanInv'
    BY <1>2, PlanQuiet DEF ResumedInv, vars, disk
  <2>3. WorkInv'
    BY <1>2, WorkSidelong DEF ResumedInv, vars, disk, github
  <2> QED
    BY <2>1, <2>2, <2>3 DEF ResumedInv
<1> QED
  BY <1>1, <1>2

\* Resumed, interrupted and resumed again, in whatever way, a ticket's runs keep to
\* one plan and leave behind what keeps the next one from working twice.
THEOREM ResumedInvariance ==
  ASSUME Modes \subseteq {TRUE}
  PROVE  Spec => []ResumedInv
<1>1. Init => ResumedInv
  BY InitInv, PlanInit, WorkInit DEF ResumedInv
<1>2. ResumedInv /\ [Next]_vars => ResumedInv'
  BY ResumedStep
<1> QED
  BY <1>1, <1>2, PTL DEF Spec

\* If every run is a resumed one, no run works on the code of an earlier plan: the
\* plan is kept first, and read back, so none of its successors is ever of another.
THEOREM OnePlan ==
  ASSUME Modes \subseteq {TRUE}
  PROVE  Spec => []OnePlanThroughout
<1>1. ResumedInv => OnePlanThroughout
  BY DEF ResumedInv, PlanInv, OnePlanThroughout
<1> QED
  BY <1>1, ResumedInvariance, PTL

\* If every run is a resumed one, a merge that is done twice brings in no other work
\* of the pipeline's, though the clone may be replaced and the worktree lost between,
\* and others may push and review.
THEOREM OneWorkLands ==
  ASSUME Modes \subseteq {TRUE}
  PROVE  Spec => []LandsOneWork
<1>1. ResumedInv => LandsOneWork
  <2> SUFFICES ASSUME ResumedInv, NEW g \in history.landed, NEW h \in history.landed
               PROVE  g.work \ history.foreign = h.work \ history.foreign
    BY DEF LandsOneWork
  <2>1. Own(g) = Own(h)
    BY DEF ResumedInv, WorkInv, LandedInv
  <2>2. g \in Heads /\ h \in Heads
    BY DEF ResumedInv, Inv, TypeOK
  <2> QED
    BY <2>1, <2>2, PipelineAssumption DEF Own, Work
<1> QED
  BY <1>1, ResumedInvariance, PTL

=============================================================================
