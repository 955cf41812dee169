--------------------------- MODULE TicketWorkflow ---------------------------
(***************************************************************************)
(* One ticket of the orchestrator, driven by business facts: the pure      *)
(* stage drivers of transitions.py, the policies of workflow/policies and  *)
(* the engine (policy_engine.py) that evaluates one policy or an ordered   *)
(* set of them.  Each action is one call with the facts the caller has     *)
(* observed; facts may come in any order, late, repeated or out of place,  *)
(* so every driver and policy is enabled in every state.                   *)
(***************************************************************************)
EXTENDS WorkflowTable, Naturals, Sequences

CONSTANTS
  Profiles,      \* validation tiers of PR specs
  HumanTiers,    \* the tiers whose merge needs a user's approval
  FactSets,      \* collections of observed facts given to the policies
  PolicyOrders   \* ordered policy sets a caller may evaluate

VARIABLES
  status,        \* the ticket's workflow state
  profile,       \* the validation tier carried on its PR spec
  decision,      \* the last WorkflowDecision or PolicyOutcome returned
  raised,        \* who raised IllegalTransitionError in the last call, if anyone
  \* History, read by properties only:
  reviewed,      \* a review approved the work since coding last started
  resumed,       \* the ticket left a wait since coding last started
  merged,        \* a completed merge was observed since coding last started
  answered       \* a user's answer resumed deploying since coding last started

code    == <<status, profile, decision, raised>>
history == <<reviewed, resumed, merged, answered>>
vars    == <<code, history>>

-----------------------------------------------------------------------------
(* Facts.  To a driver or a policy a fact that is absent and one that says    *)
(* no are the same up to the wording of the reason it records, so a fact is  *)
(* the set of conditions its reader tests.                                   *)

\* The planner's result: from the planner, successful, with PR specs.
PlanFacts == [planner : BOOLEAN, success : BOOLEAN, specs : BOOLEAN]
\* The opened pull request: from the coder, with its branch.
PrFacts == [coder : BOOLEAN, branch : BOOLEAN]
ReviewStatuses == {"APPROVED", "CHANGES_REQUESTED", "BLOCKED", "NEEDS_HUMAN_DECISION"}

\* The facts of all policies at once.
FactSpace ==
  [ admitted : BOOLEAN, capacity : BOOLEAN,          \* coding-start-fact
    review : SUBSET ReviewStatuses,                  \* review-outcome-fact
    prApproved : BOOLEAN, ciGreen : BOOLEAN,         \* merge-ready-fact
    profileSeen : BOOLEAN,                           \* user-approval-fact
    mergeCompleted : BOOLEAN, targetRef : BOOLEAN,   \* deploy-begin-fact
    failure : {"none", "development", "auto", "human"} ]  \* failure-fact

Policies == { "coding-start", "review-success", "merge-ready",
              "user-approval", "deploy-begin", "should-fail" }

ASSUME TicketAssumption ==
  /\ HumanTiers \subseteq Profiles
  /\ FactSets \subseteq FactSpace
  /\ PolicyOrders \subseteq Seq(Policies)

-----------------------------------------------------------------------------
(* Decisions.                                                               *)

NoTransition == "NO_TRANSITION"

\* A policy's verdict: where to go, if anywhere, and the commands to emit.
To(target, commands) == [target |-> target, commands |-> commands]
Stay(commands) == [target |-> NoTransition, commands |-> commands]

Commands == {"ExecuteCodingJob", "RequestMerge", "RequestUserInput", "NotifyUser"}
Deciders == Policies \cup { "policy-set", "none", "spec", "coding", "review", "rework",
                            "merge", "deploy", "merge-wait", "user", "failure" }
Decisions == [by : Deciders, commands : SUBSET Commands]

TypeOK ==
  /\ status \in STATES
  /\ profile \in Profiles
  /\ decision \in Decisions
  /\ raised \in Deciders
  /\ reviewed \in BOOLEAN /\ resumed \in BOOLEAN /\ merged \in BOOLEAN
  /\ answered \in BOOLEAN

Init ==
  /\ status = "READY_FOR_PR_SPECIFICATION"
  /\ profile \in Profiles
  /\ decision = [by |-> "none", commands |-> {}]
  /\ raised = "none"
  /\ reviewed = FALSE /\ resumed = FALSE /\ merged = FALSE
  /\ answered = FALSE

\* The history after a call made with the given facts: what was observed of
\* the work no longer counts once coding starts again.
Remember(seen) ==
  LET restart == status' = "CODING_IN_PROGRESS" /\ status # status'
      during(stage, fact) == status = stage /\ fact \in seen
  IN /\ reviewed' = (~restart /\ (reviewed \/ during("REVIEW_IN_PROGRESS", "review approved")))
     /\ merged'   = (~restart /\ (merged \/ during("MERGING", "merge completed")))
     /\ resumed'  = (~restart /\ (resumed \/ (status = WAITING /\ status' # WAITING)))
     /\ answered' = (~restart /\ (answered \/ during(WAITING, "ANSWER DEPLOYING")))

Decide(by, commands) == decision' = [by |-> by, commands |-> commands]

\* Fault: the move is made without consulting the table.
TransitionUnguarded(target, by, seen, commands) ==
  /\ status' = target /\ raised' = "none" /\ Decide(by, commands)
  /\ UNCHANGED profile
  /\ Remember(seen)

\* transition(): move along an edge of the table, or raise and return nothing.
Transition(target, by, seen, commands) ==
  /\ IF Legal(status, target)
     THEN status' = target /\ raised' = "none" /\ Decide(by, commands)
     ELSE raised' = by /\ UNCHANGED <<status, decision>>
  /\ UNCHANGED profile
  /\ Remember(seen)

\* The recorded non-move: a decision that names the same state twice.
Hold(by, seen, commands) ==
  /\ Decide(by, commands)
  /\ raised' = "none"
  /\ UNCHANGED <<status, profile>>
  /\ Remember(seen)

\* The shape of every stage driver: the fact is looked at before the state.
Drive(ready, target, by, seen) ==
  IF ready THEN Transition(target, by, seen, {}) ELSE Hold(by, seen, {})

\* The facts the history notes, out of those a call was given.
Noted(reviewApproved, mergeCompleted) ==
  (IF reviewApproved THEN {"review approved"} ELSE {})
    \cup (IF mergeCompleted THEN {"merge completed"} ELSE {})

-----------------------------------------------------------------------------
(* The stage drivers of transitions.py.                                     *)

drive_spec_stage ==
  \E fact \in PlanFacts :
    Drive(fact.planner /\ fact.success /\ fact.specs, "READY_FOR_CODING", "spec", {})

drive_coding_stage ==
  \E running \in BOOLEAN : Drive(running, "CODING_IN_PROGRESS", "coding", {})

drive_review_stage ==
  \E fact \in PrFacts : Drive(fact.coder /\ fact.branch, "REVIEW_IN_PROGRESS", "review", {})

drive_rework_loop ==
  \E review \in ReviewStatuses :
    Drive(review = "CHANGES_REQUESTED", "CODING_IN_PROGRESS", "rework",
          Noted(review = "APPROVED", FALSE))

drive_merge_stage ==
  \E granted \in BOOLEAN : Drive(granted, "MERGING", "merge", {})

\* Two edges, chosen by the state; in any other state the facts are ignored.
drive_deploy_stage ==
  \E mergeCompleted, targetRef, succeeded \in BOOLEAN :
    LET seen == Noted(FALSE, mergeCompleted)
    IN CASE status = "DEPLOYING" -> Drive(succeeded, "COMPLETED", "deploy", seen)
         [] status = "MERGING"   -> Drive(mergeCompleted /\ targetRef, "DEPLOYING",
                                          "deploy", seen)
         [] OTHER                -> Hold("deploy", seen, {})

drive_merge_wait ==
  \E required \in BOOLEAN : Drive(required, WAITING, "merge-wait", {})

\* The user's confirmed decision. An ANSWER names the stage to resume, any
\* state of the workflow; naming none is a non-move, as is any decision when
\* there is no wait to resolve.
drive_user_decision ==
  \/ Hold("user", {}, {})
  \/ /\ status = WAITING
     /\ \/ Transition("FAILED", "user", {"REJECT"}, {})
        \/ Transition("READY_FOR_MERGE", "user", {"APPROVE"}, {})
        \/ \E target \in STATES :
             Transition(target, "user",
                        IF target = "DEPLOYING" THEN {"ANSWER DEPLOYING"} ELSE {}, {})

drive_terminal_failure ==
  \E shouldFail \in BOOLEAN :
    Drive(shouldFail /\ status \notin TERMINAL_STATES, "FAILED", "failure", {})

-----------------------------------------------------------------------------
(* The policies: each owns the edges that leave one stage.                   *)

CodingStartPolicy(f) ==
  IF status = "READY_FOR_CODING" /\ f.admitted /\ f.capacity
  THEN To("CODING_IN_PROGRESS", {"ExecuteCodingJob"}) ELSE Stay({})

\* Fault: any verdict of the reviewer counts as an approval.
ReviewSuccessAnyVerdict(f) ==
  IF status = "REVIEW_IN_PROGRESS" /\ f.review # {} THEN To("READY_FOR_MERGE", {}) ELSE Stay({})

\* The first status in enum order wins when facts of several reviews are given.
ReviewSuccessPolicy(f) ==
  CASE status # "REVIEW_IN_PROGRESS" \/ f.review = {} -> Stay({})
    [] status = "REVIEW_IN_PROGRESS" /\ "APPROVED" \in f.review -> To("READY_FOR_MERGE", {})
    [] status = "REVIEW_IN_PROGRESS" /\ "CHANGES_REQUESTED" \in f.review
         /\ "APPROVED" \notin f.review -> To("CODING_IN_PROGRESS", {})
    [] OTHER -> Stay({"RequestUserInput"})

MergeReadyPolicy(f) ==
  IF status = "READY_FOR_MERGE" /\ f.prApproved /\ f.ciGreen
  THEN To("MERGING", {"RequestMerge"}) ELSE Stay({})

UserApprovalPolicy(f) ==
  IF status = "MERGING" /\ f.profileSeen /\ profile \in HumanTiers
  THEN To(WAITING, {"RequestUserInput"}) ELSE Stay({})

\* Fault: a deploy target is enough, whether or not the merge has completed.
DeployBeginEarly(f) ==
  IF status = "MERGING" /\ f.targetRef THEN To("DEPLOYING", {"NotifyUser"}) ELSE Stay({})

DeployBeginPolicy(f) ==
  IF status = "MERGING" /\ f.mergeCompleted /\ f.targetRef
  THEN To("DEPLOYING", {"NotifyUser"}) ELSE Stay({})

\* Never a transition: a blocked ticket only references the escalation command.
ShouldFailPolicy(f) ==
  IF status \in ACTIVE_STATES /\ f.failure = "human" THEN Stay({"RequestUserInput"})
                                                     ELSE Stay({})

Verdict(policy, f) ==
  CASE policy = "coding-start"   -> CodingStartPolicy(f)
    [] policy = "review-success" -> ReviewSuccessPolicy(f)
    [] policy = "merge-ready"    -> MergeReadyPolicy(f)
    [] policy = "user-approval"  -> UserApprovalPolicy(f)
    [] policy = "deploy-begin"   -> DeployBeginPolicy(f)
    [] policy = "should-fail"    -> ShouldFailPolicy(f)

\* Executing an outcome: its target goes through transition() with its commands.
Execute(outcome, by, f) ==
  LET seen == Noted("APPROVED" \in f.review, f.mergeCompleted)
  IN IF outcome.target = NoTransition
     THEN Hold(by, seen, outcome.commands)
     ELSE Transition(outcome.target, by, seen, outcome.commands)

evaluate == \E p \in Policies, f \in FactSets : Execute(Verdict(p, f), p, f)

\* The first policy of the set that moves decides. When none moves, the set's
\* own outcome carries no command, whatever the policies asked for.
evaluate_policy_set ==
  \E order \in PolicyOrders, f \in FactSets :
    LET moves(i) == Verdict(order[i], f).target # NoTransition
    IN \/ \E i \in DOMAIN order :
            /\ moves(i) /\ \A j \in DOMAIN order : j < i => ~moves(j)
            /\ Execute(Verdict(order[i], f), order[i], f)
       \/ /\ \A i \in DOMAIN order : ~moves(i)
          /\ Execute(Stay({}), "policy-set", f)

Next ==
  \/ drive_spec_stage \/ drive_coding_stage \/ drive_review_stage \/ drive_rework_loop
  \/ drive_merge_stage \/ drive_deploy_stage \/ drive_merge_wait
  \/ drive_user_decision \/ drive_terminal_failure
  \/ evaluate \/ evaluate_policy_set

Spec == Init /\ [][Next]_vars

-----------------------------------------------------------------------------
(* Properties.                                                              *)

MergeStages == {"READY_FOR_MERGE", "MERGING", "DEPLOYING", "COMPLETED"}

\* Work reaches the merge stages only past an approving review of that work,
\* unless the ticket was parked and resumed since coding last started.
ReviewedUnlessResumed == status \in MergeStages /\ ~resumed => reviewed

\* A ticket is deployed only after a completed merge of the current work was
\* observed, or because a user's answer named the deploying stage.
DeployedOnlyMergedOrAnswered ==
  status \in {"DEPLOYING", "COMPLETED"} => merged \/ answered

\* No driver, policy or engine call moves a finished ticket: late and repeated
\* facts of a ticket that completed or failed are harmless.
TerminalIsFinal == [][(status \in TERMINAL_STATES) => status' = status]_vars

\* Policies never fail a ticket, never end its wait for the user, and never
\* render a verdict the table refuses: only drivers do (and only they raise).
PoliciesStayInTheirStage ==
  [][/\ raised' \notin Policies
     /\ (decision'.by \in Policies /\ status # status') =>
          (status # WAITING /\ status' # "FAILED")]_vars

\* Every call implements a move, or a stutter, of the abstract lifecycle.
Lifecycle == INSTANCE TicketLifecycle
ImplementsLifecycle == Lifecycle!Spec
=============================================================================
