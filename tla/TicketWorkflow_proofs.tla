----------------------- MODULE TicketWorkflow_proofs -----------------------
(***************************************************************************)
(* Proofs about TicketWorkflow, for every set of tiers, of facts and of    *)
(* policy orders.  A step of Next is one call, and a call either holds or  *)
(* requests one transition; what each call can request, and with which     *)
(* facts in hand, is all the theorems need (CallShape).                    *)
(***************************************************************************)
EXTENDS TicketWorkflow, TLAPS

Notes == {"review approved", "merge completed", "REJECT", "APPROVE", "ANSWER DEPLOYING"}

\* The transition requests some call makes: an approval in hand to enter the
\* merge stages from review, a completed merge to begin deploying, an answer
\* that names deploying to resume it.
Requested(target, seen) ==
  /\ target \in STATES
  /\ (status = "REVIEW_IN_PROGRESS" /\ target = "READY_FOR_MERGE") => "review approved" \in seen
  /\ (status = "MERGING" /\ target = "DEPLOYING") => "merge completed" \in seen
  /\ (status = WAITING /\ target = "DEPLOYING") => "ANSWER DEPLOYING" \in seen

\* What a policy may request.
PolicyRequest(target, by) ==
  by \in Policies \cup {"policy-set"} =>
    Legal(status, target) /\ status # WAITING /\ target # "FAILED"

Call ==
  \E by \in Deciders \ {"none"}, seen \in SUBSET Notes, commands \in SUBSET Commands :
    \/ Hold(by, seen, commands)
    \/ \E target \in STATES : /\ Requested(target, seen)
                              /\ PolicyRequest(target, by)
                              /\ Transition(target, by, seen, commands)

-----------------------------------------------------------------------------
\* A driver holds, or asks for its target with the facts the history needs.
LEMMA DriveIsCall ==
  ASSUME NEW target \in STATES,
         NEW by \in Deciders \ (Policies \cup {"none", "policy-set"}),
         NEW seen \in SUBSET Notes,
         \/ Requested(target, seen) /\ Transition(target, by, seen, {})
         \/ Hold(by, seen, {})
  PROVE  Call
<1>1. {} \in SUBSET Commands
  OBVIOUS
<1>2. PolicyRequest(target, by)
  BY DEF PolicyRequest
<1> QED
  BY <1>1, <1>2 DEF Call

\* The drivers are deciders, and none of them is a policy.
LEMMA DriverNames ==
  /\ {"spec", "coding", "review", "rework", "merge", "deploy", "merge-wait", "user", "failure"}
       \subseteq Deciders \ (Policies \cup {"none", "policy-set"})
  /\ Policies \subseteq Deciders \ {"none"}
  /\ "policy-set" \in Deciders \ {"none"}
BY DEF Deciders, Policies

\* What a call notes for the history is a set of notes.
LEMMA NotedIsNotes == \A a, b : Noted(a, b) \in SUBSET Notes
BY DEF Noted, Notes

\* The outcomes of the policies: only review-success asks to leave review, and
\* then for an approved review; only deploy-begin asks to deploy, and then
\* after a completed merge; none asks for a move the table lacks.
LEMMA VerdictRequests ==
  ASSUME TypeOK, NEW p \in Policies, NEW f \in FactSpace,
         NEW target, target = Verdict(p, f).target, target # NoTransition
  PROVE  /\ target \in STATES
         /\ Legal(status, target) /\ status # WAITING /\ target # "FAILED"
         /\ Requested(target, Noted("APPROVED" \in f.review, f.mergeCompleted))
<1> USE DEF To, Stay, NoTransition, STATES, ACTIVE_STATES, TERMINAL_STATES, WAITING,
            Legal, TRANSITIONS, StageEdges, ResumeTargets, Requested, Noted
<1>1. CASE p = "coding-start"
  BY <1>1 DEF Verdict, CodingStartPolicy
<1>2. CASE p = "review-success"
  <2>1. target = ReviewSuccessPolicy(f).target
    BY <1>2 DEF Verdict
  <2>2. /\ status = "REVIEW_IN_PROGRESS"
        /\ \/ target = "READY_FOR_MERGE" /\ "APPROVED" \in f.review
           \/ target = "CODING_IN_PROGRESS"
    BY <2>1 DEF ReviewSuccessPolicy
  <2> QED
    BY <2>2
<1>3. CASE p = "merge-ready"
  BY <1>3 DEF Verdict, MergeReadyPolicy
<1>4. CASE p = "user-approval"
  BY <1>4 DEF Verdict, UserApprovalPolicy
<1>5. CASE p = "deploy-begin"
  BY <1>5 DEF Verdict, DeployBeginPolicy
<1>6. CASE p = "should-fail"
  BY <1>6 DEF Verdict, ShouldFailPolicy
<1> QED
  BY <1>1, <1>2, <1>3, <1>4, <1>5, <1>6 DEF Policies

\* The commands a policy emits are commands of the orchestrator.
LEMMA VerdictCommands ==
  ASSUME NEW p \in Policies, NEW f \in FactSpace
  PROVE  Verdict(p, f).commands \in SUBSET Commands
<1> USE DEF To, Stay, Commands, Verdict
<1>1. CASE p = "review-success"
  <2>1. Verdict(p, f) = ReviewSuccessPolicy(f)
    BY <1>1
  <2>2. ReviewSuccessPolicy(f).commands \in SUBSET Commands
    BY DEF ReviewSuccessPolicy
  <2> QED
    BY <2>1, <2>2
<1>2. CASE p # "review-success"
  BY <1>2 DEF Policies, CodingStartPolicy, MergeReadyPolicy, UserApprovalPolicy,
              DeployBeginPolicy, ShouldFailPolicy
<1> QED
  BY <1>1, <1>2

\* Executing a policy's outcome holds, or makes a transition it may request.
LEMMA ExecuteIsCall ==
  ASSUME TypeOK, NEW p \in Policies, NEW f \in FactSets, Execute(Verdict(p, f), p, f)
  PROVE  Call
<1> DEFINE seen == Noted("APPROVED" \in f.review, f.mergeCompleted)
           target == Verdict(p, f).target
           commands == Verdict(p, f).commands
<1>1. f \in FactSpace
  BY TicketAssumption
<1>2. seen \in SUBSET Notes /\ commands \in SUBSET Commands /\ p \in Deciders \ {"none"}
  BY <1>1, VerdictCommands, DriverNames DEF Noted, Notes
<1>3. CASE target = NoTransition
  <2>1. Hold(p, seen, commands)
    BY <1>3 DEF Execute
  <2> QED
    BY <1>2, <2>1 DEF Call
<1>4. CASE target # NoTransition
  <2>1. Transition(target, p, seen, commands)
    BY <1>4 DEF Execute
  <2>2. target \in STATES /\ Requested(target, seen) /\ PolicyRequest(target, p)
    BY <1>1, <1>4, VerdictRequests DEF PolicyRequest
  <2> QED
    BY <1>2, <2>1, <2>2 DEF Call
<1> QED
  BY <1>3, <1>4

\* Every action is a call that holds or requests one transition.
LEMMA CallShape ==
  ASSUME TypeOK, Next
  PROVE  Call
<1> USE DriverNames
<1>1. CASE drive_spec_stage
  <2>1. Transition("READY_FOR_CODING", "spec", {}, {}) \/ Hold("spec", {}, {})
    BY <1>1 DEF drive_spec_stage, Drive
  <2>2. "READY_FOR_CODING" \in STATES /\ Requested("READY_FOR_CODING", {})
    BY DEF Requested, STATES, ACTIVE_STATES, TERMINAL_STATES
  <2> QED
    BY <2>1, <2>2, DriveIsCall
<1>2. CASE drive_coding_stage
  <2>1. Transition("CODING_IN_PROGRESS", "coding", {}, {}) \/ Hold("coding", {}, {})
    BY <1>2 DEF drive_coding_stage, Drive
  <2>2. "CODING_IN_PROGRESS" \in STATES /\ Requested("CODING_IN_PROGRESS", {})
    BY DEF Requested, STATES, ACTIVE_STATES, TERMINAL_STATES
  <2> QED
    BY <2>1, <2>2, DriveIsCall
<1>3. CASE drive_review_stage
  <2>1. Transition("REVIEW_IN_PROGRESS", "review", {}, {}) \/ Hold("review", {}, {})
    BY <1>3 DEF drive_review_stage, Drive
  <2>2. "REVIEW_IN_PROGRESS" \in STATES /\ Requested("REVIEW_IN_PROGRESS", {})
    BY DEF Requested, STATES, ACTIVE_STATES, TERMINAL_STATES
  <2> QED
    BY <2>1, <2>2, DriveIsCall
<1>4. CASE drive_rework_loop
  <2>1. PICK seen \in SUBSET Notes :
          Transition("CODING_IN_PROGRESS", "rework", seen, {}) \/ Hold("rework", seen, {})
    BY <1>4, NotedIsNotes DEF drive_rework_loop, Drive
  <2>2. "CODING_IN_PROGRESS" \in STATES /\ Requested("CODING_IN_PROGRESS", seen)
    BY DEF Requested, STATES, ACTIVE_STATES
  <2> QED
    BY <2>1, <2>2, DriveIsCall
<1>5. CASE drive_merge_stage
  <2>1. Transition("MERGING", "merge", {}, {}) \/ Hold("merge", {}, {})
    BY <1>5 DEF drive_merge_stage, Drive
  <2>2. "MERGING" \in STATES /\ Requested("MERGING", {})
    BY DEF Requested, STATES, ACTIVE_STATES, TERMINAL_STATES
  <2> QED
    BY <2>1, <2>2, DriveIsCall
<1>6. CASE drive_deploy_stage
  <2>1. PICK mergeCompleted \in BOOLEAN, targetRef \in BOOLEAN, succeeded \in BOOLEAN :
          CASE status = "DEPLOYING" ->
                 Drive(succeeded, "COMPLETED", "deploy", Noted(FALSE, mergeCompleted))
            [] status = "MERGING" ->
                 Drive(mergeCompleted /\ targetRef, "DEPLOYING", "deploy",
                       Noted(FALSE, mergeCompleted))
            [] OTHER -> Hold("deploy", Noted(FALSE, mergeCompleted), {})
    BY <1>6 DEF drive_deploy_stage
  <2> DEFINE seen == Noted(FALSE, mergeCompleted)
  <2>2. seen \in SUBSET Notes /\ (mergeCompleted => "merge completed" \in seen)
    BY NotedIsNotes DEF Noted
  <2>3. CASE status = "DEPLOYING"
    <3>1. Transition("COMPLETED", "deploy", seen, {}) \/ Hold("deploy", seen, {})
      BY <2>1, <2>3 DEF Drive
    <3>2. "COMPLETED" \in STATES /\ Requested("COMPLETED", seen)
      BY DEF Requested, STATES, TERMINAL_STATES
    <3> QED
      BY <2>2, <3>1, <3>2, DriveIsCall
  <2>4. CASE status = "MERGING"
    <3>1. \/ mergeCompleted /\ Transition("DEPLOYING", "deploy", seen, {})
          \/ Hold("deploy", seen, {})
      BY <2>1, <2>4 DEF Drive
    <3>2. "DEPLOYING" \in STATES
      BY DEF STATES, ACTIVE_STATES
    <3>3. mergeCompleted => Requested("DEPLOYING", seen)
      BY <2>2, <2>4, <3>2 DEF Requested, WAITING
    <3> QED
      BY <2>2, <3>1, <3>2, <3>3, DriveIsCall
  <2>5. CASE status \notin {"DEPLOYING", "MERGING"}
    <3>1. Hold("deploy", seen, {})
      BY <2>1, <2>5
    <3>2. {} \in SUBSET Commands
      OBVIOUS
    <3> QED
      BY <2>2, <3>1, <3>2 DEF Call
  <2> QED
    BY <2>3, <2>4, <2>5
<1>7. CASE drive_merge_wait
  <2>1. Transition(WAITING, "merge-wait", {}, {}) \/ Hold("merge-wait", {}, {})
    BY <1>7 DEF drive_merge_wait, Drive
  <2>2. WAITING \in STATES /\ Requested(WAITING, {})
    BY DEF Requested, STATES, WAITING
  <2> QED
    BY <2>1, <2>2, DriveIsCall
<1>8. CASE drive_user_decision
  <2>1. {} \in SUBSET Notes /\ {} \in SUBSET Commands
    OBVIOUS
  <2>2. CASE Hold("user", {}, {})
    BY <2>1, <2>2 DEF Call
  <2>3. ASSUME NEW target \in STATES, NEW seen \in SUBSET Notes, status = WAITING,
               Transition(target, "user", seen, {}),
               target = "DEPLOYING" => "ANSWER DEPLOYING" \in seen
        PROVE  Call
    <3>1. Requested(target, seen)
      BY <2>3 DEF Requested, WAITING
    <3>2. PolicyRequest(target, "user")
      BY DEF PolicyRequest
    <3> QED
      BY <2>1, <2>3, <3>1, <3>2 DEF Call
  <2>4. /\ {"REJECT"} \in SUBSET Notes /\ {"APPROVE"} \in SUBSET Notes
        /\ {"ANSWER DEPLOYING"} \in SUBSET Notes
        /\ "FAILED" \in STATES /\ "READY_FOR_MERGE" \in STATES
    BY DEF Notes, STATES, TERMINAL_STATES, ACTIVE_STATES
  <2>5. CASE status = WAITING /\ Transition("FAILED", "user", {"REJECT"}, {})
    BY <2>3, <2>4, <2>5
  <2>6. CASE status = WAITING /\ Transition("READY_FOR_MERGE", "user", {"APPROVE"}, {})
    BY <2>3, <2>4, <2>6
  <2>7. CASE /\ status = WAITING
             /\ \E target \in STATES :
                  Transition(target, "user",
                    IF target = "DEPLOYING" THEN {"ANSWER DEPLOYING"} ELSE {}, {})
    <3>1. PICK target \in STATES :
            Transition(target, "user",
              IF target = "DEPLOYING" THEN {"ANSWER DEPLOYING"} ELSE {}, {})
      BY <2>7
    <3> QED
      BY <2>1, <2>3, <2>4, <2>7, <3>1
  <2> QED
    BY <1>8, <2>2, <2>5, <2>6, <2>7 DEF drive_user_decision
<1>9. CASE drive_terminal_failure
  <2>1. Transition("FAILED", "failure", {}, {}) \/ Hold("failure", {}, {})
    BY <1>9 DEF drive_terminal_failure, Drive
  <2>2. "FAILED" \in STATES /\ Requested("FAILED", {})
    BY DEF Requested, STATES, ACTIVE_STATES, TERMINAL_STATES
  <2> QED
    BY <2>1, <2>2, DriveIsCall
<1>10. CASE evaluate
  BY <1>10, ExecuteIsCall DEF evaluate
<1>11. CASE evaluate_policy_set
  <2>1. PICK order \in PolicyOrders, f \in FactSets :
          \/ \E i \in DOMAIN order : Execute(Verdict(order[i], f), order[i], f)
          \/ Execute(Stay({}), "policy-set", f)
    BY <1>11 DEF evaluate_policy_set
  <2>2. CASE \E i \in DOMAIN order : Execute(Verdict(order[i], f), order[i], f)
    <3>1. \A i \in DOMAIN order : order[i] \in Policies
      BY TicketAssumption
    <3> QED
      BY <2>2, <3>1, ExecuteIsCall
  <2>3. CASE Execute(Stay({}), "policy-set", f)
    <3>1. Hold("policy-set", Noted("APPROVED" \in f.review, f.mergeCompleted), {})
      BY <2>3 DEF Execute, Stay
    <3>2. Noted("APPROVED" \in f.review, f.mergeCompleted) \in SUBSET Notes
      BY DEF Noted, Notes
    <3>3. {} \in SUBSET Commands
      OBVIOUS
    <3> QED
      BY <3>1, <3>2, <3>3 DEF Call
  <2> QED
    BY <2>1, <2>2, <2>3
<1> QED
  BY <1>1, <1>2, <1>3, <1>4, <1>5, <1>6, <1>7, <1>8, <1>9, <1>10, <1>11 DEF Next

-----------------------------------------------------------------------------
\* The effect of a call on the ticket: it stays, or moves along an edge.
LEMMA CallMoves ==
  ASSUME TypeOK, Call
  PROVE  /\ status' = status \/ (status' \in STATES /\ Legal(status, status'))
         /\ profile' = profile
BY DEF Call, Hold, Transition

\* No edge of the table leaves a terminal state.
LEMMA FinishedHasNoEdge ==
  ASSUME NEW s \in TERMINAL_STATES, NEW t
  PROVE  ~Legal(s, t)
BY DEF Legal, TRANSITIONS, StageEdges, ResumeTargets, WAITING, ACTIVE_STATES, TERMINAL_STATES

\* The edges into the merge stages from outside them, and into deploying.
LEMMA MergeStageEdges ==
  ASSUME NEW s, NEW t, Legal(s, t)
  PROVE  /\ (t \in MergeStages /\ s \notin MergeStages) =>
              (s = WAITING \/ (s = "REVIEW_IN_PROGRESS" /\ t = "READY_FOR_MERGE"))
         /\ t = "DEPLOYING" => s \in {"MERGING", WAITING}
         /\ t = "COMPLETED" => s = "DEPLOYING"
<1>1. CASE <<s, t>> \in StageEdges
  BY <1>1 DEF StageEdges, MergeStages
<1>2. CASE <<s, t>> \notin StageEdges
  <2>1. s = WAITING \/ t \in {"FAILED", WAITING}
    BY <1>2 DEF Legal, TRANSITIONS
  <2>2. s = WAITING => t # "COMPLETED"
    BY <1>2 DEF Legal, TRANSITIONS, ResumeTargets, ACTIVE_STATES, WAITING
  <2> QED
    BY <2>1, <2>2 DEF MergeStages, WAITING
<1> QED
  BY <1>1, <1>2

\* The history invariants hold together with the type invariant.
Inv == TypeOK /\ ReviewedUnlessResumed /\ DeployedOnlyMergedOrAnswered

\* A new ticket satisfies the invariant.
LEMMA InitInv == Init => Inv
<1> SUFFICES ASSUME Init PROVE Inv
  OBVIOUS
<1>1. status \in STATES /\ status \notin MergeStages
  BY DEF Init, STATES, ACTIVE_STATES, MergeStages
<1>2. decision \in Decisions /\ raised \in Deciders
  BY DEF Init, Decisions, Deciders
<1>3. TypeOK
  BY <1>1, <1>2 DEF Init, TypeOK
<1> QED
  BY <1>1, <1>3 DEF Inv, Init, ReviewedUnlessResumed, DeployedOnlyMergedOrAnswered

\* The invariant is inductive.
LEMMA StepInv == Inv /\ [Next]_vars => Inv'
<1> SUFFICES ASSUME Inv, [Next]_vars PROVE Inv'
  OBVIOUS
<1>1. CASE UNCHANGED vars
  BY <1>1 DEF Inv, vars, code, history, TypeOK, ReviewedUnlessResumed,
              DeployedOnlyMergedOrAnswered
<1>2. CASE Next
  <2>1. TypeOK /\ Call
    BY <1>2, CallShape DEF Inv
  <2>2. PICK by \in Deciders \ {"none"}, seen \in SUBSET Notes, commands \in SUBSET Commands :
          \/ Hold(by, seen, commands)
          \/ \E target \in STATES : /\ Requested(target, seen)
                                    /\ PolicyRequest(target, by)
                                    /\ Transition(target, by, seen, commands)
    BY <2>1 DEF Call
  <2>3. Remember(seen)
    BY <2>2 DEF Hold, Transition
  <2>4. /\ status' = status \/ (Legal(status, status') /\ Requested(status', seen))
        /\ status' \in STATES /\ profile' = profile
    BY <2>1, <2>2 DEF Hold, Transition, TypeOK
  <2>5. TypeOK'
    <3>1. decision' \in Decisions /\ raised' \in Deciders
      BY <2>1, <2>2 DEF Hold, Transition, Decide, Decisions, Deciders, TypeOK
    <3>2. /\ reviewed' \in BOOLEAN /\ resumed' \in BOOLEAN /\ merged' \in BOOLEAN
          /\ answered' \in BOOLEAN
      BY <2>1, <2>3 DEF Remember, TypeOK
    <3> QED
      BY <2>1, <2>4, <3>1, <3>2 DEF TypeOK
  <2>6. ReviewedUnlessResumed'
    <3> SUFFICES ASSUME status' \in MergeStages, ~resumed' PROVE reviewed'
      BY DEF ReviewedUnlessResumed, MergeStages
    <3>1. status' # "CODING_IN_PROGRESS"
      BY DEF MergeStages
    <3>2. ~resumed /\ ~(status = WAITING /\ status' # WAITING)
      BY <2>1, <2>3, <3>1 DEF Remember, TypeOK
    <3>3. CASE status \in MergeStages
      BY <2>1, <2>3, <3>1, <3>2, <3>3 DEF Inv, ReviewedUnlessResumed, Remember, TypeOK
    <3>4. CASE status \notin MergeStages
      <4>1. status = "REVIEW_IN_PROGRESS" /\ "review approved" \in seen
        BY <2>4, <3>2, <3>4, MergeStageEdges DEF Requested, MergeStages, WAITING
      <4> QED
        BY <2>3, <3>1, <4>1 DEF Remember
    <3> QED
      BY <3>3, <3>4
  <2>7. DeployedOnlyMergedOrAnswered'
    <3> SUFFICES ASSUME status' \in {"DEPLOYING", "COMPLETED"} PROVE merged' \/ answered'
      BY DEF DeployedOnlyMergedOrAnswered
    <3>1. CASE status \in {"DEPLOYING", "COMPLETED"}
      BY <2>1, <2>3, <3>1 DEF Inv, DeployedOnlyMergedOrAnswered, Remember, TypeOK
    <3>2. CASE status \notin {"DEPLOYING", "COMPLETED"}
      <4>1. status' = "DEPLOYING" /\ status \in {"MERGING", WAITING} /\ Requested(status', seen)
        BY <2>4, <3>2, MergeStageEdges
      <4> QED
        BY <2>3, <4>1 DEF Requested, Remember
    <3> QED
      BY <3>1, <3>2
  <2> QED
    BY <2>5, <2>6, <2>7 DEF Inv
<1> QED
  BY <1>1, <1>2

\* The inductive invariant of the ticket's workflow.
LEMMA Invariance == Spec => []Inv
<1>1. Init => Inv
  BY InitInv
<1>2. Inv /\ [Next]_vars => Inv'
  BY StepInv
<1> QED
  BY <1>1, <1>2, PTL DEF Spec

-----------------------------------------------------------------------------
\* Type correctness, whatever facts arrive in whatever order.
THEOREM TypeCorrect == Spec => []TypeOK
<1>1. Inv => TypeOK
  BY DEF Inv
<1> QED
  BY <1>1, Invariance, PTL

\* No unreviewed work in the merge stages, unless the ticket was parked.
THEOREM ReviewBeforeMerge == Spec => []ReviewedUnlessResumed
<1>1. Inv => ReviewedUnlessResumed
  BY DEF Inv
<1> QED
  BY <1>1, Invariance, PTL

\* No deployment without a completed merge or a user's answer asking for it.
THEOREM MergeBeforeDeploy == Spec => []DeployedOnlyMergedOrAnswered
<1>1. Inv => DeployedOnlyMergedOrAnswered
  BY DEF Inv
<1> QED
  BY <1>1, Invariance, PTL

\* A finished ticket stays finished under every driver and every policy.
THEOREM FinishedStays == Spec => TerminalIsFinal
<1>1. TypeOK /\ [Next]_vars => [(status \in TERMINAL_STATES) => status' = status]_vars
  BY CallShape, CallMoves, FinishedHasNoEdge
<1> QED
  BY <1>1, TypeCorrect, PTL DEF Spec, TerminalIsFinal

\* Every policy's verdict is an edge of the table and leaves waits and
\* failures to the drivers.
THEOREM PoliciesStay == Spec => PoliciesStayInTheirStage
<1>1. ASSUME TypeOK, Next
      PROVE  /\ raised' \notin Policies
             /\ (decision'.by \in Policies /\ status # status') =>
                  (status # WAITING /\ status' # "FAILED")
  <2>1. PICK by \in Deciders \ {"none"}, seen \in SUBSET Notes, commands \in SUBSET Commands :
          \/ Hold(by, seen, commands)
          \/ \E target \in STATES : /\ Requested(target, seen)
                                    /\ PolicyRequest(target, by)
                                    /\ Transition(target, by, seen, commands)
    BY <1>1, CallShape DEF Call
  <2>2. CASE Hold(by, seen, commands)
    BY <2>2 DEF Hold, Policies
  <2>3. ASSUME NEW target \in STATES, PolicyRequest(target, by),
               Transition(target, by, seen, commands)
        PROVE  /\ raised' \notin Policies
               /\ (decision'.by \in Policies /\ status # status') =>
                    (status # WAITING /\ status' # "FAILED")
    <3>1. CASE Legal(status, target)
      BY <2>3, <3>1 DEF Transition, Decide, PolicyRequest, Policies
    <3>2. CASE ~Legal(status, target)
      BY <2>3, <3>2 DEF Transition, PolicyRequest
    <3> QED
      BY <3>1, <3>2
  <2> QED
    BY <2>1, <2>2, <2>3
<1>2. TypeOK /\ [Next]_vars =>
        [/\ raised' \notin Policies
         /\ (decision'.by \in Policies /\ status # status') =>
              (status # WAITING /\ status' # "FAILED")]_vars
  BY <1>1
<1> QED
  BY <1>2, TypeCorrect, PTL DEF Spec, PoliciesStayInTheirStage

\* Drivers, policies and engine implement the lifecycle of the table.
THEOREM Implements == Spec => ImplementsLifecycle
<1>1. Init => Lifecycle!Init
  BY DEF Init, Lifecycle!Init
<1>2. TypeOK /\ [Next]_vars => [Lifecycle!Next]_status
  <2>1. Lifecycle!Legal(status, status') <=> Legal(status, status')
    BY DEF Legal, Lifecycle!Legal, TRANSITIONS, Lifecycle!TRANSITIONS, StageEdges,
           Lifecycle!StageEdges, ResumeTargets, Lifecycle!ResumeTargets, WAITING,
           Lifecycle!WAITING, ACTIVE_STATES, Lifecycle!ACTIVE_STATES
  <2>2. Lifecycle!STATES = STATES
    BY DEF STATES, Lifecycle!STATES, WAITING, Lifecycle!WAITING, ACTIVE_STATES,
           Lifecycle!ACTIVE_STATES, TERMINAL_STATES, Lifecycle!TERMINAL_STATES
  <2> QED
    BY <2>1, <2>2, CallShape, CallMoves DEF Lifecycle!Next, vars, code
<1> QED
  BY <1>1, <1>2, TypeCorrect, PTL DEF Spec, ImplementsLifecycle, Lifecycle!Spec

=============================================================================
