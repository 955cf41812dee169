---------------------------- MODULE WorkflowTable ----------------------------
(***************************************************************************)
(* The states of a ticket's workflow and the transition table of the       *)
(* orchestrator's state machine: states.py and _build_transition_table of  *)
(* state_machine.py.  Every driver, policy and wrapper of the orchestrator *)
(* goes through this one table, so every module about tickets extends it.  *)
(***************************************************************************)

\* The stages in which the factory is doing work.
ACTIVE_STATES ==
  { "READY_FOR_PR_SPECIFICATION", "READY_FOR_CODING", "CODING_IN_PROGRESS",
    "REVIEW_IN_PROGRESS", "READY_FOR_MERGE", "MERGING", "DEPLOYING" }

TERMINAL_STATES == { "COMPLETED", "FAILED" }

WAITING == "WAITING_FOR_USER"

STATES == ACTIVE_STATES \cup TERMINAL_STATES \cup {WAITING}

\* The edges of normal progress, with the rework edge back to coding.
StageEdges ==
  { <<"READY_FOR_PR_SPECIFICATION", "READY_FOR_CODING">>,
    <<"READY_FOR_CODING",   "CODING_IN_PROGRESS">>,
    <<"CODING_IN_PROGRESS", "REVIEW_IN_PROGRESS">>,
    <<"REVIEW_IN_PROGRESS", "READY_FOR_MERGE">>,
    <<"REVIEW_IN_PROGRESS", "CODING_IN_PROGRESS">>,
    <<"READY_FOR_MERGE",    "MERGING">>,
    <<"MERGING",            "DEPLOYING">>,
    <<"DEPLOYING",          "COMPLETED">> }

\* The stages a ticket may resume when its wait for the user ends.
ResumeTargets == ACTIVE_STATES

\* Fault: finished tickets may be parked like active ones.
TransitionsParkFinished ==
  StageEdges
    \cup ({WAITING} \X ResumeTargets)
    \cup ((ACTIVE_STATES \cup {WAITING}) \X {"FAILED"})
    \cup ((ACTIVE_STATES \cup TERMINAL_STATES) \X {WAITING})

\* The whole table, as a relation: the stage edges, the resumption of a wait,
\* the failures of active and waiting tickets, the parking of active ones.
TRANSITIONS ==
  StageEdges
    \cup ({WAITING} \X ResumeTargets)
    \cup ((ACTIVE_STATES \cup {WAITING}) \X {"FAILED"})
    \cup (ACTIVE_STATES \X {WAITING})

\* The guard of transition(): IllegalTransitionError is raised when it fails.
Legal(current, target) == <<current, target>> \in TRANSITIONS

=============================================================================
