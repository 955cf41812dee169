-------------------------- MODULE MCTicketWorkflow --------------------------
(***************************************************************************)
(* TicketWorkflow for TLC: two tiers, the facts of each policy alone and   *)
(* the combinations in which two policies of a set both have an opinion.   *)
(***************************************************************************)
EXTENDS TicketWorkflow

Quiet == [ admitted |-> FALSE, capacity |-> FALSE, review |-> {},
           prApproved |-> FALSE, ciGreen |-> FALSE, profileSeen |-> FALSE,
           mergeCompleted |-> FALSE, targetRef |-> FALSE, failure |-> "none" ]

MCFactSets ==
  {[Quiet EXCEPT !.admitted = a, !.capacity = c] : a, c \in BOOLEAN}
    \cup {[Quiet EXCEPT !.review = r] : r \in SUBSET ReviewStatuses}
    \cup {[Quiet EXCEPT !.prApproved = a, !.ciGreen = c] : a, c \in BOOLEAN}
    \cup {[Quiet EXCEPT !.mergeCompleted = m, !.targetRef = t, !.profileSeen = p] :
            m, t, p \in BOOLEAN}
    \cup {[Quiet EXCEPT !.failure = k, !.review = r] :
            k \in {"development", "auto", "human"}, r \in {{}, {"APPROVED"}, {"BLOCKED"}}}

MCPolicyOrders ==
  { <<"coding-start", "review-success", "merge-ready", "user-approval",
      "deploy-begin", "should-fail">>,
    <<"should-fail", "deploy-begin", "user-approval", "review-success">> }

MCProfiles == {"LEVEL_1_INTERNAL", "LEVEL_3_USER_FACING"}
MCHumanTiers == {"LEVEL_3_USER_FACING"}

=============================================================================
