--------------------------- MODULE TicketLifecycle ---------------------------
(***************************************************************************)
(* What the state machine promises about one ticket, whoever drives it:    *)
(* the ticket enters the workflow ready for its PR specification and then  *)
(* only ever moves along an edge of the table.                             *)
(***************************************************************************)
EXTENDS WorkflowTable

VARIABLE status   \* the workflow state of the ticket

Init == status = "READY_FOR_PR_SPECIFICATION"

Next == \E target \in STATES : Legal(status, target) /\ status' = target

Spec == Init /\ [][Next]_status

=============================================================================
