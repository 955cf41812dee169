----------------------------- MODULE Interaction -----------------------------
(***************************************************************************)
(* One row of user_interactions and what application/interaction_service.py*)
(* does to it.  A summary is the number of times it was written: two       *)
(* summaries of one interaction are the same text when they are the same   *)
(* number.  The status is derived from the row and the clock, never stored.*)
(***************************************************************************)
EXTENDS Naturals

CONSTANTS
  InactivityWindow,  \* _INACTIVITY_WINDOW, in ticks of the clock
  NoInteraction      \* no row for the thread

\* completed: completed_at is set; last_message: last_message_timestamp.
Interactions == [summary : Nat, last_message : Nat, expires_at : Nat, completed : BOOLEAN]

ASSUME InteractionAssumption ==
  /\ InactivityWindow \in Nat
  /\ NoInteraction \notin Interactions

InteractionStatus == {"ACTIVE", "COMPLETED", "EXPIRED"}
ClosedStatuses == {"COMPLETED", "EXPIRED"}

derive_status(interaction, now) ==
  IF interaction.completed THEN "COMPLETED"
  ELSE IF now > interaction.expires_at THEN "EXPIRED" ELSE "ACTIVE"

\* create, when the thread has no row: the summary is the question.
Opened(now) ==
  [summary |-> 0, last_message |-> now, expires_at |-> now + InactivityWindow,
   completed |-> FALSE]

\* update_summary and complete, past the check that the row is ACTIVE.
Rewritten(interaction) == [interaction EXCEPT !.summary = @ + 1]
Completed(interaction) == [interaction EXCEPT !.completed = TRUE]

\* SlackInboundConsumer._record_inbound_message, which checks nothing.
Messaged(interaction, now) == [interaction EXCEPT !.last_message = now]

=============================================================================
