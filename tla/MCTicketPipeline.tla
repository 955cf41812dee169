-------------------------- MODULE MCTicketPipeline --------------------------
(* The ticket pipeline, for TLC: the constants are small in each .cfg.      *)
EXTENDS TicketPipeline

\* Every run is started with --resume (the first finds nothing to resume).
OnlyResumed == {TRUE}

\* Clean and resumed runs in any order.
CleanAndResumed == {TRUE, FALSE}

=============================================================================
