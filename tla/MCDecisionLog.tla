---------------------------- MODULE MCDecisionLog ----------------------------
(***************************************************************************)
(* DecisionLog for TLC: hosts that move tickets back and forth between     *)
(* coding and review, so that the same transition occurs many times.       *)
(***************************************************************************)
EXTENDS DecisionLog, TLC

CONSTANTS h1, h2, t1, t2

MCHosts == {h1, h2}
MCTickets == {t1, t2}

MCStages == {"CODING_IN_PROGRESS", "REVIEW_IN_PROGRESS"}
Symmetric == Permutations(MCHosts) \cup Permutations(MCTickets)

=============================================================================
