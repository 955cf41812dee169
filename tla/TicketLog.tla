------------------------------ MODULE TicketLog ------------------------------
(***************************************************************************)
(* What the decision log promises, whoever records in it and however the   *)
(* writers interleave: a ticket's decisions are written as one log after   *)
(* another, each of them an earlier one with one decision more at its end, *)
(* and nobody is told of a decision that was not recorded so.  Without     *)
(* Overwrites it is always the latest log that is extended: decisions are  *)
(* only ever appended.  With it a record may start again from an older     *)
(* one, and the decisions since then are off the log: but it never starts  *)
(* from nothing once there is something, and it never invents a history.   *)
(***************************************************************************)
EXTENDS Sequences, Naturals

CONSTANTS
  Tickets, Decisions,
  Overwrites          \* whether a record may extend an older log than the latest

VARIABLES
  logs,   \* logs[t]: the logs ticket t has had, the last one is the current one
  told    \* the <<ticket, decision>> pairs other services have heard of

Init ==
  /\ logs = [t \in Tickets |-> << >>]
  /\ told = {}

Record(t, d) ==
  /\ \E i \in 0..Len(logs[t]) :
       /\ i = Len(logs[t]) \/ (Overwrites /\ i > 0)
       /\ logs' = [logs EXCEPT ![t] = Append(@, Append(IF i = 0 THEN << >> ELSE @[i], d))]
  /\ UNCHANGED told

Tell(t, d) ==
  /\ \E i \in DOMAIN logs[t] : logs[t][i] # << >> /\ logs[t][i][Len(logs[t][i])] = d
  /\ told' = told \cup {<<t, d>>}
  /\ UNCHANGED logs

Next == \E t \in Tickets, d \in Decisions : Record(t, d) \/ Tell(t, d)

Spec == Init /\ [][Next]_<<logs, told>>

=============================================================================
