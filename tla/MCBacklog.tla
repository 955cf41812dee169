----------------------------- MODULE MCBacklog -----------------------------
(* Backlog with one epic and three tickets, the last one blocked by the      *)
(* other two, whose links one read serves.                                   *)
EXTENDS Backlog

CONSTANTS e1, t1, t2, t3

MCEpics == <<e1>>
MCTickets == <<t1, t2, t3>>
MCEpicOf == [t \in {t1, t2, t3} |-> e1]
MCEdges == <<Edge(t1, t3), Edge(t2, t3)>>
=============================================================================
