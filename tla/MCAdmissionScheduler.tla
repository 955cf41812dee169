------------------------ MODULE MCAdmissionScheduler ------------------------
(***************************************************************************)
(* AdmissionScheduler for TLC: two slots and four execution commands, so   *)
(* that two of them can wait at the same time, and one signal.             *)
(***************************************************************************)
EXTENDS AdmissionScheduler

CONSTANTS e1, e2, e3, e4, s1

MCExecutions == {e1, e2, e3, e4}
MCSignals == {s1}

=============================================================================
