---------------------------- MODULE MCBuildOrder ----------------------------
(* BuildOrder over every graph of up to three tickets.                       *)
EXTENDS BuildOrder
=============================================================================
