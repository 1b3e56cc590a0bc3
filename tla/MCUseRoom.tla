----------------------------- MODULE MCUseRoom -----------------------------
(* UseRoom with one watching page, whose connections come one by one.       *)
EXTENDS UseRoom

OneTab == [v \in Viewers |-> "tab"]
=============================================================================
