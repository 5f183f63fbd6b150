------------------------------ MODULE MCRealtime ------------------------------
(* Instances of RealtimeJournal for TLC.                                   *)
EXTENDS RealtimeJournal

CONSTANTS g1, c1
=============================================================================
