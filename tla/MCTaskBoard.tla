---------------------------- MODULE MCTaskBoard ----------------------------
(* TaskBoard with the bounds of its configuration. *)
EXTENDS TaskBoard
=============================================================================
