---------------------------- MODULE MCGamePhase ----------------------------
(* Instances of GamePhase for TLC. *)
EXTENDS GamePhase
=============================================================================
