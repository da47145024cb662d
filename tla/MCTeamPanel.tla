---------------------------- MODULE MCTeamPanel ----------------------------
(***************************************************************************)
(* TeamPanel for TLC: a few writers and viewers of one team.               *)
(***************************************************************************)
EXTENDS TeamPanel
=============================================================================
