---------------------------- MODULE MCTerminalPage ----------------------------
(* Instances of TerminalPage for TLC: one terminal of the WSL home, and others of
   a project. *)
EXTENDS TerminalPage

CONSTANTS home1, project1, project2, Project

MCStarts == {home1, project1, project2}
MCPath   == [s \in MCStarts |-> IF s = home1 THEN Home ELSE Project]
=============================================================================
