---------------------------- MODULE MCTerminalServer ----------------------------
(* Instances of TerminalServer for TLC. *)
EXTENDS TerminalServer
=============================================================================
