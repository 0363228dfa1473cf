------------------------------ MODULE Dashboard ------------------------------
(***************************************************************************)
(* The dashboard's HTTP handler as a whole: the project inventory and the  *)
(* terminal sessions share handler.projects and handler.mutex              *)
(* (src/internal/dashboard/server.go, terminal_server.go).  Every critical *)
(* section is one action of one of the two modules, so the handler takes a *)
(* step of the one or of the other.                                        *)
(***************************************************************************)
EXTENDS ProjectInventory

CONSTANTS Ids, Home, MaxSessions   \* as in TerminalServer

VARIABLES closing, pending, aged, active, attached, toClose, path, pc,
          output, socket, pty, starts   \* as in TerminalServer

Terminals == INSTANCE TerminalServer

terminalVars == <<closing, pending, aged, active, attached, toClose, path, pc,
                  output, socket, pty, starts>>
dashVars == <<vars, terminalVars>>

DashInit == Init /\ Terminals!Init

DashNext ==
    \/ Next /\ UNCHANGED terminalVars
    \/ Terminals!TerminalNext /\ UNCHANGED <<deleting, remote, snap, req, past>>

DashSpec == DashInit /\ [][DashNext]_dashVars

-----------------------------------------------------------------------------
(* Properties *)

\* "A project terminal may start only at an exact path from the latest inventory":
\* when an SSH child is started, its project is on the list, or was taken off it by
\* a deletion rather than by a newer inventory.
TerminalsStartAtListedPaths ==
    [][\A i \in Ids :
         starts'[i] > starts[i] /\ path[i] # Home
           => path[i] \in projects \cup deleting \cup removed]_dashVars
=============================================================================
