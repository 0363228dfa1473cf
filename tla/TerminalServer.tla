---------------------------- MODULE TerminalServer ----------------------------
(***************************************************************************)
(* The terminal sessions of the dashboard: creation, the one-time WebSocket *)
(* attachment, the relay between the socket and the PTY, and shutdown      *)
(* (src/internal/dashboard/terminal_server.go and terminal.go).            *)
(*                                                                         *)
(* An id is one authorization handed out by createTerminal; ids are random *)
(* and never reused.  projects is the allowlist that the rest of the       *)
(* handler maintains: this module only reads it, and its stand-alone       *)
(* specification lets it change in every way.                              *)
(***************************************************************************)
EXTENDS Naturals, FiniteSets

CONSTANTS Ids,          \* authorizations that can be handed out
          Paths,        \* project paths
          Home,         \* the empty path: a general terminal in the WSL home
          MaxSessions   \* maxTerminalSessions

ASSUME TerminalAssumption ==
    /\ Home \notin Paths
    /\ MaxSessions \in Nat \ {0}

VARIABLES
    projects,   \* handler.projects, the paths of the latest inventory
    closing,    \* handler.closing
    pending,    \* keys of handler.terminalSessions
    aged,       \* pending sessions whose 30 seconds are over
    active,     \* keys of handler.activeTerminals
    attached,   \* those whose value is a terminal and not nil
    toClose,    \* the terminals CloseTerminals collected and has yet to close
    path,       \* projectPath of each authorization
    pc,         \* where the handler of each socket is in serveTerminalSocket
    output,     \* the goroutine that copies PTY output to the socket
    socket,     \* the WebSocket, as the server sees it
    pty,        \* the PTY and the SSH child behind it
    starts      \* history: how many PTYs were started for each authorization

maps   == <<pending, aged, active, attached>>
relay  == <<pc, output, socket, pty>>
local  == <<closing, maps, toClose, path, relay, starts>>
vars   == <<projects, local>>

-----------------------------------------------------------------------------
\* A handler that reached a terminal state is "gone".  In "reading" it waits for
\* a WebSocket message, in "writing" it is inside terminal.Write.
Stages == {"unused", "authorized", "upgrading", "starting", "started",
           "reading", "writing", "draining", "leaving", "releasing", "gone"}

TypeOK ==
    /\ projects \in SUBSET Paths
    /\ closing \in BOOLEAN
    /\ pending \in SUBSET Ids /\ aged \in SUBSET Ids
    /\ active \in SUBSET Ids /\ attached \in SUBSET active
    /\ toClose \in SUBSET Ids
    /\ path \in [Ids -> Paths \cup {Home}]
    /\ pc \in [Ids -> Stages]
    /\ output \in [Ids -> {"none", "reading", "writing", "done"}]
    /\ socket \in [Ids -> {"none", "open", "peerClosed", "closed"}]
    /\ pty \in [Ids -> {"none", "open", "exited", "closed"}]
    /\ starts \in [Ids -> Nat]

Init ==
    /\ projects \in SUBSET Paths
    /\ closing = FALSE
    /\ pending = {} /\ aged = {} /\ active = {} /\ attached = {} /\ toClose = {}
    /\ path = [i \in Ids |-> Home]
    /\ pc = [i \in Ids |-> "unused"]
    /\ output = [i \in Ids |-> "none"]
    /\ socket = [i \in Ids |-> "none"]
    /\ pty = [i \in Ids |-> "none"]
    /\ starts = [i \in Ids |-> 0]

Goto(i, stage) == pc' = [pc EXCEPT ![i] = stage]

\* sshTerminal.Close: idempotent, and it kills a child that is still running.
ClosePTY(i) == pty' = [pty EXCEPT ![i] = "closed"]

CloseSocket(i) == socket' = [socket EXCEPT ![i] = "closed"]

-----------------------------------------------------------------------------
(* Authorizations *)

\* removeExpiredTerminalSessionsLocked: what every request drops first.
Live == pending \ aged

\* Faulty variant: one session too many.
FullOffByOne == Cardinality(Live) + Cardinality(active) > MaxSessions

Full == Cardinality(Live) + Cardinality(active) >= MaxSessions

\* Faulty variant: the path of the request is taken as it comes.
CreateAnywhere(i, p) ==
    /\ pc[i] = "unused"
    /\ ~closing /\ ~Full
    /\ pending' = Live \cup {i}
    /\ path' = [path EXCEPT ![i] = p]
    /\ Goto(i, "authorized")
    /\ UNCHANGED <<projects, closing, aged, active, attached, toClose,
                   output, socket, pty, starts>>

Create(i, p) ==
    /\ pc[i] = "unused"
    /\ ~closing /\ (p = Home \/ p \in projects) /\ ~Full
    /\ pending' = Live \cup {i}
    /\ path' = [path EXCEPT ![i] = p]
    /\ Goto(i, "authorized")
    /\ UNCHANGED <<projects, closing, aged, active, attached, toClose,
                   output, socket, pty, starts>>

\* A request that is refused, whatever the reason, still drops what expired.
RefuseRequest ==
    /\ pending # Live
    /\ pending' = Live
    /\ UNCHANGED <<projects, closing, aged, active, attached, toClose, path, relay, starts>>

Age(i) ==
    /\ i \in Live
    /\ aged' = aged \cup {i}
    /\ UNCHANGED <<projects, closing, pending, active, attached, toClose, path, relay, starts>>

\* Faulty variant: an attachment does not consume its authorization.
AttachKeepingAuthorization(i) ==
    /\ i \in Live /\ ~closing
    /\ pending' = Live
    /\ active' = active \cup {i}
    /\ Goto(i, "upgrading")
    /\ UNCHANGED <<projects, closing, aged, attached, toClose, path,
                   output, socket, pty, starts>>

\* A GET on the socket's path with the secret subprotocol.
Attach(i) ==
    /\ i \in Live /\ ~closing
    /\ pending' = Live \ {i}
    /\ active' = active \cup {i}
    /\ Goto(i, "upgrading")
    /\ UNCHANGED <<projects, closing, aged, attached, toClose, path,
                   output, socket, pty, starts>>

-----------------------------------------------------------------------------
(* serveTerminalSocket after the reservation *)

\* Faulty variant: the terminal stays listed after its slot was given back.
RemoveSlotOnly(i) == active' = active \ {i} /\ attached' = attached

RemoveActive(i) == active' = active \ {i} /\ attached' = attached \ {i}

Upgrade(i) ==
    /\ pc[i] = "upgrading"
    /\ \/ /\ socket' = [socket EXCEPT ![i] = "open"]
          /\ Goto(i, "starting")
          /\ UNCHANGED <<active, attached>>
       \/ Goto(i, "gone") /\ RemoveActive(i) /\ UNCHANGED socket
    /\ UNCHANGED <<projects, closing, pending, aged, toClose, path, output, pty, starts>>

\* Faulty variant: a terminal that cannot start keeps its slot.
StartTerminalKeepingSlot(i) ==
    /\ pc[i] = "starting"
    /\ \/ /\ pty' = [pty EXCEPT ![i] = "open"]
          /\ starts' = [starts EXCEPT ![i] = @ + 1]
          /\ Goto(i, "started")
          /\ UNCHANGED socket
       \/ CloseSocket(i) /\ Goto(i, "gone") /\ UNCHANGED <<pty, starts>>
    /\ UNCHANGED <<projects, closing, maps, toClose, path, output>>

StartTerminal(i) ==
    /\ pc[i] = "starting"
    /\ \/ /\ pty' = [pty EXCEPT ![i] = "open"]
          /\ starts' = [starts EXCEPT ![i] = @ + 1]
          /\ Goto(i, "started")
          /\ UNCHANGED <<active, attached, socket>>
       \/ /\ RemoveActive(i) /\ CloseSocket(i) /\ Goto(i, "gone")
          /\ UNCHANGED <<pty, starts>>
    /\ UNCHANGED <<projects, closing, pending, aged, toClose, path, output>>

\* Faulty variant: closing is not looked at again.
RegisterWithoutSecondLook(i) ==
    /\ pc[i] = "started"
    /\ active' = active \cup {i} /\ attached' = attached \cup {i}
    /\ output' = [output EXCEPT ![i] = "reading"]
    /\ Goto(i, "reading")
    /\ UNCHANGED <<projects, closing, pending, aged, toClose, path, socket, pty, starts>>

\* The second look at handler.closing: the dashboard may have begun to shut down
\* while the terminal was being started.
Register(i) ==
    /\ pc[i] = "started"
    /\ IF closing
         THEN /\ ClosePTY(i) /\ CloseSocket(i) /\ Goto(i, "gone")
              /\ UNCHANGED <<attached, active, output>>
         ELSE /\ active' = active \cup {i} /\ attached' = attached \cup {i}
              /\ output' = [output EXCEPT ![i] = "reading"]
              /\ Goto(i, "reading")
              /\ UNCHANGED <<socket, pty>>
    /\ UNCHANGED <<projects, closing, pending, aged, toClose, path, starts>>

\* The browser's messages: input for the PTY, or a message that ends the session
\* (a bad resize, or one of another type).
Receive(i) ==
    /\ pc[i] = "reading" /\ socket[i] = "open"
    /\ Goto(i, "writing") \/ Goto(i, "leaving")
    /\ UNCHANGED <<projects, closing, maps, toClose, path, output, socket, pty, starts>>

\* Faulty variant: the terminal is closed only after the output ended.
ReadFailsKeepingPTY(i) ==
    /\ pc[i] = "reading" /\ socket[i] # "open"
    /\ Goto(i, "draining")
    /\ UNCHANGED <<projects, closing, maps, toClose, path, output, socket, pty, starts>>

\* ReadMessage fails because the socket is no longer open.
ReadFails(i) ==
    /\ pc[i] = "reading" /\ socket[i] # "open"
    /\ ClosePTY(i) /\ Goto(i, "draining")
    /\ UNCHANGED <<projects, closing, maps, toClose, path, output, socket, starts>>

\* ReadMessage fails on an open socket: the message is over maxTerminalMessageSize, or
\* breaks the protocol.
ReadRejected(i) ==
    /\ pc[i] = "reading" /\ socket[i] = "open"
    /\ ClosePTY(i) /\ Goto(i, "draining")
    /\ UNCHANGED <<projects, closing, maps, toClose, path, output, socket, starts>>

\* terminal.Write returns: the input was taken, or the PTY is gone.
InputTaken(i) ==
    /\ pc[i] = "writing" /\ pty[i] \in {"open", "exited"}
    /\ Goto(i, "reading")
    /\ UNCHANGED <<projects, closing, maps, toClose, path, output, socket, pty, starts>>

InputFails(i) ==
    /\ pc[i] = "writing" /\ pty[i] # "open"
    /\ Goto(i, "leaving")
    /\ UNCHANGED <<projects, closing, maps, toClose, path, output, socket, pty, starts>>

\* <-outputDone
Drained(i) ==
    /\ pc[i] = "draining" /\ output[i] = "done"
    /\ Goto(i, "leaving")
    /\ UNCHANGED <<projects, closing, maps, toClose, path, output, socket, pty, starts>>

\* Faulty variant: the slot is given back before the terminal is closed.
LeaveBeforeClosing(i) ==
    /\ pc[i] = "leaving"
    /\ RemoveActive(i) /\ Goto(i, "releasing")
    /\ UNCHANGED <<projects, closing, pending, aged, toClose, path,
                   output, socket, pty, starts>>

\* The deferred calls: the terminal is closed, then its slot released, then the
\* connection is closed.
Leave(i) ==
    /\ pc[i] = "leaving"
    /\ ClosePTY(i) /\ Goto(i, "releasing")
    /\ UNCHANGED <<projects, closing, maps, toClose, path, output, socket, starts>>

Release(i) ==
    /\ pc[i] = "releasing"
    /\ RemoveActive(i) /\ CloseSocket(i) /\ Goto(i, "gone")
    /\ UNCHANGED <<projects, closing, pending, aged, toClose, path, output, pty, starts>>

\* The output goroutine.  It blocks in WriteMessage while the browser does not
\* read; when the write fails it returns, when the PTY ends it closes the socket.
OutputStep(i) ==
    /\ \/ /\ output[i] = "reading" /\ pty[i] = "open"
          /\ output' = [output EXCEPT ![i] = "writing"] /\ UNCHANGED socket
       \/ /\ output[i] = "writing" /\ socket[i] = "open"
          /\ output' = [output EXCEPT ![i] = "reading"] /\ UNCHANGED socket
    /\ UNCHANGED <<projects, closing, maps, toClose, path, pc, pty, starts>>

OutputEnds(i) ==
    /\ \/ /\ output[i] = "writing" /\ socket[i] # "open"
          /\ UNCHANGED socket
       \/ output[i] = "reading" /\ pty[i] # "open" /\ CloseSocket(i)
    /\ output' = [output EXCEPT ![i] = "done"]
    /\ UNCHANGED <<projects, closing, maps, toClose, path, pc, pty, starts>>

-----------------------------------------------------------------------------
(* CloseTerminals, called once when the dashboard stops *)

\* Faulty variant: the map is cleared before its terminals are collected.
CloseTerminalsTooLate ==
    /\ ~closing
    /\ closing' = TRUE
    /\ active' = {} /\ attached' = {} /\ pending' = {}
    /\ UNCHANGED <<projects, aged, toClose, path, relay, starts>>

CloseTerminals ==
    /\ ~closing
    /\ closing' = TRUE
    /\ toClose' = attached
    /\ active' = {} /\ attached' = {} /\ pending' = {}
    /\ UNCHANGED <<projects, aged, path, relay, starts>>

CloseCollected(i) ==
    /\ i \in toClose
    /\ toClose' = toClose \ {i}
    /\ ClosePTY(i)
    /\ UNCHANGED <<projects, closing, maps, path, pc, output, socket, starts>>

-----------------------------------------------------------------------------
(* The two ends of a session *)

PeerCloses(i) ==
    /\ socket[i] = "open"
    /\ socket' = [socket EXCEPT ![i] = "peerClosed"]
    /\ UNCHANGED <<projects, closing, maps, toClose, path, pc, output, pty, starts>>

ShellExits(i) ==
    /\ pty[i] = "open"
    /\ pty' = [pty EXCEPT ![i] = "exited"]
    /\ UNCHANGED <<projects, closing, maps, toClose, path, pc, output, socket, starts>>

\* Another inventory is published.
InventoryChanges ==
    /\ projects' \in SUBSET Paths
    /\ UNCHANGED local

-----------------------------------------------------------------------------
\* The steps of the server's own goroutines.
Serve(i) ==
    \/ Upgrade(i) \/ StartTerminal(i) \/ Register(i)
    \/ ReadFails(i) \/ InputFails(i) \/ Drained(i) \/ Leave(i) \/ Release(i)

TerminalNext ==
    \/ \E i \in Ids, p \in Paths \cup {Home} : Create(i, p)
    \/ RefuseRequest \/ CloseTerminals
    \/ \E i \in Ids : \/ Age(i) \/ Attach(i) \/ Serve(i) \/ Receive(i) \/ ReadRejected(i)
                      \/ InputTaken(i) \/ OutputStep(i) \/ OutputEnds(i) \/ CloseCollected(i)
                      \/ PeerCloses(i) \/ ShellExits(i)

Next == TerminalNext \/ InventoryChanges

\* The goroutines of the server run.  Nothing is assumed of the browser, of the
\* remote shell (terminal.Write returns only if it takes its input), or of who stops
\* the dashboard.
Fairness ==
    \A i \in Ids : /\ WF_vars(Serve(i)) /\ WF_vars(OutputEnds(i))
                   /\ WF_vars(CloseCollected(i))

Spec == Init /\ [][Next]_vars /\ Fairness

-----------------------------------------------------------------------------
(* Properties *)

Running == {i \in Ids : pty[i] = "open"}

\* While the dashboard serves, every SSH child that runs holds one of the counted
\* slots: no path through upgrade, start, relay and cleanup frees a slot early.
RunningHoldsSlot == closing \/ Running \subseteq active

\* At most MaxSessions SSH children run, before, during and after a shutdown that
\* overlaps sessions being started ("at most four terminal sessions").
SessionLimit == Cardinality(pending \cup Running) <= MaxSessions

\* An authorization starts one terminal at most ("one WebSocket attachment").
OneAttachment == \A i \in Ids : starts[i] <= 1

\* After CloseTerminals no authorization is left, and an SSH child still running
\* is about to be closed: it was collected, or its own handler has yet to look at
\* closing again.  None is forgotten between StartTerminal and Register.
NothingForgotten ==
    closing => /\ pending = {} /\ active = {}
               /\ \A i \in Running : i \in toClose \/ pc[i] = "started"

\* A slot is held by a handler that will still give it back: whichever step of
\* serveTerminalSocket fails, none of the few slots is lost.
SlotsAreExact ==
    \A i \in Ids : i \in active =>
        pc[i] \in {"upgrading", "starting", "started", "reading", "writing",
                   "draining", "leaving", "releasing"}

\* Stopping the dashboard ends every SSH child for good.
ShutdownEndsSessions == closing ~> [](Running = {})

\* A browser that is gone takes its session with it: the SSH child ends and the slot
\* is free again, unless the handler waits forever in terminal.Write for a remote side
\* that does not read.  No other wait of the handler or of its output keeps a session.
\* "Closing the socket, page, or dashboard closes the PTY and terminates the SSH child"
\* (docs/architecture.md:185) has no such exception; the code does, so without the first
\* disjunct this does not hold.
OnlyBlockedInputKeepsSession ==
    \A i \in Ids :
        \/ <>[](pc[i] = "writing")
        \/ socket[i] = "peerClosed" ~> pty[i] # "open" /\ i \notin active
=============================================================================
