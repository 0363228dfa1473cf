----------------------------- MODULE TerminalPage -----------------------------
(***************************************************************************)
(* The terminal of the dashboard page                                      *)
(* (src/internal/dashboard/assets/app.js: startTerminal, stopTerminal).    *)
(*                                                                         *)
(* JavaScript runs one callback at a time; an action is what runs between  *)
(* two awaits, timers or events.  Several calls of startTerminal may be    *)
(* suspended at once.  A call compares the generation it remembers with    *)
(* the current one; here owner is the call whose generation is current.    *)
(***************************************************************************)
EXTENDS Naturals, FiniteSets

CONSTANTS Starts,   \* calls of startTerminal
          Path,     \* the project path of each call, or Home
          Home,     \* no project: the WSL home
          None,
          Limit     \* terminalStartupLimit, in messages

ASSUME PageAssumption == None \notin Starts /\ Limit \in Nat

VARIABLES
    stage,           \* where each call and its socket are
    owner,           \* the call whose generation is state.terminalGeneration
    terminalSocket,  \* state.terminalSocket
    muted,           \* calls whose socket lost its onclose
    ready,           \* terminalReady of each call
    timers,          \* armed startupTimers
    buffered,        \* messages in startupOutput of each call
    terminalState,   \* setTerminalState
    allowed,         \* handler.projects: the paths the server opens terminals at
    answers,         \* paths whose deletion the server began and the page was not told of
    gone             \* history: deletions the page was told of, of paths the server
                     \* has not listed again since

page == <<owner, terminalSocket, muted, ready, timers, buffered, terminalState>>
server == <<allowed, answers, gone>>
vars == <<stage, page, server>>

-----------------------------------------------------------------------------
Projects == {Path[s] : s \in Starts} \ {Home}

Stages == {"unused", "scheduled", "posting", "granted", "refused", "reading",
           "connecting", "open", "closing", "ended"}

Connected(s) == stage[s] \in {"connecting", "open"}

TypeOK ==
    /\ stage \in [Starts -> Stages]
    /\ owner \in Starts \cup {None} /\ terminalSocket \in Starts \cup {None}
    /\ muted \in SUBSET Starts /\ ready \in SUBSET Starts /\ timers \in SUBSET Starts
    /\ buffered \in [Starts -> Nat]
    /\ terminalState \in {"idle", "connecting", "connected", "unavailable"}
    /\ allowed \in SUBSET Projects /\ answers \in SUBSET Projects
    /\ gone \in SUBSET Projects

\* After the first snapshot: the page has its action token and shows the projects.
Init ==
    /\ stage = [s \in Starts |-> "unused"]
    /\ owner = None /\ terminalSocket = None
    /\ muted = {} /\ ready = {} /\ timers = {}
    /\ buffered = [s \in Starts |-> 0]
    /\ terminalState = "idle"
    /\ allowed = Projects /\ answers = {} /\ gone = {}

-----------------------------------------------------------------------------
(* The browser *)

\* WebSocket.close accepts 1000 and 3000 to 4999 from a page; any other code is an
\* exception, and the socket stays as it is.
CodeAccepted(code) == code = 1000 \/ code \in 3000..4999

AfterClose(s, code) ==
    IF Connected(s) /\ CodeAccepted(code) THEN "closing" ELSE stage[s]

-----------------------------------------------------------------------------
(* stopTerminal, for a call that takes over (or none) *)

\* The new generation belongs to next; stages are the other changes of this step.
Stop(next, stages) ==
    /\ owner' = next
    /\ IF terminalSocket = None
       THEN stage' = stages /\ UNCHANGED muted
       ELSE /\ stage' = [stages EXCEPT ![terminalSocket] = AfterClose(terminalSocket, 1000)]
            /\ muted' = muted \cup {terminalSocket}
    /\ terminalSocket' = None
    /\ UNCHANGED <<ready, timers, buffered>>

\* The Close button.
CloseTerminal ==
    /\ owner # None
    /\ Stop(None, stage)
    /\ terminalState' = "idle"
    /\ UNCHANGED server

\* The catch of startTerminal, after a stage of the call that failed.
Catch(s) ==
    LET stages == [stage EXCEPT ![s] = "ended"]
    IN /\ IF owner = s
          THEN Stop(None, stages) /\ terminalState' = "idle"
          ELSE stage' = stages /\ UNCHANGED page
       /\ UNCHANGED server

-----------------------------------------------------------------------------
(* startTerminal *)

\* openProjectTerminal: startTerminal is called 120 ms after the click.  Which cards the
\* page shows is modelled in ProjectPage; the card of a deleted project may be back, by
\* a late or a new listing.
Schedule(s) ==
    /\ stage[s] = "unused" /\ Path[s] \in Projects
    /\ stage' = [stage EXCEPT ![s] = "scheduled"]
    /\ UNCHANGED <<page, server>>

\* From the call to the fetch that its first await waits for.
StartTerminal(s) ==
    /\ stage[s] = IF Path[s] = Home THEN "unused" ELSE "scheduled"
    /\ Stop(s, [stage EXCEPT ![s] = "posting"])
    /\ terminalState' = "connecting"
    /\ UNCHANGED server

\* The server's answer to POST /api/terminals (modelled in Dashboard).
Grant(s) ==
    /\ stage[s] = "posting" /\ Path[s] \in allowed \cup {Home}
    /\ stage' = [stage EXCEPT ![s] = "granted"]
    /\ UNCHANGED <<page, server>>

Refuse(s) ==
    /\ stage[s] = "posting"
    /\ stage' = [stage EXCEPT ![s] = "refused"]
    /\ UNCHANGED <<page, server>>

PostGranted(s) ==
    /\ stage[s] = "granted"
    /\ stage' = [stage EXCEPT ![s] = IF owner = s THEN "reading" ELSE "ended"]
    /\ UNCHANGED <<page, server>>

PostRefused(s) == stage[s] = "refused" /\ Catch(s)

\* After the wait for response.json() the generation is not compared again.
Connect(s) ==
    /\ stage[s] = "reading"
    /\ stage' = [stage EXCEPT ![s] = "connecting"]
    /\ terminalSocket' = s
    /\ UNCHANGED <<owner, muted, ready, timers, buffered, terminalState, server>>

ReadFails(s) == stage[s] = "reading" /\ Catch(s)

-----------------------------------------------------------------------------
(* The socket's events *)

\* Faulty variant: no startup timer.
OpenWithoutTimer(s) ==
    /\ stage[s] = "connecting"
    /\ stage' = [stage EXCEPT ![s] = "open"]
    /\ terminalState' = IF owner = s THEN "connecting" ELSE terminalState
    /\ UNCHANGED <<owner, terminalSocket, muted, ready, timers, buffered, server>>

Open(s) ==
    /\ stage[s] = "connecting"
    /\ stage' = [stage EXCEPT ![s] = "open"]
    /\ IF owner = s
       THEN timers' = timers \cup {s} /\ terminalState' = "connecting"
       ELSE UNCHANGED <<timers, terminalState>>
    /\ UNCHANGED <<owner, terminalSocket, muted, ready, buffered, server>>

\* Faulty variant: a message of a stale session counts.
AnyMessage(s, hasMarker) ==
    /\ stage[s] = "open" /\ hasMarker
    /\ ready' = ready \cup {s}
    /\ timers' = timers \ {s}
    /\ terminalState' = "connected"
    /\ UNCHANGED <<stage, owner, terminalSocket, muted, buffered, server>>

\* Output of a stale session is dropped.  Output of the current one is written, or,
\* until the marker has come, appended to startupOutput, which may get too long.
Message(s, hasMarker) ==
    /\ stage[s] = "open" /\ owner = s /\ s \notin ready
    /\ buffered[s] <= Limit + 1   \* the bound of this model
    /\ LET length == buffered[s] + 1
       IN IF length > Limit
          THEN /\ buffered' = [buffered EXCEPT ![s] = length]
               /\ timers' = timers \ {s}
               /\ terminalState' = "unavailable"
               /\ stage' = [stage EXCEPT ![s] = AfterClose(s, 1011)]
               /\ UNCHANGED ready
          ELSE IF hasMarker
          THEN /\ buffered' = [buffered EXCEPT ![s] = 0]
               /\ ready' = ready \cup {s}
               /\ timers' = timers \ {s}
               /\ terminalState' = "connected"
               /\ UNCHANGED stage
          ELSE /\ buffered' = [buffered EXCEPT ![s] = length]
               /\ UNCHANGED <<stage, ready, timers, terminalState>>
    /\ UNCHANGED <<owner, terminalSocket, muted, server>>

\* The startup timer.
Timeout(s) ==
    /\ s \in timers
    /\ timers' = timers \ {s}
    /\ IF owner = s /\ s \notin ready
       THEN /\ terminalState' = "unavailable"
            /\ stage' = [stage EXCEPT ![s] = AfterClose(s, 1011)]
       ELSE UNCHANGED <<stage, terminalState>>
    /\ UNCHANGED <<owner, terminalSocket, muted, ready, buffered, server>>

\* The connection failed, the server closed it, or the close of the page is done.  The
\* browser runs onerror right before onclose; the state onerror sets is replaced by the
\* one onclose sets, and both leave a stale generation alone.
Closed(s) ==
    /\ stage[s] \in {"connecting", "open", "closing"}
    /\ stage' = [stage EXCEPT ![s] = "ended"]
    /\ IF s \notin muted /\ owner = s
       THEN /\ timers' = timers \ {s}
            /\ terminalSocket' = None
            /\ terminalState' = "idle"
       ELSE UNCHANGED <<timers, terminalSocket, terminalState>>
    /\ UNCHANGED <<owner, muted, ready, buffered, server>>

-----------------------------------------------------------------------------
(* Deleting a project *)

\* The allowlist of the server changes (modelled in ProjectInventory): a listing is
\* published, late or new, or a failed deletion puts its path back.
InventoryChanges ==
    \E paths \in SUBSET Projects :
        /\ allowed' = paths
        /\ gone' = gone \ paths
        /\ UNCHANGED <<stage, page, answers>>

\* The server takes the path off its allowlist and deletes the project; its answer will
\* come, unless the deletion fails.
ServerDeletes(p) ==
    /\ p \in allowed
    /\ allowed' = allowed \ {p}
    /\ answers' = answers \cup {p}
    /\ UNCHANGED <<stage, page, gone>>

\* Another deletion of the path may have its answer still to come.
Answered(p) == p \in answers /\ answers' \in {answers, answers \ {p}}

Told(p) == gone' = gone \cup ({p} \ allowed)

\* Faulty variants: the deletion is filed under the terminal's path; the terminal of
\* the project is left alone.
DeletedUnderTerminalPath(p) ==
    /\ Answered(p)
    /\ Told(IF owner = None THEN p ELSE Path[owner])
    /\ UNCHANGED <<stage, page, allowed>>

DeletedKeepingTerminal(p) ==
    /\ Answered(p)
    /\ Told(p)
    /\ UNCHANGED <<stage, page, allowed>>

\* deleteProject, after the server's answer.
Deleted(p) ==
    /\ Answered(p)
    /\ Told(p)
    /\ IF owner # None /\ Path[owner] = p
       THEN Stop(None, stage) /\ terminalState' = "idle"
       ELSE UNCHANGED <<stage, page>>
    /\ UNCHANGED allowed

-----------------------------------------------------------------------------
\* What a call does unless it waits for output that may never come.
Proceed(s) == \/ Grant(s) \/ Refuse(s) \/ PostGranted(s) \/ PostRefused(s)
              \/ Connect(s) \/ ReadFails(s) \/ Open(s)

Step(s) == \/ Proceed(s) \/ Schedule(s) \/ StartTerminal(s) \/ Timeout(s) \/ Closed(s)
           \/ \E hasMarker \in BOOLEAN : Message(s, hasMarker)

Next == \/ CloseTerminal \/ InventoryChanges
        \/ \E s \in Starts : Step(s)
        \/ \E p \in Projects : ServerDeletes(p) \/ Deleted(p)

\* The local server answers, callbacks run, and timers fire.
Spec == Init /\ [][Next]_vars
             /\ \A s \in Starts : WF_vars(Proceed(s)) /\ WF_vars(Timeout(s))

-----------------------------------------------------------------------------
(* Properties *)

\* "Connected" is shown only for the session the user started last, while its socket
\* is open and its marker has come, whatever late answers, events and timers of
\* earlier sessions do.
ConnectedIsReady ==
    terminalState = "connected" =>
        owner # None /\ owner \in ready /\ stage[owner] = "open"

\* Once the page was told of a deletion, and as long as the server has not listed the
\* path again, a terminal shown for the project is a call that the server refuses:
\* neither a call posted before the answer came nor one scheduled then gets a session.
ShownProjectExists ==
    owner # None /\ Path[owner] \in gone =>
        stage[owner] \in {"posting", "refused"}

\* A session that starts is decided: "a bounded buffer and timeout turn a missing
\* marker into a visible initialization error".
StartIsDecided == terminalState = "connecting" ~> terminalState # "connecting"

\* "Close ... terminates the local PTY and its SSH process": when no terminal is
\* shown, no socket is on its way to one.
CloseEndsSessions == owner = None => \A s \in Starts : ~Connected(s)
=============================================================================
