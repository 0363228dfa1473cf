---------------------------- MODULE DashboardProofs ----------------------------
(***************************************************************************)
(* Theorems about the compositions with the inventory: the dashboard's     *)
(* page over the server, and the handler, in which the inventory and the   *)
(* terminals share the allowlist.  What is proved of the inventory alone   *)
(* holds in both.                                                          *)
(***************************************************************************)
EXTENDS ProjectPage, Dashboard, ProjectInventoryProofs

-----------------------------------------------------------------------------
(* The page over the server *)

\* A step of the page is a step of the server's, or none: the page reaches the
\* server through the operations of the server only.  A call that is posted has a path.
LEMMA PageStep == PageTypeOK /\ PageNext => [Next]_vars
<1> SUFFICES ASSUME PageTypeOK, PageNext PROVE [Next]_vars
  OBVIOUS
<1> USE DEF Next, Snapshot, RunDelete, EndDelete
<1>1. CASE Tick
  BY <1>1 DEF Tick, Fetch
<1>2. CASE FetchFails \/ Render \/ TypeName \/ Cancel
  BY <1>2 DEF FetchFails, Render, TypeName, Cancel
<1>3. CASE OtherTab
  BY <1>3 DEF OtherTab
<1>4. CASE Unseen
  BY <1>4 DEF Unseen
<1>5. ASSUME NEW s \in Snapshots, Respond(s) PROVE [Next]_vars
  BY <1>5 DEF Respond
<1>6. ASSUME NEW p \in Paths, OpenDeleteProject(p) PROVE [Next]_vars
  BY <1>6 DEF OpenDeleteProject
<1>7. ASSUME NEW r \in Requests, Submit(r) \/ CallFails(r) PROVE [Next]_vars
  BY <1>7 DEF Submit, CallFails
<1>8. ASSUME NEW r \in Requests, Serve(r) PROVE [Next]_vars
  <2>1. call[r].path \in Paths
    BY <1>8 DEF Serve, PageTypeOK, Calls, Idle
  <2> QED
    BY <1>8, <2>1 DEF Serve
<1>9. ASSUME NEW r \in Requests, Answer(r) PROVE [Next]_vars
  BY <1>9 DEF Answer
<1>10. ASSUME NEW r \in Requests, Callback(r) PROVE [Next]_vars
  BY <1>10 DEF Callback, Deleted, Failed, Refresh, Fetch
<1> HIDE DEF Next, Snapshot, RunDelete, EndDelete
<1> QED
  BY <1>1, <1>2, <1>3, <1>4, <1>5, <1>6, <1>7, <1>8, <1>9, <1>10 DEF PageNext

\* The page's own variables keep their types; a call keeps the path it was made for.
LEMMA PageTypeStep ==
    PageTypeOK /\ TypeOK' /\ [PageNext]_allVars => PageTypeOK'
<1> SUFFICES ASSUME PageTypeOK, TypeOK', [PageNext]_allVars PROVE PageTypeOK'
  OBVIOUS
<1> USE DEF PageTypeOK, dialog, Loads, Awaiting, Arrived
<1>1. projects \in SUBSET Paths /\ projects' \in SUBSET Paths
  BY DEF TypeOK
<1>2. load.stage = "arrived" => load.list \in SUBSET Paths
  <2>1. CASE load = Idle
    BY <2>1 DEF Idle
  <2>2. ASSUME NEW s \in Snapshots, load = Awaiting(s)
        PROVE  load.stage # "arrived"
    BY <2>2
  <2>3. ASSUME NEW l \in SUBSET Paths, load = Arrived(l)
        PROVE  load.list \in SUBSET Paths
    BY <2>3
  <2> QED
    BY <2>1, <2>2, <2>3
<1>3. /\ Idle \in Loads /\ Idle \in Calls /\ Arrived({}) \in Loads /\ Arrived(projects') \in Loads
      /\ \A s \in Snapshots : Awaiting(s) \in Loads
  BY <1>1 DEF Idle, Calls
<1> HIDE DEF Loads, Awaiting, Arrived
<1>4. Fetch => load' \in Loads
  BY <1>2, <1>3 DEF Fetch
<1>5. Refresh => load' \in Loads
  BY <1>4 DEF Refresh
<1>6. ASSUME NEW r \in Requests, NEW stage \in {"serving", "deleted", "failed"},
             call[r].stage \in {"posted", "serving"}, Progress(r, stage)
      PROVE  PageTypeOK'
  <2>1. call[r] \in [stage : {"posted", "serving", "deleted", "failed"}, path : Paths]
    BY <1>6 DEF Calls, Idle
  <2>2. [call[r] EXCEPT !.stage = stage]
          \in [stage : {"posted", "serving", "deleted", "failed"}, path : Paths]
    BY <2>1, <1>6
  <2>3. call' = [call EXCEPT ![r] = [call[r] EXCEPT !.stage = stage]]
    BY <1>6 DEF Progress
  <2>4. call' \in [Requests -> Calls]
    BY <2>2, <2>3 DEF Calls
  <2> QED
    BY <2>4, <1>6 DEF Progress
<1>7. CASE Tick \/ FetchFails \/ Render
  BY <1>2, <1>3, <1>4, <1>7 DEF Tick, FetchFails, Render
<1>8. CASE TypeName \/ Cancel
  BY <1>8 DEF TypeName, Cancel, CloseDialog
<1>9. CASE OtherTab \/ Unseen
  BY <1>9 DEF OtherTab, Unseen, pageVars
<1>10. ASSUME NEW s \in Snapshots, Respond(s) PROVE PageTypeOK'
  BY <1>3, <1>10 DEF Respond
<1>11. ASSUME NEW p \in Paths, OpenDeleteProject(p) PROVE PageTypeOK'
  BY <1>11 DEF OpenDeleteProject
<1>12. ASSUME NEW r \in Requests, Submit(r) PROVE PageTypeOK'
  <2>1. [stage |-> "posted", path |-> pendingDeletion] \in Calls
    BY <1>12 DEF Submit, Calls
  <2> QED
    BY <1>12, <2>1 DEF Submit
<1>13. ASSUME NEW r \in Requests, Serve(r) \/ CallFails(r) PROVE PageTypeOK'
  BY <1>6, <1>13 DEF Serve, CallFails
<1>14. ASSUME NEW r \in Requests, Answer(r) PROVE PageTypeOK'
  BY <1>6, <1>14 DEF Answer, pageVars
<1>15. ASSUME NEW r \in Requests, Callback(r) PROVE PageTypeOK'
  BY <1>3, <1>5, <1>15 DEF Callback, Deleted, Failed, CloseDialog
<1>16. CASE UNCHANGED allVars
  BY <1>16 DEF allVars, pageVars
<1> QED
  BY <1>7, <1>8, <1>9, <1>10, <1>11, <1>12, <1>13, <1>14, <1>15, <1>16 DEF PageNext

\* What the server keeps, and the types of the page.
PageInv == InventoryInv /\ PageTypeOK

\* With the page, other tabs and lost answers the server keeps all that is proved of it
\* alone, and every variable of the page its type.
THEOREM PageInvariance == PageSpec => []PageInv
<1>1. PageInit => PageInv
  BY InventoryInit DEF PageInit, PageInv, PageTypeOK, Loads, Calls, InventoryInv
<1>2. PageInv /\ [PageNext]_allVars => PageInv'
  <2> SUFFICES ASSUME PageInv, [PageNext]_allVars PROVE PageInv'
    OBVIOUS
  <2>1. [Next]_vars
    BY PageStep DEF PageInv, allVars
  <2>2. InventoryInv'
    BY <2>1, InventoryStep DEF PageInv
  <2> QED
    BY <2>2, PageTypeStep DEF PageInv, InventoryInv
<1> QED
  BY <1>1, <1>2, PTL DEF PageSpec

\* Every variable of the server and the page keeps its type.
THEOREM PageTypeCorrect == PageSpec => []PageTypeOK
<1>1. PageInv => PageTypeOK
  BY DEF PageInv
<1> QED
  BY <1>1, PageInvariance, PTL

\* What the page does is what the server allows: the composition implements the
\* inventory's specification, as far as safety goes.
THEOREM PageImplementsInventory == PageSpec => Init /\ [][Next]_vars
<1>1. PageInit => Init
  BY DEF PageInit
<1>2. PageInv /\ [PageNext]_allVars => [Next]_vars
  BY PageStep DEF PageInv, allVars
<1> QED
  BY <1>1, <1>2, PageInvariance, PTL DEF PageSpec

-----------------------------------------------------------------------------
(* The handler: inventory and terminals *)

\* Steps of the terminals leave the inventory alone, and only createTerminal sets the
\* path of an authorization.
LEMMA TerminalsLeaveProjects ==
    Terminals!TerminalNext =>
        /\ UNCHANGED projects
        /\ UNCHANGED path \/ \E i \in Ids, p \in Paths \cup {Home} : Terminals!Create(i, p)
<1> USE DEF Terminals!TerminalNext
<1>1. ASSUME NEW i \in Ids, NEW p \in Paths \cup {Home}, Terminals!Create(i, p)
      PROVE  UNCHANGED projects
  BY <1>1 DEF Terminals!Create
<1>2. ASSUME Terminals!RefuseRequest \/ Terminals!CloseTerminals
      PROVE  UNCHANGED <<projects, path>>
  BY <1>2 DEF Terminals!RefuseRequest, Terminals!CloseTerminals
<1>3. ASSUME NEW i \in Ids, Terminals!Serve(i)
      PROVE  UNCHANGED <<projects, path>>
  BY <1>3
  DEF Terminals!Serve, Terminals!Upgrade, Terminals!StartTerminal, Terminals!Register,
      Terminals!ReadFails, Terminals!InputFails, Terminals!Drained, Terminals!Leave,
      Terminals!Release
<1>4. ASSUME NEW i \in Ids,
             \/ Terminals!Age(i) \/ Terminals!Attach(i) \/ Terminals!Receive(i)
             \/ Terminals!ReadRejected(i) \/ Terminals!InputTaken(i)
      PROVE  UNCHANGED <<projects, path>>
  BY <1>4
  DEF Terminals!Age, Terminals!Attach, Terminals!Receive, Terminals!ReadRejected,
      Terminals!InputTaken
<1>5. ASSUME NEW i \in Ids,
             \/ Terminals!OutputStep(i) \/ Terminals!OutputEnds(i)
             \/ Terminals!CloseCollected(i) \/ Terminals!PeerCloses(i)
             \/ Terminals!ShellExits(i)
      PROVE  UNCHANGED <<projects, path>>
  BY <1>5
  DEF Terminals!OutputStep, Terminals!OutputEnds, Terminals!CloseCollected,
      Terminals!PeerCloses, Terminals!ShellExits
<1> QED
  BY <1>1, <1>2, <1>3, <1>4, <1>5

\* A step of the handler is one of the inventory's, or none.
LEMMA InventorySide == [DashNext]_dashVars => [Next]_vars
<1>1. Next => [Next]_vars
  OBVIOUS
<1>2. Terminals!TerminalNext /\ UNCHANGED <<deleting, remote, snap, req, past>>
        => UNCHANGED vars
  BY TerminalsLeaveProjects DEF vars, server
<1>3. UNCHANGED dashVars => UNCHANGED vars
  BY DEF dashVars
<1> QED
  BY <1>1, <1>2, <1>3 DEF DashNext

\* Whatever terminals do, the handler keeps its lists as the inventory alone does.
THEOREM HandlerKeepsInventory == DashSpec => []InventoryInv
<1>1. DashInit => InventoryInv
  BY InventoryInit DEF DashInit
<1>2. InventoryInv /\ [DashNext]_dashVars => InventoryInv'
  BY InventorySide, InventoryStep
<1> QED
  BY <1>1, <1>2, PTL DEF DashSpec

\* The handler implements the inventory's specification, as far as safety goes.
THEOREM HandlerImplementsInventory == DashSpec => Init /\ [][Next]_vars
<1>1. DashInit => Init
  BY DEF DashInit
<1> QED
  BY <1>1, InventorySide, PTL DEF DashSpec

\* And that of the terminals: what TerminalServer lets happen to the list of projects
\* at any moment is all that snapshots and deletions do to it.
THEOREM HandlerImplementsTerminals ==
    DashSpec => Terminals!Init /\ [][Terminals!Next]_(Terminals!vars)
<1>1. DashInit => Terminals!Init
  BY DEF DashInit
<1>2. InventoryInv /\ InventoryInv' /\ [DashNext]_dashVars
        => [Terminals!Next]_(Terminals!vars)
  <2> SUFFICES ASSUME InventoryInv', [DashNext]_dashVars
               PROVE  [Terminals!Next]_(Terminals!vars)
    OBVIOUS
  <2>1. CASE UNCHANGED terminalVars
    <3>1. projects' \in SUBSET Paths
      BY DEF InventoryInv, TypeOK
    <3>2. Terminals!InventoryChanges
      BY <2>1, <3>1
      DEF terminalVars, Terminals!InventoryChanges, Terminals!local, Terminals!maps,
          Terminals!relay
    <3> QED
      BY <3>2 DEF Terminals!Next
  <2>2. CASE Terminals!TerminalNext
    BY <2>2 DEF Terminals!Next
  <2>3. UNCHANGED dashVars => UNCHANGED terminalVars
    BY DEF dashVars
  <2> QED
    BY <2>1, <2>2, <2>3 DEF DashNext
<1> QED
  BY <1>1, <1>2, HandlerKeepsInventory, PTL DEF DashSpec

-----------------------------------------------------------------------------
\* A project that is being deleted gets no terminal: its authorizations were handed
\* out before the deletion began, although createTerminal, snapshots and deletions
\* take handler.mutex for one part of their work at a time.
NoAuthorizationWhileDeleting ==
    [][\A i \in Ids : path'[i] # path[i] /\ path'[i] # Home => path'[i] \notin deleting]_dashVars

\* The type of the variable path.
PathInv == path \in [Ids -> Paths \cup {Home}]

\* Every authorization has a path.
LEMMA PathStep == PathInv /\ [DashNext]_dashVars => PathInv'
<1>1. Terminals!TerminalNext /\ PathInv => PathInv'
  <2>1. ASSUME NEW i \in Ids, NEW p \in Paths \cup {Home}, Terminals!Create(i, p), PathInv
        PROVE  PathInv'
    BY <2>1 DEF Terminals!Create, PathInv
  <2> QED
    BY <2>1, TerminalsLeaveProjects DEF PathInv
<1>2. UNCHANGED terminalVars /\ PathInv => PathInv'
  BY DEF terminalVars, PathInv
<1>3. UNCHANGED dashVars => UNCHANGED terminalVars
  BY DEF dashVars
<1> QED
  BY <1>1, <1>2, <1>3 DEF DashNext

\* createTerminal looks at the allowlist only, and the allowlist hides what is being
\* deleted, in every state of the handler.
THEOREM NoAuthorizationTheorem == DashSpec => NoAuthorizationWhileDeleting
<1>1. DashInit => PathInv
  BY DEF DashInit, Terminals!Init, PathInv
<1>2. InventoryInv /\ PathInv /\ [DashNext]_dashVars =>
        [\A i \in Ids : path'[i] # path[i] /\ path'[i] # Home
                          => path'[i] \notin deleting]_dashVars
  <2> SUFFICES ASSUME InventoryInv, PathInv, DashNext,
                      NEW i \in Ids, path'[i] # path[i], path'[i] # Home
               PROVE  path'[i] \notin deleting
    OBVIOUS
  <2>1. Terminals!TerminalNext
    BY DEF DashNext, terminalVars
  <2>2. PICK j \in Ids, p \in Paths \cup {Home} : Terminals!Create(j, p)
    BY <2>1, TerminalsLeaveProjects
  <2>3. path' = [path EXCEPT ![j] = p] /\ (p = Home \/ p \in projects)
    BY <2>2 DEF Terminals!Create
  <2>4. path'[i] \in projects
    BY <2>3 DEF PathInv
  <2> QED
    BY <2>4 DEF InventoryInv, HiddenWhileDeleting
<1> QED
  BY <1>1, <1>2, PathStep, HandlerKeepsInventory, PTL
  DEF DashSpec, NoAuthorizationWhileDeleting
=============================================================================
