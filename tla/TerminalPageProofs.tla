-------------------------- MODULE TerminalPageProofs --------------------------
(***************************************************************************)
(* Theorems about TerminalPage for any number of calls of startTerminal,   *)
(* whatever their projects and however their callbacks are ordered.        *)
(***************************************************************************)
EXTENDS TerminalPage, TLAPS

\* Stages of a call that has, or had, a socket.
HasSocket(s) == stage[s] \in {"connecting", "open", "closing", "ended"}

\* The socket the page remembers, and those whose close handler it took away, are real
\* ones; the current call keeps its close handler.
SocketInv ==
    /\ terminalSocket # None => HasSocket(terminalSocket)
    /\ \A s \in muted : HasSocket(s)
    /\ owner \notin muted

\* The server grants no path whose deletion counts.
DeletionInv == gone \cap allowed = {}

PageInv == TypeOK /\ SocketInv /\ DeletionInv /\ ConnectedIsReady /\ ShownProjectExists

USE PageAssumption DEF page, server, AfterClose, Connected, CodeAccepted

-----------------------------------------------------------------------------
\* stopTerminal, for a call that has no socket yet or for none, with the stages of the
\* other calls kept but for one that has failed.
LEMMA StopStep ==
    ASSUME PageInv, NEW next \in Starts \cup {None}, NEW stages \in [Starts -> Stages],
           Stop(next, stages), next # None => stages[next] = "posting",
           \A s \in Starts : HasSocket(s) => stages[s] = stage[s] \/ stages[s] = "ended",
           \A s \in Starts : HasSocket(s) => s # next,
           terminalState' \in {"idle", "connecting"},
           allowed' \in SUBSET Projects, answers' \in SUBSET Projects,
           gone' \in SUBSET Projects, gone' \cap allowed' = {}
    PROVE  PageInv'
<1> USE DEF PageInv, TypeOK, SocketInv, Stop, HasSocket
<1>1. TypeOK'
  BY DEF Stages
<1>2. SocketInv'
  BY DEF Stages
<1>3. owner' = next /\ (next # None => stage'[next] = "posting")
  OBVIOUS
<1> QED
  BY <1>1, <1>2, <1>3 DEF DeletionInv, ConnectedIsReady, ShownProjectExists

\* Every step keeps the invariant.
LEMMA PageStep == PageInv /\ [Next]_vars => PageInv'
<1> SUFFICES ASSUME PageInv, [Next]_vars PROVE PageInv'
  OBVIOUS
<1>1. /\ stage \in [Starts -> Stages]
      /\ allowed \in SUBSET Projects /\ answers \in SUBSET Projects
      /\ gone \in SUBSET Projects /\ gone \cap allowed = {}
  BY DEF PageInv, TypeOK, DeletionInv
<1>2. CASE CloseTerminal
  BY <1>1, <1>2, StopStep DEF CloseTerminal, HasSocket
<1>3. ASSUME NEW s \in Starts, StartTerminal(s) PROVE PageInv'
  <2> DEFINE stages == [stage EXCEPT ![s] = "posting"]
  <2>1. stages \in [Starts -> Stages] /\ stages[s] = "posting"
    BY <1>1 DEF Stages
  <2>2. ~HasSocket(s) /\ \A t \in Starts \ {s} : stages[t] = stage[t]
    BY <1>1, <1>3 DEF StartTerminal, HasSocket
  <2> HIDE DEF stages
  <2> QED
    BY <1>1, <1>3, <2>1, <2>2, StopStep DEF StartTerminal, stages
<1>4. ASSUME NEW s \in Starts, stage[s] \in {"refused", "reading"}, Catch(s)
      PROVE  PageInv'
  <2> DEFINE stages == [stage EXCEPT ![s] = "ended"]
  <2>1. stages \in [Starts -> Stages] /\ \A t \in Starts \ {s} : stages[t] = stage[t]
    BY <1>1 DEF Stages
  <2>2. ~HasSocket(s) /\ stages[s] = "ended"
    BY <1>1, <1>4 DEF HasSocket
  <2>3. CASE owner = s
    <3> HIDE DEF stages
    <3> QED
      BY <1>1, <1>4, <2>1, <2>2, <2>3, StopStep DEF Catch, stages
  <2>4. CASE owner # s
    BY <1>1, <1>4, <2>1, <2>2, <2>4
    DEF Catch, PageInv, TypeOK, SocketInv, DeletionInv, ConnectedIsReady,
        ShownProjectExists, HasSocket
  <2> QED
    BY <2>3, <2>4
<1>5. ASSUME NEW p \in Projects, Deleted(p) PROVE PageInv'
  <2>1. /\ gone' \in SUBSET Projects /\ gone' \cap allowed' = {}
        /\ allowed' \in SUBSET Projects /\ answers' \in SUBSET Projects
    BY <1>1, <1>5 DEF Deleted, Told, Answered
  <2>2. CASE owner # None /\ Path[owner] = p
    BY <1>1, <1>5, <2>1, <2>2, StopStep DEF Deleted, HasSocket
  <2>3. CASE ~(owner # None /\ Path[owner] = p)
    BY <1>1, <1>5, <2>1, <2>3
    DEF Deleted, Told, PageInv, TypeOK, SocketInv, DeletionInv, ConnectedIsReady,
        ShownProjectExists, HasSocket
  <2> QED
    BY <2>2, <2>3
<1> USE DEF PageInv, TypeOK, SocketInv, DeletionInv, ConnectedIsReady,
            ShownProjectExists, HasSocket, Stages
<1>6. ASSUME NEW s \in Starts, Schedule(s) PROVE PageInv'
  BY <1>6 DEF Schedule
<1>7. ASSUME NEW s \in Starts, Grant(s) \/ Refuse(s) \/ PostGranted(s) PROVE PageInv'
  <2>1. CASE Grant(s)
    <3>1. Path[s] \notin gone
      BY <1>1, <2>1 DEF Grant, Projects
    <3> QED
      BY <2>1, <3>1 DEF Grant
  <2>2. CASE Refuse(s) \/ PostGranted(s)
    BY <2>2 DEF Refuse, PostGranted
  <2> QED
    BY <1>7, <2>1, <2>2
<1>8. ASSUME NEW s \in Starts, Connect(s) PROVE PageInv'
  BY <1>8 DEF Connect
<1>9. ASSUME NEW s \in Starts, Open(s) PROVE PageInv'
  BY <1>9 DEF Open
<1>10. ASSUME NEW s \in Starts, NEW hasMarker \in BOOLEAN, Message(s, hasMarker)
       PROVE  PageInv'
  BY <1>10 DEF Message
<1>11. ASSUME NEW s \in Starts, Timeout(s) PROVE PageInv'
  BY <1>11 DEF Timeout
<1>12. ASSUME NEW s \in Starts, Closed(s) PROVE PageInv'
  BY <1>12 DEF Closed
<1>13. ASSUME NEW p \in Projects, ServerDeletes(p) PROVE PageInv'
  BY <1>13 DEF ServerDeletes
<1>14. CASE InventoryChanges
  BY <1>14 DEF InventoryChanges
<1>15. CASE UNCHANGED vars
  BY <1>15 DEF vars
<1> QED
  BY <1>2, <1>3, <1>4, <1>5, <1>6, <1>7, <1>8, <1>9, <1>10, <1>11, <1>12, <1>13, <1>14, <1>15
  DEF Next, Step, Proceed, PostRefused, ReadFails

\* The invariant in every state of every behaviour.
THEOREM Invariance == Spec => []PageInv
<1>1. Init => PageInv
  BY DEF Init, PageInv, TypeOK, SocketInv, DeletionInv, ConnectedIsReady,
         ShownProjectExists, HasSocket, Stages
<1> QED
  BY <1>1, PageStep, PTL DEF Spec

\* Every variable keeps its type.
THEOREM TypeCorrect == Spec => []TypeOK
<1>1. PageInv => TypeOK
  BY DEF PageInv
<1> QED
  BY <1>1, Invariance, PTL

\* "Connected" is shown for the current session only, once its marker has come.
THEOREM ConnectedIsReadyTheorem == Spec => []ConnectedIsReady
<1>1. PageInv => ConnectedIsReady
  BY DEF PageInv
<1> QED
  BY <1>1, Invariance, PTL

\* Once the page was told of a deletion, and until the server lists the path again, the
\* terminal shown for the project has no session and is granted none.
THEOREM ShownProjectTheorem == Spec => []ShownProjectExists
<1>1. PageInv => ShownProjectExists
  BY DEF PageInv
<1> QED
  BY <1>1, Invariance, PTL
=============================================================================
