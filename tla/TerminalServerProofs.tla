------------------------ MODULE TerminalServerProofs ------------------------
(***************************************************************************)
(* Theorems about TerminalServer for every set of authorizations and every *)
(* value of the session limit.                                             *)
(***************************************************************************)
EXTENDS TerminalServer, FiniteSetTheorems, TLAPS

\* The handlers between the reservation of a slot and its release.
InSession ==
    {i \in Ids : pc[i] \in {"upgrading", "starting", "started", "reading",
                            "writing", "draining", "leaving", "releasing"}}

Relaying == {"reading", "writing", "draining", "leaving", "releasing"}

\* How the maps of the handler follow the stage of each socket's handler.
MapInv ==
    /\ \A i \in pending : pc[i] = "authorized"
    /\ \A i \in attached : pc[i] \in Relaying
    /\ \A i \in toClose : pc[i] \in Relaying \cup {"gone"}
    /\ closing => pending = {} /\ active = {} /\ attached = {}
    /\ ~closing => /\ toClose = {}
                   /\ active = InSession
                   /\ \A i \in InSession : pc[i] \in Relaying => i \in attached

\* How the PTY of an authorization follows the stage of its handler.
PTYInv ==
    \A i \in Ids :
        /\ pc[i] \in {"unused", "authorized", "upgrading", "starting"} =>
             starts[i] = 0 /\ pty[i] = "none"
        /\ starts[i] <= 1
        /\ pty[i] = "open" => pc[i] \in {"started", "reading", "writing", "leaving"}
        /\ closing /\ pty[i] = "open" => i \in toClose \/ pc[i] = "started"

\* The slots in use, counted by stage: what the limit is really about, since
\* CloseTerminals empties the maps while handlers are still at work.
CountInv ==
    /\ IsFiniteSet(pending \cup InSession)
    /\ Cardinality(pending \cup InSession) <= MaxSessions

TerminalInv == TypeOK /\ MapInv /\ PTYInv

USE TerminalAssumption DEF maps, relay, local, Goto, ClosePTY, CloseSocket, RemoveActive

-----------------------------------------------------------------------------
\* Every step keeps types, maps and PTYs in step with each other.
LEMMA TerminalStep == TerminalInv /\ [Next]_vars => TerminalInv'
<1> SUFFICES ASSUME TerminalInv, [Next]_vars PROVE TerminalInv'
  OBVIOUS
<1> USE DEF TerminalInv, TypeOK, MapInv, PTYInv, InSession, Relaying, Stages
<1>1. ASSUME NEW i \in Ids, NEW p \in Paths \cup {Home}, Create(i, p)
      PROVE  TerminalInv'
  BY <1>1 DEF Create, Live
<1>2. CASE RefuseRequest
  BY <1>2 DEF RefuseRequest, Live
<1>3. CASE CloseTerminals
  BY <1>3 DEF CloseTerminals
<1>4. ASSUME NEW i \in Ids, Age(i) PROVE TerminalInv'
  BY <1>4 DEF Age, Live
<1>5. ASSUME NEW i \in Ids, Attach(i) PROVE TerminalInv'
  BY <1>5 DEF Attach, Live
<1>6. ASSUME NEW i \in Ids, Serve(i) PROVE TerminalInv'
  <2>1. CASE Upgrade(i)
    BY <2>1 DEF Upgrade
  <2>2. CASE StartTerminal(i)
    BY <2>2 DEF StartTerminal
  <2>3. CASE Register(i)
    BY <2>3 DEF Register
  <2>4. CASE ReadFails(i)
    BY <2>4 DEF ReadFails
  <2>5. CASE InputFails(i) \/ Drained(i)
    BY <2>5 DEF InputFails, Drained
  <2>6. CASE Leave(i)
    BY <2>6 DEF Leave
  <2>7. CASE Release(i)
    BY <2>7 DEF Release
  <2> QED
    BY <1>6, <2>1, <2>2, <2>3, <2>4, <2>5, <2>6, <2>7 DEF Serve
<1>7. ASSUME NEW i \in Ids, Receive(i) \/ ReadRejected(i) \/ InputTaken(i)
      PROVE  TerminalInv'
  BY <1>7 DEF Receive, ReadRejected, InputTaken
<1>8. ASSUME NEW i \in Ids, OutputStep(i) \/ OutputEnds(i) PROVE TerminalInv'
  BY <1>8 DEF OutputStep, OutputEnds
<1>9. ASSUME NEW i \in Ids, CloseCollected(i) PROVE TerminalInv'
  BY <1>9 DEF CloseCollected
<1>10. ASSUME NEW i \in Ids, PeerCloses(i) \/ ShellExits(i) PROVE TerminalInv'
  BY <1>10 DEF PeerCloses, ShellExits
<1>11. CASE InventoryChanges
  BY <1>11 DEF InventoryChanges
<1>12. CASE UNCHANGED vars
  BY <1>12 DEF vars
<1> QED
  BY <1>1, <1>2, <1>3, <1>4, <1>5, <1>6, <1>7, <1>8, <1>9, <1>10, <1>11, <1>12
  DEF Next, TerminalNext

\* Types, maps and PTYs in every state of every behaviour.
THEOREM Invariance == Spec => []TerminalInv
<1>1. Init => TerminalInv
  <2> SUFFICES ASSUME Init PROVE TerminalInv
    OBVIOUS
  <2>1. InSession = {}
    BY DEF Init, InSession
  <2>2. TypeOK
    BY DEF Init, TypeOK, Stages
  <2>3. MapInv /\ PTYInv
    BY <2>1 DEF Init, MapInv, PTYInv
  <2> QED
    BY <2>2, <2>3 DEF TerminalInv
<1> QED
  BY <1>1, TerminalStep, PTL DEF Spec

\* Every variable keeps its type.
THEOREM TypeCorrect == Spec => []TypeOK
<1>1. TerminalInv => TypeOK
  BY DEF TerminalInv
<1> QED
  BY <1>1, Invariance, PTL

-----------------------------------------------------------------------------
\* An authorization starts one terminal at most.
THEOREM OneAttachmentTheorem == Spec => []OneAttachment
<1>1. TerminalInv => OneAttachment
  BY DEF TerminalInv, PTYInv, OneAttachment
<1> QED
  BY <1>1, Invariance, PTL

\* Every SSH child that runs while the dashboard serves holds a slot.
THEOREM RunningHoldsSlotTheorem == Spec => []RunningHoldsSlot
<1>1. TerminalInv => RunningHoldsSlot
  BY DEF TerminalInv, TypeOK, MapInv, PTYInv, InSession, RunningHoldsSlot, Running
<1> QED
  BY <1>1, Invariance, PTL

\* No slot is held by a handler that is gone.
THEOREM SlotsAreExactTheorem == Spec => []SlotsAreExact
<1>1. TerminalInv => SlotsAreExact
  BY DEF TerminalInv, TypeOK, MapInv, InSession, SlotsAreExact
<1> QED
  BY <1>1, Invariance, PTL

\* Shutdown overlooks no terminal, not even one that is being started.
THEOREM NothingForgottenTheorem == Spec => []NothingForgotten
<1>1. TerminalInv => NothingForgotten
  BY DEF TerminalInv, TypeOK, MapInv, PTYInv, NothingForgotten, Running
<1> QED
  BY <1>1, Invariance, PTL

-----------------------------------------------------------------------------
\* A set that does not grow keeps its bound.
LEMMA SmallerSet ==
    ASSUME NEW S, IsFiniteSet(S), NEW T, T \subseteq S, Cardinality(S) <= MaxSessions
    PROVE  IsFiniteSet(T) /\ Cardinality(T) <= MaxSessions
BY FS_Subset, FS_CardinalityType

\* Only Create adds an authorization or a session to the ones that count, and it
\* looks at the limit first; every other step keeps or shrinks that set.
LEMMA CountStep == TerminalInv /\ CountInv /\ [Next]_vars => CountInv'
<1> SUFFICES ASSUME TerminalInv, CountInv, [Next]_vars PROVE CountInv'
  OBVIOUS
<1> DEFINE Counted == pending \cup InSession
<1> USE DEF TerminalInv
<1>1. ASSUME NEW i \in Ids, NEW p \in Paths \cup {Home}, Create(i, p)
      PROVE  CountInv'
  <2>1. active = InSession /\ Live \cap active = {} /\ Live \subseteq pending
    BY <1>1 DEF Create, MapInv, Live, InSession
  <2>2. IsFiniteSet(Live) /\ IsFiniteSet(active)
    BY <2>1, FS_Subset DEF CountInv
  <2>3. Cardinality(Live \cup active) = Cardinality(Live) + Cardinality(active)
    <3>1. Cardinality(Live \cap active) = 0
      BY <2>1, FS_EmptySet
    <3>2. /\ Cardinality(Live) \in Nat /\ Cardinality(active) \in Nat
          /\ Cardinality(Live \cup active) =
               Cardinality(Live) + Cardinality(active) - Cardinality(Live \cap active)
      BY <2>2, FS_Union, FS_CardinalityType
    <3> QED
      BY <3>1, <3>2
  <2> DEFINE Used == Live \cup active
  <2>4. IsFiniteSet(Used) /\ Cardinality(Used) \in Nat /\ Cardinality(Used) < MaxSessions
    <3>1. IsFiniteSet(Used)
      BY <2>2, FS_Union
    <3>2. Cardinality(Used) \in Nat
      BY <3>1, FS_CardinalityType
    <3>3. ~(Cardinality(Live) + Cardinality(active) >= MaxSessions)
      BY <1>1 DEF Create, Full
    <3>4. ~(Cardinality(Used) >= MaxSessions)
      BY <2>3, <3>3
    <3> QED
      BY <3>1, <3>2, <3>4
  <2>5. Counted' = Used \cup {i}
    <3>1. InSession' = InSession
      BY <1>1 DEF Create, InSession, TypeOK
    <3> QED
      BY <1>1, <2>1, <3>1 DEF Create
  <2>6. /\ IsFiniteSet(Used \cup {i})
        /\ \/ Cardinality(Used \cup {i}) = Cardinality(Used)
           \/ Cardinality(Used \cup {i}) = Cardinality(Used) + 1
    BY <2>4, FS_AddElement, Zenon
  <2>7. Cardinality(Used \cup {i}) <= MaxSessions
    BY <2>4, <2>6
  <2> QED
    BY <2>5, <2>6, <2>7 DEF CountInv
<1>2. CASE Counted' \subseteq Counted
  BY <1>2, SmallerSet DEF CountInv
<1>3. CASE RefuseRequest \/ CloseTerminals \/ InventoryChanges \/ UNCHANGED vars
  BY <1>2, <1>3
  DEF RefuseRequest, Live, CloseTerminals, InventoryChanges, vars, InSession
<1>4. ASSUME NEW i \in Ids, Attach(i) PROVE CountInv'
  BY <1>2, <1>4 DEF Attach, Live, InSession, TypeOK
<1>5. ASSUME NEW i \in Ids, Serve(i) PROVE CountInv'
  BY <1>2, <1>5
  DEF Serve, Upgrade, StartTerminal, Register, ReadFails, InputFails, Drained,
      Leave, Release, InSession, TypeOK
<1>6. ASSUME NEW i \in Ids,
             \/ Age(i) \/ Receive(i) \/ ReadRejected(i) \/ InputTaken(i)
             \/ OutputStep(i) \/ OutputEnds(i) \/ CloseCollected(i) \/ PeerCloses(i) \/ ShellExits(i)
      PROVE  CountInv'
  BY <1>2, <1>6
  DEF Age, Receive, ReadRejected, InputTaken, OutputStep, OutputEnds, CloseCollected,
      PeerCloses, ShellExits, InSession, TypeOK
<1> QED
  BY <1>1, <1>3, <1>4, <1>5, <1>6 DEF Next, TerminalNext

\* No more SSH children than MaxSessions run, whatever overlaps with whatever.
THEOREM SessionLimitTheorem == Spec => []SessionLimit
<1>1. Init => CountInv
  <2> SUFFICES ASSUME Init PROVE CountInv
    OBVIOUS
  <2>1. pending \cup InSession = {}
    BY DEF Init, InSession
  <2> QED
    BY <2>1, FS_EmptySet DEF CountInv
<1>2. TerminalInv /\ CountInv => SessionLimit
  <2> SUFFICES ASSUME TerminalInv, CountInv PROVE SessionLimit
    OBVIOUS
  <2>1. pending \cup Running \subseteq pending \cup InSession
    BY DEF TerminalInv, PTYInv, Running, InSession
  <2> QED
    BY <2>1, SmallerSet DEF CountInv, SessionLimit
<1> QED
  BY <1>1, <1>2, CountStep, Invariance, PTL DEF Spec
=============================================================================
