------------------------ MODULE ProjectInventoryProofs ------------------------
(***************************************************************************)
(* Theorems about ProjectInventory for every set of paths, however they    *)
(* lie inside each other, and any number of requests at once.              *)
(***************************************************************************)
EXTENDS ProjectInventory, TLAPS

\* r has reserved p and not yet released it.
Reserves(r, p) == req[r].stage \in Reserving /\ req[r].path = p

\* ReservationIsExact, said of the requests one by one.
ReservationInv ==
    /\ \A p \in Paths : p \in deleting <=> \E r \in Requests : Reserves(r, p)
    /\ \A r, t \in Requests, p \in Paths : Reserves(r, p) /\ Reserves(t, p) => r = t

\* OnlyListedPaths, and what it needs of the snapshots that are under way: a listing
\* that is published late was reported by some inventory as well.
ListedInv ==
    /\ projects \cup orphans \cup deleting \subseteq listed
    /\ \A s \in Snapshots : snap[s].stage = "collected" => snap[s].listing \subseteq listed

InventoryInv == TypeOK /\ HiddenWhileDeleting /\ ReservationInv /\ ListedInv

-----------------------------------------------------------------------------
\* A request that holds a path keeps it when its stage changes.
LEMMA AdvanceKeepsPath ==
    ASSUME TypeOK, NEW r \in Requests, req[r].stage \in Reserving,
           NEW stage \in Reserving, Advance(r, stage)
    PROVE  /\ req' \in [Requests -> ReqStates]
           /\ \A t \in Requests, p \in Paths : Reserves(t, p)' <=> Reserves(t, p)
<1>1. /\ req \in [Requests -> ReqStates]
      /\ req' = [req EXCEPT ![r] = [req[r] EXCEPT !.stage = stage]]
  BY DEF TypeOK, Advance
<1>2. req[r] \in [stage : Reserving \cup {"opening"}, path : Paths]
  BY <1>1 DEF ReqStates, Idle, Reserving
<1>3. /\ [req[r] EXCEPT !.stage = stage] \in [stage : Reserving \cup {"opening"}, path : Paths]
      /\ [req[r] EXCEPT !.stage = stage].stage = stage
      /\ [req[r] EXCEPT !.stage = stage].path = req[r].path
  BY <1>2
<1>4. /\ \A t \in Requests \ {r} : req'[t] = req[t]
      /\ req'[r].stage = stage /\ req'[r].path = req[r].path
  BY <1>1, <1>3
<1>5. req' \in [Requests -> ReqStates]
  BY <1>1, <1>3 DEF ReqStates
<1> QED
  BY <1>4, <1>5 DEF Reserves

\* A stage of a deletion that touches neither list of the server.
LEMMA AdvanceStep ==
    ASSUME InventoryInv, NEW r \in Requests, req[r].stage \in Reserving,
           NEW stage \in Reserving, Advance(r, stage),
           disk' \in SUBSET Paths, orphans' \in SUBSET Paths, orphans' \subseteq listed,
           UNCHANGED <<server, snap, past>>
    PROVE  InventoryInv'
<1>1. TypeOK
  BY DEF InventoryInv
<1>2. /\ req' \in [Requests -> ReqStates]
      /\ \A t \in Requests, p \in Paths : Reserves(t, p)' <=> Reserves(t, p)
  BY <1>1, AdvanceKeepsPath
<1>3. TypeOK'
  BY <1>1, <1>2 DEF TypeOK, server, past
<1>4. ReservationInv'
  BY <1>2 DEF InventoryInv, ReservationInv, server
<1>5. HiddenWhileDeleting' /\ ListedInv'
  BY DEF InventoryInv, HiddenWhileDeleting, ListedInv, server, past
<1> QED
  BY <1>3, <1>4, <1>5 DEF InventoryInv

\* A step of a snapshot.
LEMMA SnapshotStep ==
    ASSUME InventoryInv, NEW s \in Snapshots, Snapshot(s)
    PROVE  InventoryInv'
<1> USE DEF InventoryInv, TypeOK, HiddenWhileDeleting, ReservationInv, ListedInv,
            Reserves, SnapStates, Idle, server, remote, past
<1>1. CASE BeginSnapshot(s)
  BY <1>1 DEF BeginSnapshot
<1>2. CASE Collect(s)
  BY <1>2 DEF Collect
<1>3. CASE CollectFails(s)
  BY <1>3 DEF CollectFails
<1>4. CASE Publish(s)
  BY <1>4 DEF Publish
<1> QED
  BY <1>1, <1>2, <1>3, <1>4 DEF Snapshot

\* A deletion reserves its path on the server.
LEMMA BeginDeleteStep ==
    ASSUME InventoryInv, NEW r \in Requests, NEW p \in Paths, BeginDelete(r, p)
    PROVE  InventoryInv'
<1> DEFINE held == [stage |-> "deleting", path |-> p]
<1>1. /\ req \in [Requests -> ReqStates] /\ req[r] = Idle
      /\ req' = [req EXCEPT ![r] = held]
  BY DEF BeginDelete, InventoryInv, TypeOK
<1>2. held \in ReqStates
  BY DEF ReqStates, Reserving
<1>3. /\ \A q \in Paths : ~Reserves(r, q)
      /\ \A q \in Paths : Reserves(r, q)' <=> q = p
      /\ \A t \in Requests \ {r}, q \in Paths : Reserves(t, q)' <=> Reserves(t, q)
  BY <1>1 DEF Reserves, Idle, Reserving
<1>4. TypeOK'
  BY <1>1, <1>2 DEF BeginDelete, InventoryInv, TypeOK, remote, past
<1>5. ReservationInv'
  BY <1>3 DEF BeginDelete, InventoryInv, ReservationInv
<1>6. HiddenWhileDeleting' /\ ListedInv'
  BY DEF BeginDelete, InventoryInv, HiddenWhileDeleting, ListedInv, remote, past
<1> QED
  BY <1>4, <1>5, <1>6 DEF InventoryInv

\* A deletion gives its path back, and may put the project on the list again.
LEMMA EndDeleteStep ==
    ASSUME InventoryInv, NEW r \in Requests, EndDelete(r)
    PROVE  InventoryInv'
<1> DEFINE p == req[r].path
<1>1. /\ req \in [Requests -> ReqStates] /\ req[r].stage \in {"deleted", "failed"}
      /\ req' = [req EXCEPT ![r] = Idle] /\ deleting' = deleting \ {p}
  BY DEF EndDelete, DeleteSucceeds, DeleteFails, InventoryInv, TypeOK
<1>2. p \in Paths /\ Reserves(r, p)
  BY <1>1 DEF ReqStates, Idle, Reserving, Reserves
<1>3. /\ \A q \in Paths : ~Reserves(r, q)'
      /\ \A q \in Paths \ {p} : ~Reserves(r, q)
      /\ \A t \in Requests \ {r}, q \in Paths : Reserves(t, q)' <=> Reserves(t, q)
  BY <1>1 DEF Reserves, Idle, Reserving
<1>4. p \in deleting
  BY <1>2 DEF InventoryInv, ReservationInv
<1>5. req' \in [Requests -> ReqStates]
  BY <1>1 DEF ReqStates
<1>6. TypeOK'
  BY <1>1, <1>2, <1>5
  DEF EndDelete, DeleteSucceeds, DeleteFails, InventoryInv, TypeOK, remote, past
<1>7. ReservationInv'
  BY <1>1, <1>2, <1>3 DEF InventoryInv, ReservationInv
<1>8. HiddenWhileDeleting' /\ ListedInv'
  BY <1>1, <1>4 DEF EndDelete, DeleteSucceeds, DeleteFails, InventoryInv,
                    HiddenWhileDeleting, ListedInv, remote, past
<1> QED
  BY <1>6, <1>7, <1>8 DEF InventoryInv

\* A step of a remote deletion that an answer will be given for.
LEMMA RemoteStep ==
    ASSUME InventoryInv, NEW r \in Requests, RunDelete(r)
    PROVE  InventoryInv'
<1> USE DEF Reserving, remote
<1>1. /\ disk \in SUBSET Paths /\ orphans \in SUBSET Paths
      /\ orphans \subseteq listed /\ req \in [Requests -> ReqStates]
  BY DEF InventoryInv, TypeOK, ListedInv
<1>2. CASE RemoteAccepts(r)
  BY <1>1, <1>2, AdvanceStep DEF RemoteAccepts
<1>3. CASE RemoteRefuses(r)
  BY <1>1, <1>3, AdvanceStep DEF RemoteRefuses
<1>4. CASE RemoteEnds(r)
  BY <1>1, <1>4, AdvanceStep DEF RemoteEnds
<1>5. CASE ConnectionFails(r)
  <2>1. req[r].stage \in Reserving /\ req[r].path \in Paths
    BY <1>1, <1>5 DEF ConnectionFails, ReqStates, Idle
  <2>2. req[r].path \in listed
    BY <2>1 DEF InventoryInv, ReservationInv, ListedInv, Reserves
  <2> QED
    BY <1>1, <1>5, <2>1, <2>2, AdvanceStep DEF ConnectionFails
<1> QED
  BY <1>2, <1>3, <1>4, <1>5 DEF RunDelete

\* The lists of the server and the reservations go together in every step.
LEMMA InventoryStep == InventoryInv /\ [Next]_vars => InventoryInv'
<1> SUFFICES ASSUME InventoryInv, [Next]_vars PROVE InventoryInv'
  OBVIOUS
<1>1. ASSUME NEW s \in Snapshots, Snapshot(s) PROVE InventoryInv'
  BY <1>1, SnapshotStep
<1>2. ASSUME NEW r \in Requests, RunDelete(r) PROVE InventoryInv'
  BY <1>2, RemoteStep
<1>3. ASSUME NEW r \in Requests, EndDelete(r) PROVE InventoryInv'
  BY <1>3, EndDeleteStep
<1>4. ASSUME NEW r \in Requests, NEW p \in Paths, BeginDelete(r, p) PROVE InventoryInv'
  BY <1>4, BeginDeleteStep
<1> USE DEF InventoryInv, TypeOK, HiddenWhileDeleting, ReservationInv, ListedInv,
            Reserves, server, remote, past
<1>5. ASSUME NEW r \in Requests, NEW p \in Paths, BeginOpen(r, p) PROVE InventoryInv'
  BY <1>5 DEF BeginOpen, ReqStates, Reserving, Idle
<1>6. ASSUME NEW r \in Requests, Open(r) PROVE InventoryInv'
  BY <1>6 DEF Open, ReqStates, Reserving, Idle
<1>7. ASSUME NEW r \in Requests, RemoteRemoves(r) PROVE InventoryInv'
  BY <1>7 DEF RemoteRemoves
<1>8. ASSUME NEW p \in Paths, OrphanRemoves(p) \/ OrphanEnds(p) PROVE InventoryInv'
  BY <1>8 DEF OrphanRemoves, OrphanEnds
<1>9. ASSUME NEW p \in Paths, UserClones(p) \/ UserRemoves(p) PROVE InventoryInv'
  BY <1>9 DEF UserClones, UserRemoves
<1>10. CASE UNCHANGED vars
  BY <1>10 DEF vars
<1> QED
  BY <1>1, <1>2, <1>3, <1>4, <1>5, <1>6, <1>7, <1>8, <1>9, <1>10 DEF Next

\* Nothing is listed or reserved at first.
LEMMA InventoryInit == Init => InventoryInv
  BY DEF Init, InventoryInv, TypeOK, HiddenWhileDeleting, ReservationInv, ListedInv,
         Reserves, SnapStates, ReqStates, Idle, Reserving

\* Lists, reservations and requests agree in every state of every behaviour.
THEOREM Invariance == Spec => []InventoryInv
  BY InventoryInit, InventoryStep, PTL DEF Spec

\* Every variable keeps its type.
THEOREM TypeCorrect == Spec => []TypeOK
<1>1. InventoryInv => TypeOK
  BY DEF InventoryInv
<1> QED
  BY <1>1, Invariance, PTL

-----------------------------------------------------------------------------
\* No project that is being deleted is on the list.
THEOREM HiddenWhileDeletingTheorem == Spec => []HiddenWhileDeleting
<1>1. InventoryInv => HiddenWhileDeleting
  BY DEF InventoryInv
<1> QED
  BY <1>1, Invariance, PTL

\* A path is reserved exactly while one request deletes it.
THEOREM ReservationIsExactTheorem == Spec => []ReservationIsExact
<1>1. InventoryInv => ReservationIsExact
  BY DEF InventoryInv, ReservationInv, ReservationIsExact, DeletionsOf, Reserves
<1> QED
  BY <1>1, Invariance, PTL

\* Only listed paths are on the allowlist, deleted, or left to an orphaned rm.
THEOREM OnlyListedPathsTheorem == Spec => []OnlyListedPaths
<1>1. InventoryInv => OnlyListedPaths
  BY DEF InventoryInv, ReservationInv, ListedInv, OnlyListedPaths, DeletionsOf, Reserves
<1> QED
  BY <1>1, Invariance, PTL
=============================================================================
