--------------------------- MODULE ProjectInventory ---------------------------
(***************************************************************************)
(* The dashboard's allowlist of projects: the snapshot requests that       *)
(* replace it, the deletions that reserve, remove and restore its entries, *)
(* and the checkouts on the WSL machine that both are about                *)
(* (src/internal/dashboard/server.go, collector.go and project_delete.go). *)
(*                                                                         *)
(* Collect and DeleteProject run ssh without holding handler.mutex, so any *)
(* number of snapshots and deletions overlap.  A project is its path; the  *)
(* typed name that confirms a deletion is the right one.  A checkout may   *)
(* lie inside another one; the inventory lists both.                       *)
(***************************************************************************)
EXTENDS Naturals

CONSTANTS Paths,      \* project paths below the remote home
          Inside,     \* the project paths below each project path
          Snapshots,  \* snapshot requests that may overlap
          Requests    \* delete and open requests that may overlap

ASSUME InventoryAssumption == Inside \in [Paths -> SUBSET Paths]

VARIABLES
    disk,       \* the checkouts that exist on the WSL machine
    orphans,    \* paths a remote rm still works on after its ssh client is gone
    projects,   \* handler.projects
    deleting,   \* handler.deletingProjects
    snap,       \* stage and result of each snapshot request
    req,        \* stage and path of each delete or open request
    listed,     \* history: paths some inventory reported
    removed     \* history: deleted successfully and not created again since

server == <<projects, deleting>>
remote == <<disk, orphans>>
past   == <<listed, removed>>
vars   == <<server, remote, snap, req, past>>

-----------------------------------------------------------------------------
Idle == [stage |-> "idle"]

SnapStates == {Idle} \cup [stage : {"collecting"}]
                     \cup [stage : {"collected"}, listing : SUBSET Paths]

Reserving == {"deleting", "removing", "deleted", "failed"}

ReqStates == {Idle} \cup [stage : Reserving \cup {"opening"}, path : Paths]

\* Requests between reserving a path and releasing it.
DeletionsOf(p) == {r \in Requests : req[r].stage \in Reserving /\ req[r].path = p}

\* What rm -rf removes with p.
Tree(p) == {p} \cup Inside[p]

TypeOK ==
    /\ disk \in SUBSET Paths /\ orphans \in SUBSET Paths
    /\ projects \in SUBSET Paths /\ deleting \in SUBSET Paths
    /\ snap \in [Snapshots -> SnapStates]
    /\ req \in [Requests -> ReqStates]
    /\ listed \in SUBSET Paths /\ removed \in SUBSET Paths

Init ==
    /\ disk \in SUBSET Paths /\ orphans = {}
    /\ projects = {} /\ deleting = {}
    /\ snap = [s \in Snapshots |-> Idle]
    /\ req = [r \in Requests |-> Idle]
    /\ listed = {} /\ removed = {}

-----------------------------------------------------------------------------
(* serveSnapshot *)

BeginSnapshot(s) ==
    /\ snap[s] = Idle
    /\ snap' = [snap EXCEPT ![s] = [stage |-> "collecting"]]
    /\ UNCHANGED <<server, remote, req, past>>

\* The remote script lists the checkouts.
Collect(s) ==
    /\ snap[s].stage = "collecting"
    /\ snap' = [snap EXCEPT ![s] = [stage |-> "collected", listing |-> disk]]
    /\ listed' = listed \cup disk
    /\ UNCHANGED <<server, remote, req, removed>>

\* ssh fails or times out: an "unavailable" snapshot with no projects.
CollectFails(s) ==
    /\ snap[s].stage = "collecting"
    /\ snap' = [snap EXCEPT ![s] = [stage |-> "collected", listing |-> {}]]
    /\ UNCHANGED <<server, remote, req, past>>

\* Faulty variant: what is being deleted is published as well.
PublishEverything(s) ==
    /\ snap[s].stage = "collected"
    /\ projects' = snap[s].listing
    /\ snap' = [snap EXCEPT ![s] = Idle]
    /\ UNCHANGED <<deleting, remote, req, past>>

\* Faulty variant: the list only grows.
PublishAdding(s) ==
    /\ snap[s].stage = "collected"
    /\ projects' = (projects \cup snap[s].listing) \ deleting
    /\ snap' = [snap EXCEPT ![s] = Idle]
    /\ UNCHANGED <<deleting, remote, req, past>>

\* The allowlist becomes what this snapshot lists, less what is being deleted.
Publish(s) ==
    /\ snap[s].stage = "collected"
    /\ projects' = snap[s].listing \ deleting
    /\ snap' = [snap EXCEPT ![s] = Idle]
    /\ UNCHANGED <<deleting, remote, req, past>>

-----------------------------------------------------------------------------
(* deleteProject and DeleteProject *)

\* Faulty variant: the path of the request is taken as it comes.
BeginDeleteAnyPath(r, p) ==
    /\ req[r] = Idle
    /\ p \notin deleting
    /\ deleting' = deleting \cup {p}
    /\ projects' = projects \ {p}
    /\ req' = [req EXCEPT ![r] = [stage |-> "deleting", path |-> p]]
    /\ UNCHANGED <<remote, snap, past>>

BeginDelete(r, p) ==
    /\ req[r] = Idle
    /\ p \notin deleting /\ p \in projects
    /\ deleting' = deleting \cup {p}
    /\ projects' = projects \ {p}
    /\ req' = [req EXCEPT ![r] = [stage |-> "deleting", path |-> p]]
    /\ UNCHANGED <<remote, snap, past>>

Advance(r, stage) == req' = [req EXCEPT ![r].stage = stage]

\* The script's checks: the path is a checkout below the home, and no mount point.
RemoteAccepts(r) ==
    /\ req[r].stage = "deleting" /\ req[r].path \in disk
    /\ Advance(r, "removing")
    /\ UNCHANGED <<remote, server, snap, past>>

RemoteRefuses(r) ==
    /\ req[r].stage = "deleting"
    /\ Advance(r, "failed")
    /\ UNCHANGED <<remote, server, snap, past>>

\* rm -rf takes one directory after the other.
RemoteRemoves(r) ==
    /\ req[r].stage = "removing"
    /\ \E q \in Tree(req[r].path) \cap disk : disk' = disk \ {q}
    /\ UNCHANGED <<orphans, server, snap, req, past>>

\* The script ends; it looks once more whether the directory is there.  Something
\* in it may have resisted, or be new.
RemoteEnds(r) ==
    /\ req[r].stage = "removing"
    /\ \/ Tree(req[r].path) \cap disk = {} /\ Advance(r, "deleted")
       \/ Advance(r, "failed")
    /\ UNCHANGED <<remote, server, snap, past>>

\* ssh is cut off or killed after five minutes.  The remote script does not die
\* with it: it has ended already, or goes on alone.
ConnectionFails(r) ==
    /\ \/ req[r].stage = "deleting" /\ req[r].path \in disk
       \/ req[r].stage = "removing"
    /\ orphans' \in {orphans, orphans \cup {req[r].path}}
    /\ Advance(r, "failed")
    /\ UNCHANGED <<disk, server, snap, past>>

OrphanRemoves(p) ==
    /\ p \in orphans
    /\ \E q \in Tree(p) \cap disk : disk' = disk \ {q}
    /\ UNCHANGED <<orphans, server, snap, req, past>>

OrphanEnds(p) ==
    /\ p \in orphans
    /\ orphans' = orphans \ {p}
    /\ UNCHANGED <<disk, server, snap, req, past>>

\* Faulty variants: a reservation is not released, and a failed deletion files the
\* project under its record instead of its path.
DeleteSucceedsKeepingReservation(r) ==
    /\ req[r].stage = "deleted"
    /\ removed' = removed \cup ({req[r].path} \ disk)
    /\ req' = [req EXCEPT ![r] = Idle]
    /\ UNCHANGED <<server, remote, snap, listed>>

DeleteFailsRestoringRecord(r) ==
    /\ req[r].stage = "failed"
    /\ deleting' = deleting \ {req[r].path}
    /\ projects' = projects \cup {req[r]}
    /\ req' = [req EXCEPT ![r] = Idle]
    /\ UNCHANGED <<remote, snap, past>>

\* The two ways deleteProject ends.
DeleteSucceeds(r) ==
    /\ req[r].stage = "deleted"
    /\ deleting' = deleting \ {req[r].path}
    /\ removed' = removed \cup ({req[r].path} \ disk)
    /\ req' = [req EXCEPT ![r] = Idle]
    /\ UNCHANGED <<projects, remote, snap, listed>>

DeleteFails(r) ==
    /\ req[r].stage = "failed"
    /\ deleting' = deleting \ {req[r].path}
    /\ projects' = projects \cup {req[r].path}
    /\ req' = [req EXCEPT ![r] = Idle]
    /\ UNCHANGED <<remote, snap, past>>

-----------------------------------------------------------------------------
(* openProject: the check and the launch are separate *)

BeginOpen(r, p) ==
    /\ req[r] = Idle /\ p \in projects
    /\ req' = [req EXCEPT ![r] = [stage |-> "opening", path |-> p]]
    /\ UNCHANGED <<server, remote, snap, past>>

Open(r) ==
    /\ req[r].stage = "opening"
    /\ req' = [req EXCEPT ![r] = Idle]
    /\ UNCHANGED <<server, remote, snap, past>>

-----------------------------------------------------------------------------
\* The WSL user clones a repository, or removes one by hand.
UserClones(p) ==
    /\ p \notin disk
    /\ disk' = disk \cup {p}
    /\ removed' = removed \ {p}
    /\ UNCHANGED <<orphans, server, snap, req, listed>>

UserRemoves(p) ==
    /\ p \in disk
    /\ disk' = disk \ {p}
    /\ UNCHANGED <<orphans, server, snap, req, past>>

Snapshot(s) == BeginSnapshot(s) \/ Collect(s) \/ CollectFails(s) \/ Publish(s)

\* The remote side of a deletion gets on; it may fail in between.
RunDelete(r) == RemoteAccepts(r) \/ RemoteRefuses(r) \/ RemoteEnds(r) \/ ConnectionFails(r)

EndDelete(r) == DeleteSucceeds(r) \/ DeleteFails(r)

Next ==
    \/ \E s \in Snapshots : Snapshot(s)
    \/ \E r \in Requests : RunDelete(r) \/ RemoteRemoves(r) \/ EndDelete(r) \/ Open(r)
    \/ \E r \in Requests, p \in Paths : BeginDelete(r, p) \/ BeginOpen(r, p)
    \/ \E p \in Paths : OrphanRemoves(p) \/ OrphanEnds(p) \/ UserClones(p) \/ UserRemoves(p)

\* The page keeps asking for snapshots, and Collect and DeleteProject have
\* deadlines.  Nothing is assumed of the user, nor of which way ssh ends.
Fairness ==
    /\ \A s \in Snapshots : WF_vars(Snapshot(s))
    /\ \A r \in Requests : WF_vars(RunDelete(r)) /\ WF_vars(EndDelete(r))

Spec == Init /\ [][Next]_vars /\ Fairness

-----------------------------------------------------------------------------
(* Properties *)

\* A project that is being deleted can be neither opened nor deleted again, even
\* when a snapshot that still lists it is published meanwhile ("removes the path
\* from its action allowlist while deletion is in progress").
HiddenWhileDeleting == deleting \cap projects = {}

\* A path is reserved exactly while one request deletes it: two deletions never
\* run on one path, and no reservation outlives its request, which would hide the
\* project until the dashboard restarts.
ReservationIsExact ==
    \A p \in Paths : /\ p \in deleting <=> DeletionsOf(p) # {}
                     /\ \A r, t \in DeletionsOf(p) : r = t

\* Only a path that some inventory listed is ever handed to a remote rm, and only
\* such a path is on the allowlist, however deletions fail and restore entries.
OnlyListedPaths ==
    /\ projects \cup orphans \subseteq listed
    /\ \A p \in Paths : DeletionsOf(p) # {} => p \in listed

\* "Successful deletions remove it immediately": a project that was deleted is
\* not on the allowlist again unless somebody created it again.
DeletedStaysDeleted == removed \cap projects = {}

\* A checkout that is gone for good leaves the allowlist for good, also one that
\* was removed with the project around it, or that a failed deletion restored, as
\* soon as nobody tries to delete it any more: snapshots replace the list, they do
\* not add to it.
GoneIsForgotten ==
    \A p \in Paths : <>[](p \notin disk \cup deleting) => <>[](p \notin projects)
=============================================================================
