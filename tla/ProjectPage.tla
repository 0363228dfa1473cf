------------------------------ MODULE ProjectPage ------------------------------
(***************************************************************************)
(* The list of projects in the browser, its refresh and the delete dialog  *)
(* (src/internal/dashboard/assets/app.js), over the inventory of the       *)
(* server.  An answer of the server reaches the page later than the server *)
(* gave it, and the page handles one callback at a time.                   *)
(*                                                                         *)
(* Snapshots and Requests are the HTTP requests that may be in service at  *)
(* once: this page's and those of another tab.  The dialog does not make   *)
(* the cards behind it inert, so a project can be chosen while the dialog  *)
(* of another one is shown.                                                *)
(***************************************************************************)
EXTENDS ProjectInventory

CONSTANT NoProject   \* no dialog is shown

ASSUME PageAssumption == NoProject \notin Paths

VARIABLES
    cards,     \* state.snapshot.projects
    load,      \* the refresh in flight; state.loading is load # Idle
    pendingDeletion, \* state.pendingDeletion
    typed,     \* the dialog's input holds the name of the pending project
    busy,      \* state.deletingProject
    call       \* this page's calls of deleteProject that wait for an answer

dialog   == <<pendingDeletion, typed, busy>>
pageVars == <<cards, load, dialog, call>>

-----------------------------------------------------------------------------
Awaiting(s)   == [stage |-> "awaiting", of |-> s]
Arrived(list) == [stage |-> "arrived", list |-> list]

Loads == {Idle} \cup {Awaiting(s) : s \in Snapshots} \cup {Arrived(l) : l \in SUBSET Paths}
Calls == {Idle} \cup [stage : {"posted", "serving", "deleted", "failed"}, path : Paths]

PageTypeOK ==
    /\ TypeOK
    /\ cards \in SUBSET Paths
    /\ load \in Loads
    /\ pendingDeletion \in Paths \cup {NoProject}
    /\ typed \in BOOLEAN /\ busy \in BOOLEAN
    /\ call \in [Requests -> Calls]

PageInit ==
    /\ Init
    /\ cards = {} /\ load = Idle
    /\ pendingDeletion = NoProject /\ typed = FALSE /\ busy = FALSE
    /\ call = [r \in Requests |-> Idle]

-----------------------------------------------------------------------------
(* refresh *)

\* The request reaches the server, or fails at once.
Fetch ==
    /\ load = Idle
    /\ \/ \E s \in Snapshots : BeginSnapshot(s) /\ load' = Awaiting(s)
       \/ load' = Arrived({}) /\ UNCHANGED vars

\* A refresh while another one is in flight is dropped.
Refresh == Fetch \/ (load # Idle /\ UNCHANGED <<load, vars>>)

\* The timer, the page becoming visible, the navigation, a refresh button.
Tick == Fetch /\ UNCHANGED <<cards, dialog, call>>

\* Faulty variant: the response is the collector's record, not its list.
RespondRecord(s) ==
    /\ Publish(s)
    /\ load' = IF load = Awaiting(s) THEN snap[s] ELSE load
    /\ UNCHANGED <<cards, dialog, call>>

\* The response holds what the server just published.
Respond(s) ==
    /\ Publish(s)
    /\ load' = IF load = Awaiting(s) THEN Arrived(projects') ELSE load
    /\ UNCHANGED <<cards, dialog, call>>

\* The browser loses the answer; the server does not notice.
FetchFails ==
    /\ load.stage = "awaiting"
    /\ load' = Arrived({})
    /\ UNCHANGED <<vars, cards, dialog, call>>

\* Faulty variant: the loading flag is never reset.
RenderOnceOnly ==
    /\ load.stage = "arrived"
    /\ cards' = load.list
    /\ UNCHANGED <<vars, load, dialog, call>>

Render ==
    /\ load.stage = "arrived"
    /\ cards' = load.list
    /\ load' = Idle
    /\ UNCHANGED <<vars, dialog, call>>

-----------------------------------------------------------------------------
(* The delete dialog *)

OpenDeleteProject(p) ==
    /\ p \in cards
    /\ pendingDeletion' = p /\ typed' = FALSE /\ busy' = FALSE
    /\ UNCHANGED <<vars, cards, load, call>>

\* The input is disabled while the deletion runs.
TypeName ==
    /\ pendingDeletion # NoProject /\ ~busy /\ ~typed
    /\ typed' = TRUE
    /\ UNCHANGED <<vars, cards, load, pendingDeletion, busy, call>>

CloseDialog == pendingDeletion' = NoProject /\ busy' = FALSE /\ UNCHANGED typed

\* Cancel, Escape or a click beside the dialog.
Cancel ==
    /\ pendingDeletion # NoProject /\ ~busy
    /\ CloseDialog
    /\ UNCHANGED <<vars, cards, load, call>>

\* deleteProject up to its fetch.
Submit(r) ==
    /\ pendingDeletion # NoProject /\ ~busy /\ typed
    /\ call[r] = Idle /\ req[r] = Idle
    /\ busy' = TRUE
    /\ call' = [call EXCEPT ![r] = [stage |-> "posted", path |-> pendingDeletion]]
    /\ UNCHANGED <<vars, cards, load, pendingDeletion, typed>>

Progress(r, stage) ==
    /\ call' = [call EXCEPT ![r].stage = stage]
    /\ UNCHANGED <<cards, load, dialog>>

\* The server takes the request, or answers at once that the project is not on its
\* list or already being deleted.
Serve(r) ==
    /\ call[r].stage = "posted"
    /\ \/ BeginDelete(r, call[r].path) /\ Progress(r, "serving")
       \/ /\ call[r].path \in deleting \/ call[r].path \notin projects
          /\ Progress(r, "failed") /\ UNCHANGED vars

\* Faulty variant: no answer is sent for a deletion that failed.
AnswerSuccessOnly(r) ==
    \/ DeleteSucceeds(r) /\ IF call[r].stage = "serving" THEN Progress(r, "deleted")
                                                         ELSE UNCHANGED pageVars
    \/ DeleteFails(r) /\ UNCHANGED pageVars

\* deleteProject of the server ends; this page may have given the call up.
Answer(r) ==
    \/ DeleteSucceeds(r) /\ IF call[r].stage = "serving" THEN Progress(r, "deleted")
                                                         ELSE UNCHANGED pageVars
    \/ DeleteFails(r) /\ IF call[r].stage = "serving" THEN Progress(r, "failed")
                                                      ELSE UNCHANGED pageVars

CallFails(r) ==
    /\ call[r].stage \in {"posted", "serving"}
    /\ Progress(r, "failed")
    /\ UNCHANGED vars

\* The rest of deleteProject after a good answer.
Deleted(r) ==
    /\ call[r].stage = "deleted"
    /\ cards' = cards \ {call[r].path}
    /\ CloseDialog
    /\ call' = [call EXCEPT ![r] = Idle]
    /\ Refresh

\* Its catch block.
Failed(r) ==
    /\ call[r].stage = "failed"
    /\ busy' = FALSE
    /\ call' = [call EXCEPT ![r] = Idle]
    /\ Refresh
    /\ UNCHANGED <<cards, pendingDeletion, typed>>

-----------------------------------------------------------------------------
\* Another tab of the same dashboard.
OtherTab ==
    /\ \/ \E s \in Snapshots : BeginSnapshot(s)
       \/ \E r \in Requests, p \in Paths :
             call[r] = Idle /\ (BeginDelete(r, p) \/ BeginOpen(r, p))
    /\ UNCHANGED pageVars

\* Steps of the server and of the remote side that the page does not see.
Unseen ==
    /\ \/ \E s \in Snapshots : Collect(s) \/ CollectFails(s)
       \/ \E r \in Requests : RunDelete(r) \/ RemoteRemoves(r) \/ Open(r)
       \/ \E p \in Paths : OrphanRemoves(p) \/ OrphanEnds(p) \/ UserClones(p) \/ UserRemoves(p)
    /\ UNCHANGED pageVars

Callback(r) == Deleted(r) \/ Failed(r)

PageNext ==
    \/ Tick \/ FetchFails \/ Render \/ TypeName \/ Cancel \/ OtherTab \/ Unseen
    \/ \E s \in Snapshots : Respond(s)
    \/ \E p \in Paths : OpenDeleteProject(p)
    \/ \E r \in Requests : Submit(r) \/ Serve(r) \/ Answer(r) \/ CallFails(r) \/ Callback(r)

allVars == <<vars, pageVars>>

\* The page is visible, so that its timer fires; requests are served and callbacks
\* run.  Nothing is assumed of the user, nor of which way ssh ends.
PageFairness ==
    /\ WF_allVars(Tick) /\ WF_allVars(Render)
    /\ \A s \in Snapshots :
          /\ WF_allVars((Collect(s) \/ CollectFails(s)) /\ UNCHANGED pageVars)
          /\ WF_allVars(Respond(s))
    /\ \A r \in Requests : /\ WF_allVars(RunDelete(r) /\ UNCHANGED pageVars)
                           /\ WF_allVars(Serve(r)) /\ WF_allVars(Answer(r))
                           /\ WF_allVars(Callback(r))

PageSpec == PageInit /\ [][PageNext]_allVars /\ PageFairness

-----------------------------------------------------------------------------
(* Properties *)

\* A dialog that shows "Deleting..." and cannot be left is released, whatever becomes
\* of the call and of ssh, also when it was opened during another deletion.
BusyEnds == busy ~> ~busy

\* A checkout that is gone for good leaves the page for good, although a refresh
\* after a deletion is dropped while another one, with an older list, is in flight.
GoneLeavesPage ==
    \A p \in Paths : <>[](p \notin disk \cup deleting) => <>[](p \notin cards)
=============================================================================
