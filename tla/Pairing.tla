------------------------------- MODULE Pairing -------------------------------
(***************************************************************************)
(* Pairing of Macs with one Windows host: RunHost and its HTTP handlers    *)
(* (src/internal/pairing/host.go) together with Pair, the client they talk *)
(* to (src/internal/pairing/client.go).                                    *)
(*                                                                         *)
(* A client is one run of Pair; a Mac whose user tries again is another    *)
(* client.  A window is one run of RunHost, with its own random instance,  *)
(* and the model opens up to MaxWindows of them, one after the other.      *)
(*                                                                         *)
(* Keys, codes and sealed messages are abstracted: a sealed message opens  *)
(* exactly when it was sent in the session it names, which is what         *)
(* transcript-bound AES-GCM provides between correct peers.                *)
(***************************************************************************)
EXTENDS Naturals

CONSTANTS Clients,     \* runs of Pair
          NoClient,    \* host.session = nil
          MaxWindows   \* bound: how many times RunHost is started

ASSUME PairingAssumption ==
    /\ NoClient \notin Clients
    /\ MaxWindows \in Nat

VARIABLES
    phase,     \* RunHost: "off", "open" (in its select) or "closing" (in Shutdown)
    window,    \* number of windows opened so far; names the current instance
    clock,     \* which deadlines passed: none, hostContext's, session.expires
    session,   \* the client host.session belongs to
    prompt,    \* goroutine running options.Confirm on Windows
    decision,  \* session.decision, a channel of capacity one
    done,      \* host.done, a channel of capacity one
    outcome,   \* what RunHost returns
    keys,      \* authorized_keys: the window each client's key was installed in
    device,    \* the instance each client discovered (0: none yet)
    pc,        \* where each client is in Pair
    exch,      \* the HTTP exchange each client has with the host
    macYes,    \* history: clients whose user confirmed the code on the Mac
    winYes     \* history: clients whose code was confirmed on Windows

host   == <<phase, window, clock, outcome>>
chans  == <<prompt, decision, done>>
client == <<device, pc, exch>>
asked  == <<macYes, winYes>>
vars   == <<host, session, chans, keys, client, asked>>

-----------------------------------------------------------------------------
\* Values pushed into host.done, and what RunHost can return.
Results  == {"paired", "rejectedOnWindows", "rejectedOnMac", "error"}
Outcomes == Results \cup {"none", "expired", "interrupted", "killed"}

\* An exchange is a request the host has not read yet, a handler at work in
\* the host, or an answer (or a broken connection) the client has not seen yet.
Requests == {"hello", "confirm", "cancel"}
Handlers == {"waiting", "installing", "installed"}
Answers  == {"helloOk", "confirmOk", "emptyOk", "cancelOk", "refused", "dropped"}

ClientStates == {"idle", "found", "hello", "compare", "confirm", "cancel",
                 "paired", "rejected", "failed"}

TypeOK ==
    /\ phase \in {"off", "open", "closing"}
    /\ window \in 0..MaxWindows
    /\ clock \in {"running", "windowOver", "sessionOver"}
    /\ session \in Clients \cup {NoClient}
    /\ prompt \in {"none", "asking", "declining", "answered"}
    /\ decision \in {"empty", "yes", "no"}
    /\ done \in Results \cup {"empty"}
    /\ outcome \in Outcomes
    /\ keys \in [Clients -> 0..MaxWindows]
    /\ device \in [Clients -> 0..MaxWindows]
    /\ pc \in [Clients -> ClientStates]
    /\ exch \in [Clients -> {"none"} \cup Requests \cup Handlers \cup Answers]
    /\ macYes \in SUBSET Clients
    /\ winYes \in SUBSET Clients

Init ==
    /\ phase = "off" /\ window = 0 /\ clock = "running" /\ outcome = "none"
    /\ session = NoClient
    /\ prompt = "none" /\ decision = "empty" /\ done = "empty"
    /\ keys = [c \in Clients |-> 0]
    /\ device = [c \in Clients |-> 0]
    /\ pc = [c \in Clients |-> "idle"]
    /\ exch = [c \in Clients |-> "none"]
    /\ macYes = {} /\ winYes = {}

\* host.finish: a send that is dropped when the channel is full.
Finish(result) == done' = IF done = "empty" THEN result ELSE done

Reply(c, answer) == exch' = [exch EXCEPT ![c] = answer]

Goto(c, state) == pc' = [pc EXCEPT ![c] = state]

-----------------------------------------------------------------------------
(* RunHost *)

\* Faulty variant: a result of the previous window is left in the channel.
OpenWindowKeepingDone ==
    /\ phase = "off" /\ window < MaxWindows
    /\ phase' = "open" /\ window' = window + 1
    /\ clock' = "running" /\ outcome' = "none"
    /\ session' = NoClient
    /\ prompt' = "none" /\ decision' = "empty"
    /\ UNCHANGED <<done, keys, client, asked>>

OpenWindow ==
    /\ phase = "off" /\ window < MaxWindows
    /\ phase' = "open" /\ window' = window + 1
    /\ clock' = "running" /\ outcome' = "none"
    /\ session' = NoClient
    /\ prompt' = "none" /\ decision' = "empty" /\ done' = "empty"
    /\ UNCHANGED <<keys, client, asked>>

\* Time passes.  session.expires is set when the hello arrives, so it is later
\* than the deadline of hostContext, which starts with the window.
Tick ==
    /\ phase # "off"
    /\ \/ clock = "running" /\ clock' = "windowOver"
       \/ clock = "windowOver" /\ session # NoClient /\ clock' = "sessionOver"
    /\ UNCHANGED <<phase, window, outcome, session, chans, keys, client, asked>>

Close(result) ==
    /\ phase = "open"
    /\ phase' = "closing" /\ outcome' = result
    /\ UNCHANGED <<window, clock, session, prompt, decision, keys, client, asked>>

\* The two branches of RunHost's select, and the cancellation of its context.
TakeResult == done # "empty" /\ done' = "empty" /\ Close(done)

\* Faulty variant: expiry is sent through the channel as well.
ExpireThroughDone == clock # "running" /\ Finish("expired") /\ Close("expired")

Expire    == clock # "running" /\ UNCHANGED done /\ Close("expired")
Interrupt == UNCHANGED done /\ Close("interrupted")

\* The listener or the discovery responder fails.
NetworkFails ==
    /\ phase = "open"
    /\ Finish("error")
    /\ UNCHANGED <<host, session, prompt, decision, keys, client, asked>>

\* The process ends: handlers die with it and their connections break.  The
\* installation script of a dying handler may or may not have run to its end.
Exit ==
    /\ phase' = "off"
    /\ exch' = [c \in Clients |->
                  IF exch[c] \in Requests \cup Handlers THEN "dropped" ELSE exch[c]]
    /\ \/ keys' = keys
       \/ keys' = [c \in Clients |->
                     IF exch[c] = "installing" THEN window ELSE keys[c]]
    /\ UNCHANGED <<window, clock, session, chans, device, pc, asked>>

\* Faulty variant: Shutdown without a deadline waits for every handler.
HostReturnsAfterHandlers ==
    /\ phase = "closing" /\ \A c \in Clients : exch[c] \notin Handlers
    /\ UNCHANGED outcome /\ Exit

\* server.Shutdown returns, after two seconds at most, and RunHost with it.  Only then is
\* it asked why hostContext ended: an interruption in the meantime hides the expiry.
HostReturns ==
    /\ phase = "closing"
    /\ outcome' \in {outcome, IF outcome = "expired" THEN "interrupted" ELSE outcome}
    /\ Exit

\* The window the helper runs in is closed, or the machine goes down.
HostKilled == phase # "off" /\ outcome' = "killed" /\ Exit

\* options.Confirm returns; the decision goes to the channel before finish.
WindowsApproves ==
    /\ phase # "off" /\ prompt = "asking"
    /\ prompt' = "answered" /\ decision' = "yes"
    /\ winYes' = winYes \cup {session}
    /\ UNCHANGED <<host, session, done, keys, client, macYes>>

WindowsDeclines ==
    /\ phase # "off" /\ prompt = "asking"
    /\ prompt' = "declining" /\ decision' = "no"
    /\ UNCHANGED <<host, session, done, keys, client, asked>>

FinishDecline ==
    /\ phase # "off" /\ prompt = "declining"
    /\ prompt' = "answered" /\ Finish("rejectedOnWindows")
    /\ UNCHANGED <<host, session, decision, keys, client, asked>>

-----------------------------------------------------------------------------
(* The handlers.  Shutdown closes the listener but lets requests that already *)
(* arrived run, so a handler can start and work while the phase is "closing". *)

Serving(c, request) == phase # "off" /\ exch[c] = request

\* Faulty variant: a hello replaces the session of another device.
AnyHelloIsWelcome == TRUE

SessionFree == session = NoClient

\* Another instance, a session in progress, or a key, nonce or id that cannot be
\* generated; the session stays as it is.
RefuseHello(c) ==
    /\ Serving(c, "hello")
    /\ Reply(c, "refused")
    /\ UNCHANGED <<host, session, chans, keys, device, pc, asked>>

AcceptHello(c) ==
    /\ Serving(c, "hello")
    /\ device[c] = window /\ SessionFree
    /\ session' = c
    /\ decision' = "empty"
    /\ \/ Reply(c, "helloOk") /\ prompt' = "asking" /\ UNCHANGED done
       \/ Reply(c, "dropped") /\ Finish("error") /\ UNCHANGED prompt
    /\ UNCHANGED <<host, keys, device, pc, asked>>

HandleHello(c) == RefuseHello(c) \/ AcceptHello(c)

\* currentSession, and the expiry test that follows it.
SessionActive(c) == session = c /\ clock # "sessionOver"

HandleConfirm(c) ==
    /\ Serving(c, "confirm")
    /\ Reply(c, IF SessionActive(c) THEN "waiting" ELSE "refused")
    /\ UNCHANGED <<host, session, chans, keys, device, pc, asked>>

\* Faulty variant: any decision lets the handler go on.
TakeAnyDecision(c) ==
    /\ Serving(c, "waiting") /\ decision # "empty"
    /\ decision' = "empty"
    /\ Reply(c, "installing")
    /\ UNCHANGED <<host, session, prompt, done, keys, device, pc, asked>>

\* The select of handleConfirm: the decision, the end of the request's context
\* (the Mac hung up, or the server's read timeout passed), the session's expiry.
TakeDecision(c) ==
    /\ Serving(c, "waiting") /\ decision # "empty"
    /\ decision' = "empty"
    /\ Reply(c, IF decision = "yes" THEN "installing" ELSE "refused")
    /\ UNCHANGED <<host, session, prompt, done, keys, device, pc, asked>>

RequestGone(c) ==
    /\ Serving(c, "waiting")
    /\ Reply(c, "emptyOk")
    /\ UNCHANGED <<host, session, chans, keys, device, pc, asked>>

WaitExpires(c) ==
    /\ Serving(c, "waiting") /\ clock = "sessionOver"
    /\ Reply(c, "refused")
    /\ UNCHANGED <<host, session, chans, keys, device, pc, asked>>

\* Faulty variant: the error of InstallPublicKey is not looked at.
InstallKeyIgnoringError(c) ==
    /\ Serving(c, "installing")
    /\ \/ keys' = [keys EXCEPT ![c] = window]
       \/ UNCHANGED keys
    /\ Reply(c, "installed")
    /\ UNCHANGED <<host, session, chans, device, pc, asked>>

\* What fails may be a step after the key was written.
InstallKey(c) ==
    /\ Serving(c, "installing")
    /\ \/ /\ keys' = [keys EXCEPT ![c] = window]
          /\ Reply(c, "installed") /\ UNCHANGED done
       \/ /\ keys' \in {keys, [keys EXCEPT ![c] = window]}
          /\ Reply(c, "refused") /\ Finish("error")
    /\ UNCHANGED <<host, session, prompt, decision, device, pc, asked>>

\* The SSH host key is read and the result is sealed and written; each can fail.
AnswerConfirm(c) ==
    /\ Serving(c, "installed")
    /\ \/ Reply(c, "confirmOk") /\ Finish("paired")
       \/ Reply(c, "refused") /\ Finish("error")
       \/ Reply(c, "dropped") /\ Finish("error")
    /\ UNCHANGED <<host, session, prompt, decision, keys, device, pc, asked>>

\* Faulty variant: a cancellation is honoured whatever session it names.
HandleAnyCancel(c) ==
    /\ Serving(c, "cancel")
    /\ Reply(c, "cancelOk") /\ Finish("rejectedOnMac")
    /\ UNCHANGED <<host, session, prompt, decision, keys, device, pc, asked>>

HandleCancel(c) ==
    /\ Serving(c, "cancel")
    /\ IF session = c
         THEN Reply(c, "cancelOk") /\ Finish("rejectedOnMac")
         ELSE Reply(c, "refused") /\ UNCHANGED done
    /\ UNCHANGED <<host, session, prompt, decision, keys, device, pc, asked>>

Handle(c) ==
    \/ HandleHello(c) \/ HandleConfirm(c) \/ HandleCancel(c)
    \/ TakeDecision(c) \/ RequestGone(c) \/ WaitExpires(c)
    \/ InstallKey(c) \/ AnswerConfirm(c)

-----------------------------------------------------------------------------
(* Pair, on the Mac *)

\* postJSON connects and sends; with no listener the connection is refused.
Post(c, request, onRefused) ==
    IF phase = "open"
      THEN Reply(c, request) /\ Goto(c, request)
      ELSE Goto(c, onRefused) /\ UNCHANGED exch

Discover(c) ==
    /\ pc[c] = "idle" /\ phase = "open"
    /\ device' = [device EXCEPT ![c] = window]
    /\ Goto(c, "found")
    /\ UNCHANGED <<host, session, chans, keys, exch, asked>>

SendHello(c) ==
    /\ pc[c] = "found"
    /\ Post(c, "hello", "failed")
    /\ UNCHANGED <<host, session, chans, keys, device, asked>>

\* options.Confirm on the Mac, and the message its answer leads to.
MacConfirms(c) ==
    /\ pc[c] = "compare"
    /\ macYes' = macYes \cup {c}
    /\ Post(c, "confirm", "failed")
    /\ UNCHANGED <<host, session, chans, keys, device, winYes>>

MacRejects(c) ==
    /\ pc[c] = "compare"
    /\ Post(c, "cancel", "rejected")
    /\ UNCHANGED <<host, session, chans, keys, device, asked>>

\* An answer arrives.  One that decodes may still fail Pair's validation; the
\* result of cancelling is ignored.
Receive(c) ==
    /\ exch[c] \in Answers
    /\ \/ pc[c] = "hello" /\ exch[c] = "helloOk" /\ Goto(c, "compare")
       \/ pc[c] = "confirm" /\ exch[c] = "confirmOk" /\ Goto(c, "paired")
       \/ pc[c] = "cancel" /\ Goto(c, "rejected")
       \/ pc[c] \in {"hello", "confirm"} /\ Goto(c, "failed")
    /\ Reply(c, "none")
    /\ UNCHANGED <<host, session, chans, keys, device, asked>>

\* The client's timeout passes, or the Mac loses the network: Pair gives up and
\* whatever the host still does or answers for this client reaches nobody.
GiveUp(c) ==
    /\ \/ pc[c] \in {"hello", "confirm"} /\ Goto(c, "failed")
       \/ pc[c] = "cancel" /\ Goto(c, "rejected")
       \/ pc[c] \in {"found", "compare"} /\ Goto(c, "failed")
    /\ UNCHANGED <<host, session, chans, keys, device, exch, asked>>

Run(c) ==
    \/ Discover(c) \/ SendHello(c) \/ MacConfirms(c) \/ MacRejects(c)
    \/ Receive(c) \/ GiveUp(c)

-----------------------------------------------------------------------------
RunHost == \/ OpenWindow \/ Tick \/ TakeResult \/ Expire \/ Interrupt
           \/ NetworkFails \/ HostReturns \/ HostKilled
           \/ WindowsApproves \/ WindowsDeclines \/ FinishDecline

Next == RunHost \/ \E c \in Clients : Handle(c) \/ Run(c)

\* Timers fire, RunHost's select takes what is ready, Shutdown has a deadline,
\* and bytes (or the end of a connection) that reached the Mac are read.  The
\* two people answering prompts, and the client's own timeout, get no fairness.
Fairness ==
    /\ WF_vars(Tick) /\ WF_vars(TakeResult \/ Expire) /\ WF_vars(HostReturns)
    /\ \A c \in Clients : WF_vars(Receive(c))

Spec == Init /\ [][Next]_vars /\ Fairness
-----------------------------------------------------------------------------
(* Properties *)

KeyOf(w) == {c \in Clients : keys[c] = w}

\* A key is installed only for a client whose code was confirmed by both people,
\* in the window whose instance that client discovered (handleConfirm installs
\* after openSealed and after a true decision).
KeyNeedsBothConsents ==
    \A c \in Clients :
        keys[c] # 0 => c \in macYes \cap winYes /\ keys[c] = device[c]

\* One window authorizes one Mac at most, however many say hello and in whatever
\* order their requests, the prompt and the shutdown interleave (host.session).
OneKeyPerWindow ==
    \A w \in 1..MaxWindows : \A c, d \in KeyOf(w) : c = d

\* When the helper reports a rejection ("Pairing cancelled"), no key was, or will
\* be, installed in that window, although rejections race with a confirm handler.
NoKeyAfterRejection ==
    outcome \in {"rejectedOnWindows", "rejectedOnMac"} => KeyOf(window) = {}

\* When the helper reports success, this window's session has its key installed;
\* a result left over from elsewhere is never reported.
SuccessMeansInstalled ==
    outcome = "paired" => session \in KeyOf(window)

\* A Mac whose Pair returned a result (and that will save it) has its key
\* installed, whichever window, timeout or crash the answer travelled across.
PairedMeansInstalled ==
    \A c \in Clients : pc[c] = "paired" => keys[c] = device[c] /\ keys[c] # 0

\* "Pairing mode expired before a device connected" (ErrPairingExpired): expiry
\* would mean that no key was installed in the window.
ExpiredMeansNoKey == outcome = "expired" => KeyOf(window) = {}

\* A Mac that confirmed and waits for Windows is never left hanging: even if
\* nobody answers the Windows prompt and its own timeout never fires, the window
\* ends and its request with it (session expiry, Shutdown deadline, exit).
ConfirmIsAnswered ==
    \A c \in Clients : pc[c] = "confirm" ~> pc[c] \in {"paired", "failed"}

Contract == INSTANCE PairingContract
              WITH believes <- {c \in Clients : pc[c] = "paired"}

\* The handlers and Pair together implement the contract above them.
ImplementsContract == Contract!Spec
=============================================================================
