---------------------------- MODULE PairingProofs ----------------------------
(***************************************************************************)
(* Theorems about Pairing for every set of clients and number of windows.  *)
(***************************************************************************)
EXTENDS Pairing, TLAPS

\* A result is reported when it waits in host.done or when RunHost returns it.
Reported(result) == done = result \/ outcome = result

\* What ties RunHost's own state together: the session belongs to a client that
\* said hello in this window, an unanswered prompt means no Windows consent yet,
\* and each reported result is backed by the session it is about.
HostInv ==
    /\ phase = "off" \/ window # 0
    /\ window = 0 => session = NoClient /\ done = "empty" /\ outcome = "none"
    /\ session # NoClient => device[session] = window
    /\ prompt \in {"asking", "declining"} => session \in Clients \ winYes
    /\ decision = "yes" => session \in winYes
    /\ Reported("rejectedOnMac") =>
         session \in Clients /\ pc[session] \in {"cancel", "rejected"}
    /\ Reported("rejectedOnWindows") =>
         session \in Clients \ winYes /\ prompt = "answered"
    /\ Reported("paired") => session \in Clients /\ keys[session] = window

\* What ties a client's place in Pair to its exchange and to its key.
ClientInv(c) ==
    /\ keys[c] <= window /\ device[c] <= window
    /\ pc[c] \in {"idle", "found"} =>
         exch[c] = "none" /\ session # c /\ c \notin winYes
    /\ pc[c] \in {"idle", "found", "hello", "compare", "cancel", "rejected"} => c \notin macYes
    /\ exch[c] = "hello" => session # c /\ c \notin winYes
    /\ exch[c] = "confirm" => c \in macYes
    /\ exch[c] = "cancel" => pc[c] \in {"cancel", "rejected"}
    /\ exch[c] \in Handlers => phase # "off" /\ session = c /\ c \in macYes
    /\ exch[c] \in {"installing", "installed"} => c \in winYes
    /\ exch[c] = "installed" => keys[c] = window
    /\ exch[c] = "confirmOk" \/ pc[c] = "paired" => keys[c] # 0
    /\ keys[c] # 0 => /\ c \in macYes \cap winYes
                      /\ keys[c] = device[c]
    /\ keys[c] = window /\ window # 0 => session = c

PairingInv == HostInv /\ \A c \in Clients : ClientInv(c)

-----------------------------------------------------------------------------
\* The definitions every step expands: how channels, replies and sets are named.
USE PairingAssumption
    DEF host, chans, client, asked, Results, Outcomes, Requests, Handlers, Answers,
        ClientStates, Finish, Reply, Goto

\* Every step keeps every variable in its type; the prompt's answer is recorded
\* for the session's client, so that there is one is part of the argument.
LEMMA TypeStep == TypeOK /\ PairingInv /\ [Next]_vars => TypeOK'
<1> SUFFICES ASSUME TypeOK, PairingInv, [Next]_vars PROVE TypeOK'
  OBVIOUS
<1> USE DEF TypeOK
<1>1. CASE OpenWindow
  BY <1>1 DEF OpenWindow
<1>2. CASE Tick
  BY <1>2 DEF Tick
<1>3. CASE TakeResult \/ Expire \/ Interrupt
  BY <1>3 DEF TakeResult, Expire, Interrupt, Close
<1>4. CASE NetworkFails
  BY <1>4 DEF NetworkFails
<1>5. CASE HostReturns \/ HostKilled
  BY <1>5 DEF HostReturns, HostKilled, Exit
<1>6. CASE WindowsApproves \/ WindowsDeclines \/ FinishDecline
  BY <1>6 DEF PairingInv, HostInv, WindowsApproves, WindowsDeclines, FinishDecline
<1>7. ASSUME NEW c \in Clients, Handle(c) PROVE TypeOK'
  <2>1. CASE HandleHello(c)
    BY <1>7, <2>1 DEF HandleHello, RefuseHello, AcceptHello, Serving
  <2>2. CASE HandleConfirm(c) \/ HandleCancel(c)
    BY <2>2 DEF HandleConfirm, HandleCancel, Serving
  <2>3. CASE TakeDecision(c) \/ RequestGone(c) \/ WaitExpires(c)
    BY <2>3 DEF TakeDecision, RequestGone, WaitExpires, Serving
  <2>4. CASE InstallKey(c)
    BY <2>4 DEF InstallKey, Serving
  <2>5. CASE AnswerConfirm(c)
    BY <2>5 DEF AnswerConfirm, Serving
  <2> QED
    BY <1>7, <2>1, <2>2, <2>3, <2>4, <2>5 DEF Handle
<1>8. ASSUME NEW c \in Clients, Run(c) PROVE TypeOK'
  <2>1. CASE Discover(c) \/ SendHello(c)
    BY <2>1 DEF Discover, SendHello, Post
  <2>2. CASE MacConfirms(c) \/ MacRejects(c)
    BY <2>2 DEF MacConfirms, MacRejects, Post
  <2>3. CASE Receive(c)
    BY <2>3 DEF Receive
  <2>4. CASE GiveUp(c)
    BY <2>4 DEF GiveUp
  <2> QED
    BY <1>8, <2>1, <2>2, <2>3, <2>4 DEF Run
<1>9. CASE UNCHANGED vars
  BY <1>9 DEF vars
<1> QED
  BY <1>1, <1>2, <1>3, <1>4, <1>5, <1>6, <1>7, <1>8, <1>9 DEF Next, RunHost

-----------------------------------------------------------------------------
\* Every step preserves the inductive invariant.
LEMMA InvStep == TypeOK /\ PairingInv /\ [Next]_vars => PairingInv'
<1> SUFFICES ASSUME TypeOK, PairingInv, [Next]_vars PROVE PairingInv'
  OBVIOUS
<1> USE DEF TypeOK, PairingInv, HostInv, ClientInv, Reported
<1>1. CASE OpenWindow
  BY <1>1 DEF OpenWindow
<1>2. CASE Tick
  BY <1>2 DEF Tick
<1>3. CASE TakeResult
  BY <1>3 DEF TakeResult, Close
<1>4. CASE Expire
  BY <1>4 DEF Expire, Close
<1>5. CASE Interrupt
  BY <1>5 DEF Interrupt, Close
<1>6. CASE NetworkFails
  BY <1>6 DEF NetworkFails
<1>7. CASE HostReturns
  BY <1>7 DEF HostReturns, Exit
<1>8. CASE HostKilled
  BY <1>8 DEF HostKilled, Exit
<1>9. CASE WindowsApproves
  BY <1>9 DEF WindowsApproves
<1>10. CASE WindowsDeclines
  BY <1>10 DEF WindowsDeclines
<1>11. CASE FinishDecline
  BY <1>11 DEF FinishDecline
<1>12. ASSUME NEW c \in Clients, Handle(c) PROVE PairingInv'
  <2>1. CASE RefuseHello(c)
    BY <2>1 DEF RefuseHello, Serving
  <2>2. CASE AcceptHello(c)
    BY <2>2 DEF AcceptHello, Serving, SessionFree
  <2>3. CASE HandleConfirm(c)
    BY <2>3 DEF HandleConfirm, Serving, SessionActive
  <2>4. CASE HandleCancel(c)
    BY <2>4 DEF HandleCancel, Serving
  <2>5. CASE TakeDecision(c)
    BY <2>5 DEF TakeDecision, Serving
  <2>6. CASE RequestGone(c)
    BY <2>6 DEF RequestGone, Serving
  <2>7. CASE WaitExpires(c)
    BY <2>7 DEF WaitExpires, Serving
  <2>8. CASE InstallKey(c)
    BY <2>8 DEF InstallKey, Serving
  <2>9. CASE AnswerConfirm(c)
    BY <2>9 DEF AnswerConfirm, Serving
  <2> QED
    BY <1>12, <2>1, <2>2, <2>3, <2>4, <2>5, <2>6, <2>7, <2>8, <2>9 DEF Handle, HandleHello
<1>13. ASSUME NEW c \in Clients, Run(c) PROVE PairingInv'
  <2>1. CASE Discover(c)
    BY <2>1 DEF Discover
  <2>2. CASE SendHello(c)
    BY <2>2 DEF SendHello, Post
  <2>3. CASE MacConfirms(c)
    BY <2>3 DEF MacConfirms, Post
  <2>4. CASE MacRejects(c)
    BY <2>4 DEF MacRejects, Post
  <2>5. CASE Receive(c)
    BY <2>5 DEF Receive
  <2>6. CASE GiveUp(c)
    BY <2>6 DEF GiveUp
  <2> QED
    BY <1>13, <2>1, <2>2, <2>3, <2>4, <2>5, <2>6 DEF Run
<1>14. CASE UNCHANGED vars
  BY <1>14 DEF vars
<1> QED
  BY <1>1, <1>2, <1>3, <1>4, <1>5, <1>6, <1>7, <1>8, <1>9, <1>10, <1>11, <1>12, <1>13, <1>14 DEF Next, RunHost

\* Types and the inductive invariant hold in every state of every behaviour.
THEOREM Invariance == Spec => [](TypeOK /\ PairingInv)
<1>1. Init => TypeOK /\ PairingInv
  BY DEF Init, TypeOK, PairingInv, HostInv, ClientInv, Reported
<1>2. TypeOK /\ PairingInv /\ [Next]_vars => (TypeOK /\ PairingInv)'
  BY TypeStep, InvStep
<1> QED
  BY <1>1, <1>2, PTL DEF Spec

\* Every variable keeps its type.
THEOREM TypeCorrect == Spec => []TypeOK
  BY Invariance, PTL

-----------------------------------------------------------------------------
\* A key is installed only for a Mac that both people confirmed.
THEOREM ConsentTheorem == Spec => []KeyNeedsBothConsents
<1>1. PairingInv => KeyNeedsBothConsents
  BY DEF PairingInv, ClientInv, KeyNeedsBothConsents
<1> QED
  BY <1>1, Invariance, PTL

\* A rejection reported by the helper means that no key entered in that window.
THEOREM RejectionTheorem == Spec => []NoKeyAfterRejection
<1>1. TypeOK /\ PairingInv => NoKeyAfterRejection
  <2> SUFFICES ASSUME TypeOK, PairingInv, NEW c \in Clients, keys[c] = window,
                      outcome \in {"rejectedOnWindows", "rejectedOnMac"}
               PROVE  FALSE
    BY DEF NoKeyAfterRejection, KeyOf
  <2>1. window # 0 /\ session = c
    BY DEF TypeOK, PairingInv, HostInv, ClientInv, Reported
  <2>2. c \in macYes \cap winYes
    BY <2>1 DEF TypeOK, PairingInv, ClientInv
  <2> QED
    BY <2>1, <2>2 DEF PairingInv, HostInv, ClientInv, Reported
<1> QED
  BY <1>1, Invariance, PTL

\* A success reported by the helper means that the session's key is installed.
THEOREM SuccessTheorem == Spec => []SuccessMeansInstalled
<1>1. PairingInv => SuccessMeansInstalled
  BY DEF PairingInv, HostInv, Reported, SuccessMeansInstalled, KeyOf
<1> QED
  BY <1>1, Invariance, PTL

\* A Mac that will save its pairing has its key installed.
THEOREM PairedTheorem == Spec => []PairedMeansInstalled
<1>1. PairingInv => PairedMeansInstalled
  BY DEF PairingInv, ClientInv, PairedMeansInstalled
<1> QED
  BY <1>1, Invariance, PTL

-----------------------------------------------------------------------------
\* A new key enters keys only for the session of the current window, so the
\* windows that are over keep the one key they have.
LEMMA OneKeyStep ==
    TypeOK /\ PairingInv /\ OneKeyPerWindow /\ [Next]_vars => OneKeyPerWindow'
<1> SUFFICES ASSUME TypeOK, PairingInv, OneKeyPerWindow, [Next]_vars,
                    NEW w \in 1..MaxWindows, NEW c \in Clients, NEW d \in Clients,
                    keys'[c] = w, keys'[d] = w
             PROVE  c = d
  BY DEF OneKeyPerWindow, KeyOf
<1>1. TypeOK' /\ PairingInv'
  BY TypeStep, InvStep
<1>2. CASE w = window'
  BY <1>1, <1>2 DEF TypeOK, PairingInv, ClientInv
<1>3. CASE w # window'
  <2>1. \A e \in Clients : keys'[e] = keys[e] \/ keys'[e] = window'
    <3> USE DEF TypeOK
    <3>1. CASE keys' = keys
      BY <3>1
    <3>2. CASE Exit /\ window' = window
      BY <3>2 DEF Exit
    <3>3. CASE \E e \in Clients : InstallKey(e)
      BY <3>3 DEF InstallKey
    <3> QED
      BY <3>1, <3>2, <3>3 DEF Next, RunHost, vars, Handle, Run, HandleHello,
           OpenWindow, Tick, TakeResult, Expire, Interrupt, Close, NetworkFails,
           HostReturns, HostKilled, Exit, WindowsApproves, WindowsDeclines,
           FinishDecline, RefuseHello, AcceptHello, HandleConfirm, HandleCancel,
           TakeDecision, RequestGone, WaitExpires, AnswerConfirm, Discover,
           SendHello, MacConfirms, MacRejects, Receive, GiveUp
  <2>2. keys[c] = w /\ keys[d] = w
    BY <1>3, <2>1
  <2> QED
    BY <2>2 DEF OneKeyPerWindow, KeyOf
<1> QED
  BY <1>2, <1>3

\* At most one Mac is authorized in each window.
THEOREM OneKeyTheorem == Spec => []OneKeyPerWindow
<1>1. Init => OneKeyPerWindow
  BY DEF Init, OneKeyPerWindow, KeyOf
<1> QED
  BY <1>1, OneKeyStep, Invariance, PTL DEF Spec

-----------------------------------------------------------------------------
\* Every step of the handlers and of Pair is a step of the contract, or none.
LEMMA ContractStep ==
    TypeOK /\ PairingInv /\ [Next]_vars => [Contract!Next]_(Contract!vars)
<1> SUFFICES ASSUME TypeOK, PairingInv, [Next]_vars
             PROVE  [Contract!Next]_(Contract!vars)
  OBVIOUS
<1> DEFINE paired == {c \in Clients : pc[c] = "paired"}
<1> USE DEF TypeOK, PairingInv, Contract!vars, Contract!Next
<1>1. CASE OpenWindow
  BY <1>1 DEF OpenWindow, Contract!Open
<1>2. CASE WindowsApproves
  BY <1>2 DEF WindowsApproves, HostInv, Contract!ConsentOnWindows
<1>3. CASE HostReturns \/ HostKilled
  <2>1. CASE keys' = keys
    BY <1>3, <2>1 DEF HostReturns, HostKilled, Exit
  <2>2. CASE keys' # keys
    <3>1. PICK c \in Clients : keys'[c] # keys[c]
      BY <1>3, <2>2 DEF HostReturns, HostKilled, Exit
    <3>2. exch[c] = "installing" /\ keys'[c] = window
      BY <1>3, <3>1 DEF HostReturns, HostKilled, Exit
    <3>3. keys' = [keys EXCEPT ![c] = window]
      BY <1>3, <3>2 DEF HostReturns, HostKilled, Exit, ClientInv, Handlers
    <3>4. /\ session = c /\ c \in macYes \cap winYes
          /\ keys[c] = 0 /\ window # 0 /\ \A d \in Clients : keys[d] # window
      BY <3>1, <3>2 DEF HostInv, ClientInv, Handlers
    <3>5. Contract!Authorize(c)
      BY <1>3, <3>3, <3>4 DEF HostReturns, HostKilled, Exit, Contract!Authorize
    <3> QED
      BY <3>5
  <2> QED
    BY <2>1, <2>2
<1>4. CASE Tick \/ TakeResult \/ Expire \/ Interrupt \/ NetworkFails
           \/ WindowsDeclines \/ FinishDecline
  BY <1>4 DEF Tick, TakeResult, Expire, Interrupt, Close, NetworkFails,
       WindowsDeclines, FinishDecline
<1>5. ASSUME NEW c \in Clients, Handle(c)
      PROVE  [Contract!Next]_(Contract!vars)
  <2>1. CASE InstallKey(c)
    <3>1. CASE keys' = keys
      BY <2>1, <3>1 DEF InstallKey
    <3>2. CASE keys' # keys
      BY <2>1, <3>2 DEF InstallKey, Serving, HostInv, ClientInv, Contract!Authorize
    <3> QED
      BY <3>1, <3>2
  <2>2. CASE HandleHello(c) \/ HandleConfirm(c) \/ HandleCancel(c)
             \/ TakeDecision(c) \/ RequestGone(c) \/ WaitExpires(c) \/ AnswerConfirm(c)
    BY <2>2 DEF HandleHello, RefuseHello, AcceptHello, HandleConfirm, HandleCancel,
         TakeDecision, RequestGone, WaitExpires, AnswerConfirm
  <2> QED
    BY <1>5, <2>1, <2>2 DEF Handle
<1>6. ASSUME NEW c \in Clients, Run(c)
      PROVE  [Contract!Next]_(Contract!vars)
  <2>1. CASE MacConfirms(c)
    <3>1. paired' = paired /\ c \notin macYes
      BY <2>1 DEF MacConfirms, Post, ClientInv
    <3> QED
      BY <2>1, <3>1 DEF MacConfirms, Contract!ConsentOnMac
  <2>2. CASE Receive(c)
    <3>1. CASE pc'[c] = "paired"
      <4>1. paired' = paired \cup {c} /\ c \notin paired /\ keys[c] # 0
        BY <2>2, <3>1 DEF Receive, ClientInv
      <4> QED
        BY <2>2, <4>1 DEF Receive, Contract!Believe
    <3>2. CASE pc'[c] # "paired"
      <4>1. paired' = paired
        BY <2>2, <3>2 DEF Receive
      <4> QED
        BY <2>2, <4>1 DEF Receive
    <3> QED
      BY <3>1, <3>2
  <2>3. CASE Discover(c) \/ SendHello(c) \/ MacRejects(c) \/ GiveUp(c)
    <3>1. paired' = paired
      BY <2>3 DEF Discover, SendHello, MacRejects, GiveUp, Post
    <3> QED
      BY <2>3, <3>1 DEF Discover, SendHello, MacRejects, GiveUp
  <2> QED
    BY <1>6, <2>1, <2>2, <2>3 DEF Run
<1>7. CASE UNCHANGED vars
  BY <1>7 DEF vars
<1> QED
  BY <1>1, <1>2, <1>3, <1>4, <1>5, <1>6, <1>7 DEF Next, RunHost

\* Pairing implements its contract: the handlers, the prompts, the shutdown and
\* Pair together do nothing the contract does not allow.
THEOREM ContractTheorem == Spec => ImplementsContract
<1>1. Init => Contract!Init
  BY DEF Init, Contract!Init
<1> QED
  BY <1>1, ContractStep, Invariance, PTL DEF Spec, ImplementsContract, Contract!Spec
=============================================================================
