--------------------------- MODULE PairingContract ---------------------------
(***************************************************************************)
(* What pairing promises, with no messages, handlers or timers: in each    *)
(* pairing window the SSH key of at most one Mac is authorized, only after *)
(* the person at the Mac and the person at Windows both confirmed, and a   *)
(* Mac believes it is paired only once its key is authorized.              *)
(***************************************************************************)
EXTENDS Naturals

CONSTANTS Clients, MaxWindows

VARIABLES window,    \* number of pairing windows opened so far
          macYes,    \* clients whose user confirmed on the Mac
          winYes,    \* clients whose code was confirmed on Windows
          keys,      \* the window each client's key was authorized in (0: never)
          believes   \* clients that were told they are paired

vars == <<window, macYes, winYes, keys, believes>>

Init ==
    /\ window = 0
    /\ macYes = {} /\ winYes = {} /\ believes = {}
    /\ keys = [c \in Clients |-> 0]

Open ==
    /\ window < MaxWindows
    /\ window' = window + 1
    /\ UNCHANGED <<macYes, winYes, keys, believes>>

ConsentOnMac(c) ==
    /\ c \notin macYes
    /\ macYes' = macYes \cup {c}
    /\ UNCHANGED <<window, winYes, keys, believes>>

ConsentOnWindows(c) ==
    /\ c \notin winYes
    /\ winYes' = winYes \cup {c}
    /\ UNCHANGED <<window, macYes, keys, believes>>

Authorize(c) ==
    /\ c \in macYes \cap winYes
    /\ keys[c] = 0
    /\ window # 0 /\ \A d \in Clients : keys[d] # window
    /\ keys' = [keys EXCEPT ![c] = window]
    /\ UNCHANGED <<window, macYes, winYes, believes>>

Believe(c) ==
    /\ keys[c] # 0 /\ c \notin believes
    /\ believes' = believes \cup {c}
    /\ UNCHANGED <<window, macYes, winYes, keys>>

Next ==
    \/ Open
    \/ \E c \in Clients : \/ ConsentOnMac(c) \/ ConsentOnWindows(c)
                          \/ Authorize(c) \/ Believe(c)

Spec == Init /\ [][Next]_vars
=============================================================================
