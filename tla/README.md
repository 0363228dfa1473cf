# A TLA+ model of Otherhost

Otherhost lets a Mac use a Windows machine's WSL as its development host. This
directory holds TLA+ modules that model the concurrent core of the program, the
TLC configurations that check them, and TLAPS proofs. Every definition follows
the code in `src/`; `PROJECT.json` ("map") names the lines each one stands for.

## 1. The system

| Component | State it keeps | Operations | Talks to |
| --- | --- | --- | --- |
| Pairing host, `internal/pairing/host.go` | one session, its decision channel, a one-slot result channel, the window's deadline | `RunHost`, hello, confirm and cancel handlers, the Windows prompt | the client over HTTP, `authorized_keys` in WSL |
| Pairing client, `client.go` | where one run of `Pair` is | hello, comparison, confirm or cancel | the host over HTTP |
| Protocol, `protocol.go` | none | transcript, HKDF, AES-GCM, comparison code | called by both |
| Discovery, `discovery.go` | the set of devices found | advertise, multicast query, probing of a subnet by a pool of workers | UDP and HTTP |
| Key installation, `ssh.go` | `authorized_keys` | install the Mac's key, read the SSH host key | `wsl.exe` |
| Client configuration, `config.go` | `known_hosts`, `otherhost.conf` | atomic write of each file | read by the dashboard and the shell command |
| Dashboard server, `internal/dashboard/server.go`, `project_delete.go` | the allowlist `projects`, `deletingProjects` | snapshot, delete, open | collector and deleter over ssh |
| Collector, `collector.go` | none | lists checkouts and hardware through one ssh script | WSL |
| Terminals, `terminal_server.go`, `terminal.go` | pending authorizations, active terminals, `closing` | create, attach, relay, shut down | browser WebSocket, PTY, ssh child |
| Dashboard page, `assets/app.js` | latest snapshot, terminal generation and socket, delete dialog | refresh, delete, start and stop a terminal | the server's HTTP API |
| Commands, `cmd/*`, `bin/otherhost`, `lib/otherhost.sh` | files below the user's home | pair, connect, doctor, ssh-config, update, ui | all of the above |
| Installation, `setup.ps1`, `scripts/*` | firewall rules, services, containers, sshd | set up, update, replace a service | the operating systems |

What is hard in it:

- **Pairing** is two processes, two people and three timers. A handler waits for
  a person while the window's deadline, a refusal on Windows, a cancellation on
  the Mac and the read timeout race it; `finish` keeps only the first result;
  `server.Shutdown` lets a running handler continue for two seconds after
  `RunHost` has chosen what to report. What must hold: keys only with both
  consents, one key per window, reports that are true, a Mac that never hangs.
- **The inventory** is shared by snapshots and deletions that both run ssh
  without the lock. What must hold: nothing that is being deleted is offered, a
  reservation lasts exactly as long as its request, only listed paths are removed.
- **The page** answers clicks, a timer and late responses one callback at a time, so
  a list may be older than a deletion, and an answer may meet another dialog or
  terminal than the one that asked. What must hold: what is gone leaves the page,
  no dialog stays locked, and what is shown is about the latest request.
- **Terminals** share four slots over a handler with many failure paths, an output
  goroutine and a shutdown that may hit any of their steps. What must hold: slots
  are neither exceeded nor lost, an authorization works once, no ssh child survives.
- **Discovery** hands addresses to a pool of goroutines over two channels while its
  context may end. What must hold: the hosts of the local networks are probed and nothing else, no address is
  lost or probed twice, nobody sends on a closed channel, the search returns.
- **Files, scripts and installers** fail part-way; they are sequential.

The hazards, line by line, are in `PROJECT.json` ("hazards"), each with the
properties that would catch it going wrong, or a note saying why none does yet.

## 2. The modules

| Module | Models | Checked by | Proved in |
| --- | --- | --- | --- |
| `Pairing` | `RunHost`, its handlers and `Pair`, several windows and clients | `MCPairing` | `PairingProofs` |
| `PairingContract` | what pairing promises, with no messages or timers | refinement in `MCPairing` | refinement in `PairingProofs` |
| `TerminalServer` | `createTerminal`, `serveTerminalSocket`, `CloseTerminals`, the PTY | `MCTerminalServer` | `TerminalServerProofs` |
| `ProjectInventory` | `serveSnapshot`, `deleteProject`, `openProject`, the remote `rm`, ssh | `MCProjectInventory` | `ProjectInventoryProofs` |
| `ProjectPage` | `refresh` and the delete dialog of `app.js`, over `ProjectInventory` | `MCProjectPage` | `DashboardProofs` |
| `Dashboard` | inventory and terminals sharing `handler.projects` | `MCDashboard` | `DashboardProofs` |
| `SubnetPlan` | `localSubnetPlan`, against what a plan should be | `MCDiscovery` | `DiscoveryProofs` |
| `Discovery` | `DiscoverDevices`, `Discover`, `discoverAtAddresses`, over `SubnetPlan` | `MCDiscovery` | `DiscoveryProofs` |
| `ClientConfig` | `SaveClientConfiguration`, `updateKeyValueFile`, the readers and the migration of the file | `MCClientConfig` | `ClientConfigProofs` |
| `Subsequences` | selecting places of a sequence, which `ClientConfig` and `SubnetPlan` are built from | with them | `SubsequencesProofs` |
| `TerminalPage` | `startTerminal`, `stopTerminal` and the end of `deleteProject` in `app.js` | `MCTerminalPage` | `TerminalPageProofs` |

### Pairing

A *client* is one run of `Pair`; trying again is another client. A *window* is one
run of `RunHost`, with its own random instance; `MaxWindows` bounds how many are
opened, one after the other, so messages of an old window do arrive in a new one.
`exch[c]` is the HTTP exchange of a client: a request not yet read, the point a
handler has reached, or an answer not yet seen. A handler is cut into steps where
another goroutine can run: `HandleConfirm` ends in the select of
`handleConfirm`, whose cases are `TakeDecision`, `RequestGone` and `WaitExpires`;
then `InstallKey` and `AnswerConfirm` follow. `phase` is where `RunHost` is: in its
select ("open") or in `Shutdown` ("closing"), when the listener is closed but
handlers still work. The context's end is looked at once more after `Shutdown`, so an
interruption during it replaces an expiry. `Exit` ends the process and breaks what is in flight.
`clock` keeps the order of the two deadlines (`hostContext`, which starts with the
window, before `session.expires`, which starts with the hello) without counting
seconds. The cryptography is abstracted to its effect between correct peers: a
sealed message opens exactly in the session it was sealed for. `macYes` and
`winYes` are history variables; nothing reads them but the properties.

### TerminalServer

An id is one authorization. `pc[i]` is the place of its handler in
`serveTerminalSocket`, `output[i]` the goroutine that copies the PTY to the socket.
`pending`, `active` and `attached` are the handler's two maps (`attached` are the
active entries whose value is not nil). Each region under `handler.mutex` is one
action. A session whose 30 seconds are over is `aged`; every request first drops
aged sessions, as `removeExpiredTerminalSessionsLocked` does. `Register` is the
second look at `closing` after the ssh child was started. The module reads
`projects` and lets it change in any way; `Dashboard` replaces that by the
inventory's own steps.

### ProjectInventory

`snap[s]` and `req[r]` are requests in flight: `Collect` and `DeleteProject` run
without the lock, so each is several actions. `Inside` says which checkouts lie
below which; the inventory lists both, and `rm -rf` of the outer one takes the
inner ones with it, one directory after the other (`RemoteRemoves`). A deletion passes
the script's checks, runs, and ends with the script's second look at the directory;
it may end half-way. ssh fails in ways that differ: the remote script refused (nothing
happened), the `rm` failed, or the connection ended and the remote script has finished
or goes on alone (`orphans`). The WSL user clones and removes checkouts at any time.
`listed` and `removed` are history variables.

### ProjectPage

The variables are the fields of the page's `state`: `cards` is the list it shows,
`load` the fetch in flight (`state.loading`), `pendingDeletion`, `typed` and `busy` the
dialog. Every callback is one action; a fetch is at least three (the request, the
server's answer, its arrival), and the answer may be lost while the server goes on.
`OtherTab` uses the same server. The dialog can be opened again while a deletion runs,
because the cards behind it stay live; `call` holds each of the page's deletions, so
that the answer of one meets the dialog of another.

### Dashboard

`DashNext` is a step of the inventory or of the terminals. They share `projects`
and nothing else, as the fields of `Handler` do.

### SubnetPlan and Discovery

`SubnetPlan` translates `localSubnetPlan`: interfaces in their order, networks that do
not count, larger networks cut down, duplicates and the limit; each network leaves out
its own, first and last address. An address is a number of `Bits` bits, and `TwoTo` the shift
`1 << n`. `IsSubnetPlan` says independently what the outcome should be, as sets of
addresses: up to the limit, an address is in the plan exactly if at least one network, cut
down to the smallest prefix, holds it and does not leave it out. Where networks overlap,
one may therefore want what another leaves out, such as another address of the Mac itself;
where none do (`Apart`), what any of them leaves out is in no plan. The two nested loops
of the code, with their map of what was seen, become two selections (`Networks`, `Hosts`)
and one of the addresses that did not come before.

The multicast search collects answers until its deadline; if it found nothing, the
pool probes the plan. A job is a place in the plan. `worker[w]` is a goroutine in its
range over `jobs`, in `probeDevice`, or in its select; `results` is the buffered
channel, `attempted` and `devices` what the collector has. The channel `jobs` is
unbuffered, so `HandOut` is one step of two goroutines. `Expire` is the context's end
at any moment; a select with two ready cases takes either. `dropped` is a history
variable.

### ClientConfig

A file is a sequence of lines with a key and a value. `Update` and `Migrated` are
the two rewritings (Go and awk) as operators, `Lookup` and `MachineName` what every
reader does with duplicate and old keys (`Keep` selects the lines); the initial states are
all files of up to `MaxLines` lines, under the new or the old name. `run[r]` is one `otherhost pair`
from the choice of its file to the second rename. `writeAtomic` is one step, since a
temporary file is read by nobody; failures and crashes fall between the steps.
`overlap`, `last` and `edited` are history variables.

### TerminalPage

`stage[s]` is where a call of `startTerminal` is suspended, or the state of its
socket. The code compares generation numbers for equality only, so `owner`, the call
whose generation is current, stands for `state.terminalGeneration`. The server grants
a path that is on its allowlist, or refuses; the socket opens, delivers output with or
without the ready marker, and closes. `CodeAccepted` is the browser's rule for `WebSocket.close`.
`allowed` is the server's allowlist, which may become any set of the projects at any moment:
a late listing may bring a deleted project back, a new clone or a failed deletion as well.
`answers` are the deletions the page was not told of, and `gone`, a history variable, those
it was, until the server lists the path again. Which cards the page shows is
`ProjectPage`'s matter; here a card may always be there. Closing
the page is left out: the browser then closes every socket.

## 3. The runs

| Run | Bounds | Shows |
| --- | --- | --- |
| `pairing` | 2 clients, 2 windows | type and five safety invariants; a confirmed Mac is answered; `Pairing` implements `PairingContract` |
| `pairing_expired` | 1 client, 1 window | violated: expiry is reported although a key was installed |
| `terminals` | 3 authorizations, 2 slots | type and five safety invariants; shutdown ends every child; a closed browser its own, unless the handler is blocked in a write to the remote side |
| `inventory` | 2 paths, one inside the other, 2 snapshots, 2 requests | type and three safety invariants; what is gone leaves the allowlist |
| `inventory_stale` | 2 paths, one inside the other, 1 snapshot, 1 request | violated: an old listing restores a deleted project |
| `project_page` | 1 path, 1 snapshot in service, 2 deletions | type; a dialog is released; what is gone leaves the page |
| `dashboard_stale` | 1 path, 1 snapshot, 1 request, 1 authorization | violated: a terminal starts at a path that is no longer listed |
| `discovery` | addresses of 5 bits, 84 Macs with up to three networks, plans of up to 4, 2 workers | type and three safety invariants of the pool; the plan is the hosts of the networks, cut down to the smallest prefix; every step of the pool brings its end nearer; the search returns |
| `client_config` | files of 3 lines, 2 runs | readers find the machine saved last; the pin goes with the file; the user's lines stay |
| `client_config_failure` | the same | violated: a failed pairing has replaced the pin |
| `terminal_page` | 3 starts, 1 project, limit of 2 messages | what is shown is about the last start, is decided, and is no session of a deleted project |
| `terminal_page_close` | the same | violated: a closed terminal connects |

Why the bounds are enough. *Pairing*: two clients compete for one window's session, or
meet in different windows; a second window exists so that late requests and left-over
results can cross. A session accepts one client and is never cleared, so more clients
only add refused hellos; the proofs remove the bound. *Terminals*: two slots and
three authorizations reach the limit with one slot free, full and exceeded; project
paths matter only in `dashboard_stale`. *Inventory*: two snapshots and two requests let a
deletion overlap another deletion of the same path, a deletion of the checkout around
it or inside it, and a snapshot on either side. *Project page*: two calls of the page
let a dialog be open for one deletion while another one is answered, and a second tab
deletes and refreshes in between; with one path the dialogs are for the same project,
which is the harder case for the list. *Discovery*: with more addresses than workers and
a channel that two results fill, every wait of the pool occurs; the networks lie below,
at and above the smallest prefix, overlap or not, and exceed the limit or not.
*Configuration*: three
lines hold an old name, a new one and a duplicate in any order; two runs give a
failure after a success, and an overlap. *Page*: three starts let a late answer meet a newer
session, and its successor. Symmetry is used
only in the `client_config` runs, where no liveness is checked.

`CHECK_DEADLOCK FALSE` appears where the system does stop: a helper that exited with
all its windows used, a dashboard that stopped, a search that returned, and commands
and calls that have all ended.

### Violations

Each is a disagreement between the code and a sentence of its own documentation.

1. `pairing_expired`: `RunHost` chooses `ErrPairingExpired` and then waits in
   `Shutdown` while a confirm handler with a decision goes on to install the key.
   The error text says "before a device connected".
2. `inventory_stale`: a snapshot collected before a deletion and published after it
   puts the project back; `HiddenWhileDeleting` holds, so only the time after the
   deletion is affected.
3. `dashboard_stale`: the allowlist is read when a terminal is authorized, not when it
   starts up to 30 seconds later, although "a project terminal may start only at an
   exact path from the latest inventory".
4. `client_config_failure`: known_hosts is replaced before the configuration is read
   and written. If the second fails, the old connection is left with the new host's
   pin, so strict checking refuses it, while the command says that it stopped "before
   the local connection was updated". The failure is a refusal, never a wrong host.
5. `terminal_page_close`: `startTerminal` does not compare its generation after
   `response.json()`, so a terminal closed during that wait still connects, and no
   button closes it.

Observations that have no run of their own. The first three contradict a sentence of the
repository; the model behaves as the code does:

- The loop of `serveTerminalSocket` does not read the socket while `terminal.Write` blocks
  (`terminal_server.go:203`). If the remote side stops reading, the closed socket is not
  noticed, and the ssh child keeps running and keeps its slot, although "closing the socket,
  page, or dashboard closes the PTY and terminates the SSH child"
  (`src/docs/architecture.md:185-186`) has no condition. `OnlyBlockedInputKeepsSession`
  says what remains: nothing else keeps a session. Without that exception TLC finds a
  counterexample.
- When the ssh of a deletion is cut off, or given up after five minutes, the remote `rm`
  may go on (`orphans`), while the path is back on the allowlist, which it leaves "while
  deletion is in progress" (`src/docs/architecture.md:139-140`). `projects` and `orphans`
  do meet.
- The comment at `discovery.go:315-316` says that "/23-/30 LANs retain their real prefix";
  the code cuts a /23 down to a /24, so a machine in its other half is not probed.
  `ProbesAreLocal` states what the code does: every network larger than the smallest
  prefix is cut.
- Browsers refuse `close(1011)` with an exception (`app.js:527`, `app.js:542`). After the
  output limit, and after the startup timeout, the socket stays open, and the buffer
  that `src/docs/architecture.md:176-177` calls bounded grows with each message. That
  the error becomes visible is checked (`StartIsDecided`).
- Deleting a checkout deletes the checkouts inside it, which stay on the allowlist
  until the next snapshot. A failed deletion restores its entry even if a snapshot
  published meanwhile did not list it; `GoneIsForgotten` bounds both.
- The delete dialog can be opened for a second project while the deletion of a first is in
  flight; the answer of the first then releases or closes the second's dialog early
  (`app.js:274`). The server's reservation keeps that harmless; `BusyEnds` says only that
  a dialog is released.
- Where two networks of the Mac overlap, `localSubnetPlan` compares a candidate only with
  the address of the network it comes from (`discovery.go:331-335`), so the Mac may probe
  itself under its other address.
- A deletion that was cut off half-way may have removed `.git` first; the retry that
  the restored card offers is then refused by the script's own check.
- The WSL script of `ssh.go:141` appends the key without looking whether the last line
  of `authorized_keys` is terminated; its Go twin (`ssh.go:71-75`) does look.
- `src/docs/architecture.md:281-282` says that direct Git children are always listed; the
  collector's script stops at its limit and skips pruned directories
  (`collector.go:281-318`).

### Fairness

Safety properties need none. `Pairing` is fair to timers (`Tick`), to `RunHost`'s select,
to the end of `Shutdown`, which has a deadline of two seconds, and to a Mac reading
an answer that reached it. Nothing is assumed of the two people, of handlers, or
of the client's own timeout: `ConfirmIsAnswered` holds even if nobody answers the
prompt. `TerminalServer` is fair to its goroutines, except to
one in `terminal.Write`: whether the remote side takes its input is not the code's to
decide, so a handler may stay there for ever, and the properties say what holds then.
Nothing is assumed of the browser, of the shell, or of a message that the socket rejects.
`ProjectInventory` is fair to snapshots (the page asks every 30 seconds, and
`Collect` has a deadline) and to deletions (five minutes at most), never to the
outcome of ssh. `ProjectPage` adds a visible page, whose timer fires every 30 seconds,
the server's taking and answering of requests, and the page's callbacks; an answer may
be lost, and the user need not do anything. `Discovery` is fair to the end of the multicast search and to the pool
as a whole: each probe has a deadline of half a second. `TerminalPage` is fair to
the local server's answers, to callbacks and to the startup timer, never to output.

## 4. The proofs

TLAPS checks these for every number of clients, windows, authorizations, slots,
requests, snapshots, workers and starts, for files of any length, and for a Mac with any
number of interfaces and networks. Every safety property that a passing run checks is
stated by a theorem.

- `PairingProofs`. `Invariance` proves an inductive invariant that strengthens the
  properties: where a client is and where its exchange is fit together, a handler
  past the decision belongs to the session and both people confirmed it, a result
  in `done` or in `outcome` is backed by the key it claims, and a rejection excludes
  any handler that could still install. The theorems follow from it:
  `TypeCorrect`, `ConsentTheorem`, `RejectionTheorem`, `SuccessTheorem`,
  `PairedTheorem`. `OneKeyTheorem` needs one part more: within a window a key can
  only be the session's. `ContractTheorem` is the refinement: every step is a step
  of `PairingContract` or leaves its variables alone.
- `TerminalServerProofs`. The invariant says which handler stages hold a slot, that
  a running child is in `active` or about to be closed, and that
  `Cardinality(pending) + Cardinality(active)` is at most `MaxSessions`, from which
  `SessionLimitTheorem` follows; `CountStep` is the lemma about cardinalities. The
  theorems are `TypeCorrect`, `OneAttachmentTheorem`, `RunningHoldsSlotTheorem`,
  `SlotsAreExactTheorem`, `NothingForgottenTheorem` and `SessionLimitTheorem`.
- `ProjectInventoryProofs`. `ReservationInv` says of single requests what
  `ReservationIsExact` says of sets: a request past its check and not yet answered is the
  only one for its path, and the path is in `deleting`. `ListedInv` adds to
  `OnlyListedPaths` that a listing under way is part of what was reported, since it may
  be published later. One lemma per kind of step (`SnapshotStep`, `BeginDeleteStep`,
  `RemoteStep`, `EndDeleteStep`) leads to `HiddenWhileDeletingTheorem`,
  `ReservationIsExactTheorem` and `OnlyListedPathsTheorem`.
- `DashboardProofs`. Its first part is about the page: `PageStep` shows that a step of
  the page is a step of the inventory or none. It needs the page's types: a posted call
  carries a path. So `PageImplementsInventory`, and the inventory's invariants hold with
  the page. `HandlerImplementsInventory` and `HandlerImplementsTerminals`: the
  whole handler implements both specifications, so the invariants of each hold of it.
  The second rests on the inventory's invariant, since the list must stay a set of
  paths. `NoAuthorizationTheorem` needs both sides: `createTerminal` reads
  only the allowlist, and the allowlist hides what is being deleted.
- `SubsequencesProofs`. What `Keep` returns, on which the next two rest: its elements
  (`KeepElements`), its first (`KeepFirst`), what it does with a sequence that grew
  (`KeepAppend`), a selection from a selection (`KeepKeep`), and that keeping what did
  not come before keeps each element once (`KeepUnseen`). `Keep` is a recursive
  function. `KeepUnfolds` shows that such a function exists by exhibiting one for every
  length, and with that its equation. The library's induction takes a predicate, which
  these provers cannot be given; `SetInduction` is induction on a set of numbers, from
  the least element of its complement.
- `ClientConfigProofs`. Three lemmas say what readers find in a file of any length:
  after a pairing (`UpdateReads`), a migration (`MigratedReads`) and an edit
  (`EditReads`). `OneMachine` is not inductive: a run holds its output in
  memory, and a file that is not in use may come into use. `AllWhole` therefore says it
  of every file that exists and of every output that may be written; it holds whatever
  overlaps. The other properties hold while nothing overlaps, for which `Quiet` is the
  inductive invariant: at most one program is at work, on the file in use, its output is
  `Update` or `Migrated` of what that file holds now, the pin is the one of the last run
  from `Pin` on, and the user's lines are where they were. `PinFollowsStep` keeps the pin
  with the file over every step that no other run overlaps. From these:
  `OneMachineTheorem`, `SavedConnectsTheorem`, `SettingsSurviveTheorem` and, of a step,
  `MigrationKeepsReadingsTheorem`.
- `DiscoveryProofs` has three parts. *The plan*: `PlanIsSubnetPlan` says of every list of
  interfaces that `Plan` is what `IsSubnetPlan` asks. `AroundIs` shows that addresses with
  the same prefix are a block of consecutive ones, which is division by a power of two:
  a smaller block divides a larger one (`Divides`), so dividing twice is dividing once
  (`NestedQuotient`). `HostsAre` then compares the loop's bounds with the block without its
  first and last address, where an off-by-one would be, and `ApartLeavesOut` adds what
  follows when no networks overlap. *The pool*: `OnePlace` says of each
  job how its possible places exclude each other, `Closings` why each channel is closed
  and what is over by then. From them: `EveryAddressTheorem`, `CompleteTheorem`,
  `ClosedIsQuietTheorem`; with the plan, `ProbesAreLocalTheorem`. *Its end*: every step of
  the pool makes `StepsLeft`, a natural number, smaller (`PoolProgressesTheorem`;
  sending needs that a job is in one place only, or a result could be sent twice and not be
  counted), and while the search goes on some guard of the pool holds
  (`NeverStuckTheorem`). Only the step from these two to "it returns" needs fairness and
  is left to TLC.
- `TerminalPageProofs`. The invariant adds that only calls with a socket lost their
  close handler, and never the current one, so a closed session cannot stay
  "connected"; and that a path counted as `gone` is not on the server's allowlist, so a
  call for it can only be refused. From it: `ConnectedIsReadyTheorem` and
  `ShownProjectTheorem`.

The assumptions are the constants' only; TLC evaluates them in the runs of their modules:

- `PairingAssumption` (the nil session is no client, `MaxWindows` is a natural number),
  `TerminalAssumption` (the home is no project path, there is at least one slot),
  `InventoryAssumption` and `PageAssumption` (what lies inside a path is paths; the mark
  for no project or no call is neither).
- `ConfigAssumption`: the mark for a missing file or key is no value and no file, and the
  name of a run is none of the texts of a file, since a pairing writes the name and the
  address of its own host. Two runs with the same host are one to every reader.
- `SubnetAssumption` (the smallest prefix is one, and the limit is positive) and
  `DiscoveryAssumption` (there is a worker, and a Mac is a list of interfaces whose
  addresses have `Bits` bits and whose prefixes are at most that, which is what
  `net.Interfaces` and `Mask.Size` return for IPv4).

Where slots, workers or results are counted, the sets are shown to be finite.

Left to TLC: liveness, as the prover handles neither fairness nor ENABLED, and with it
what the properties with `~>` say; and the five violations, which are counterexamples.

## 5. What is not modelled

Cryptography and parsing are computations on bytes. Flags, printing, HTTP methods,
tokens and origin checks decide whether a request is a request at all; the model
starts with valid ones. In `Pairing`, discovery is one step that gives a client the
open window's instance. In `ClientConfig`, spaces, comments and line ends are left out
(readers strip them), and so is a power failure, which may undo a rename; a line
`otherhost_name=` without a value, which readers treat as missing and the migration
does not, is not among the user's lines. `ProjectPage` leaves out searching, opening a
project and what an "unavailable" snapshot shows beside an empty list. How
the advertising side answers a query is left to the client's view of it (`Answer`).

`otherhost-ui` parses flags and wires the parts together; its one path that matters,
the signal that stops the server, is `CloseTerminals`. Key installation is modelled by
its exit status, not by the bytes of `authorized_keys`; a failure may have written the
key. The installers, the
service scripts and the updates (`setup.ps1`, `scripts/*`) are sequential programs over
launchd, systemd, Docker, sshd and the Windows firewall; what could be wrong in
them is what those systems do half-way, which this repository does not say.

## 6. Plan

In order:

1. `TerminalPage` composed with the server's four slots: what a replaced start leaves
   pending, and for how long.
2. `AuthorizedKeys`: the two ways a key is appended, over the lines of the file.
3. The listing script against the deletion script: which listed projects can be deleted.
4. `Maintenance`: update, service and container replacement, the firewall rules of
   pairing mode, with failures between steps.
