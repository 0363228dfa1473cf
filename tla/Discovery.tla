------------------------------- MODULE Discovery -------------------------------
(***************************************************************************)
(* How a Mac searches for Windows hosts: a multicast query first, and then *)
(* a pool of workers that probes the addresses of the local subnet         *)
(* (src/internal/pairing/discovery.go).                                    *)
(*                                                                         *)
(* jobs is an unbuffered channel, so handing out a job is one step of the  *)
(* producer and a worker.  A job is the place of an address in the plan.   *)
(* results has room for one result per worker.  A device is its address:   *)
(* the key that removes duplicates contains it.                            *)
(***************************************************************************)
EXTENDS SubnetPlan, FiniteSets

CONSTANTS Macs,        \* what net.Interfaces may return
          Devices,     \* addresses of Windows machines in pairing mode
          MaxWorkers   \* maxConcurrentProbes

ASSUME DiscoveryAssumption ==
    /\ MaxWorkers \in Nat \ {0}
    /\ Macs \subseteq Interfaces

VARIABLES
    stage,      \* of DiscoverDevices: "multicast", "probing" or "returned"
    expired,    \* ctx.Done of the caller's context
    found,      \* devices Discover collected
    interfaces, \* of the Mac
    plan,       \* plan.candidates
    next,       \* the first job that the producer has not handed out
    jobsOpen,   \* jobs is not closed
    worker,     \* what each worker does, with which address and outcome
    results,    \* contents of the results channel
    resultsOpen,
    attempted,  \* jobs whose result the collector took
    devices,    \* what discoverAtAddresses returns
    dropped     \* history: jobs whose result a worker gave up as the context ended

search == <<stage, expired, found, interfaces, plan>>
pool   == <<next, jobsOpen, worker, results, resultsOpen>>
vars   == <<search, pool, attempted, devices, dropped>>

-----------------------------------------------------------------------------
Workers == 1..MaxWorkers
Jobs    == DOMAIN plan

\* Unreachable addresses and invalid responses differ in what is logged only.
Outcomes == {"none", "compatible"}
Results  == [job : Jobs, outcome : Outcomes]

Taking == [at |-> "taking"]
Done   == [at |-> "done"]
WorkerStates == {Taking, Done} \cup [at : {"probing"}, job : Jobs]
                               \cup [at : {"sending"}, result : Results]

TypeOK ==
    /\ stage \in {"multicast", "probing", "returned"}
    /\ expired \in BOOLEAN
    /\ found \in SUBSET Devices
    /\ interfaces \in Macs /\ plan \in Seq(Int) /\ next \in 1..(Len(plan) + 1)
    /\ jobsOpen \in BOOLEAN /\ resultsOpen \in BOOLEAN
    /\ worker \in [Workers -> WorkerStates]
    /\ results \in SUBSET Results
    /\ attempted \in SUBSET Jobs /\ dropped \in SUBSET Jobs
    /\ devices \in SUBSET Int

Init ==
    /\ stage = "multicast" /\ expired = FALSE /\ found = {}
    /\ interfaces \in Macs /\ plan = <<>> /\ next = 1 /\ jobsOpen = TRUE
    /\ worker = [w \in Workers |-> Done]
    /\ results = {} /\ resultsOpen = TRUE
    /\ attempted = {} /\ devices = {} /\ dropped = {}

-----------------------------------------------------------------------------
(* Discover and DiscoverDevices *)

\* The caller's deadline, or Ctrl-C.
Expire ==
    /\ ~expired /\ stage # "returned"
    /\ expired' = TRUE
    /\ UNCHANGED <<stage, found, interfaces, plan, pool, attempted, devices, dropped>>

\* A host that serves advertisements answers the query with our nonce; answers
\* that come twice fall under the same key.
Answer(a) ==
    /\ stage = "multicast"
    /\ found' = found \cup {a}
    /\ UNCHANGED <<stage, expired, interfaces, plan, pool, attempted, devices, dropped>>

\* The multicast search found devices.  Or it found none, or failed, and there is
\* nothing to probe: the context has ended, the Mac has no network that counts, or its
\* interfaces cannot be read.
EndSearch ==
    /\ stage = "multicast"
    /\ \/ found # {} /\ UNCHANGED found
       \/ found' = {}
    /\ stage' = "returned"
    /\ UNCHANGED <<expired, interfaces, plan, pool, attempted, devices, dropped>>

\* The multicast search found nothing, or failed.  No more workers are started than
\* there are addresses.
BeginProbing ==
    /\ stage = "multicast" /\ ~expired /\ Plan(interfaces) # <<>>
    /\ stage' = "probing" /\ found' = {}
    /\ plan' = Plan(interfaces)
    /\ worker' = [w \in Workers |-> IF w <= Len(plan') THEN Taking ELSE Done]
    /\ UNCHANGED <<expired, interfaces, next, jobsOpen, results, resultsOpen,
                   attempted, devices, dropped>>

-----------------------------------------------------------------------------
(* discoverAtAddresses *)

Probing == stage = "probing"

Become(w, state) == worker' = [worker EXCEPT ![w] = state]

\* Faulty variant: the job stays with the producer.
HandOutAgain(w) ==
    /\ Probing /\ jobsOpen /\ next <= Len(plan) /\ worker[w] = Taking
    /\ Become(w, [at |-> "probing", job |-> next])
    /\ UNCHANGED <<search, next, jobsOpen, results, resultsOpen, attempted, devices, dropped>>

HandOut(w) ==
    /\ Probing /\ jobsOpen /\ next <= Len(plan) /\ worker[w] = Taking
    /\ next' = next + 1
    /\ Become(w, [at |-> "probing", job |-> next])
    /\ UNCHANGED <<search, jobsOpen, results, resultsOpen, attempted, devices, dropped>>

StopProducing ==
    /\ Probing /\ jobsOpen /\ (next > Len(plan) \/ expired)
    /\ jobsOpen' = FALSE
    /\ UNCHANGED <<search, next, worker, results, resultsOpen, attempted, devices, dropped>>

\* probeDevice: a request with a timeout of half a second.
Probe(w) ==
    /\ Probing /\ worker[w].at = "probing"
    /\ \E outcome \in Outcomes :
         /\ outcome = "compatible" => plan[worker[w].job] \in Devices
         /\ Become(w, [at |-> "sending",
                       result |-> [job |-> worker[w].job, outcome |-> outcome]])
    /\ UNCHANGED <<search, next, jobsOpen, results, resultsOpen, attempted, devices, dropped>>

Capacity == IF Len(plan) < MaxWorkers THEN Len(plan) ELSE MaxWorkers

Send(w) ==
    /\ Probing /\ worker[w].at = "sending"
    /\ Cardinality(results) < Capacity
    /\ results' = results \cup {worker[w].result}
    /\ Become(w, Taking)
    /\ UNCHANGED <<search, next, jobsOpen, resultsOpen, attempted, devices, dropped>>

\* Faulty variant: a worker drops a result because the channel is full.
GiveUpWhenFull(w) ==
    /\ Probing /\ worker[w].at = "sending"
    /\ Cardinality(results) = Capacity
    /\ dropped' = dropped \cup {worker[w].result.job}
    /\ Become(w, Done)
    /\ UNCHANGED <<search, next, jobsOpen, results, resultsOpen, attempted, devices>>

\* The other case of the worker's select.
GiveUp(w) ==
    /\ Probing /\ worker[w].at = "sending" /\ expired
    /\ dropped' = dropped \cup {worker[w].result.job}
    /\ Become(w, Done)
    /\ UNCHANGED <<search, next, jobsOpen, results, resultsOpen, attempted, devices>>

\* The worker's range over jobs ends.
NoMoreJobs(w) ==
    /\ Probing /\ worker[w] = Taking /\ ~jobsOpen
    /\ Become(w, Done)
    /\ UNCHANGED <<search, next, jobsOpen, results, resultsOpen, attempted, devices, dropped>>

\* Faulty variants: the channel is closed with the producer, or only when every
\* address has a result.
CloseResultsWhenComplete ==
    /\ Probing /\ resultsOpen /\ attempted = Jobs
    /\ resultsOpen' = FALSE
    /\ UNCHANGED <<search, next, jobsOpen, worker, results, attempted, devices, dropped>>

CloseResultsEarly ==
    /\ Probing /\ resultsOpen /\ ~jobsOpen
    /\ resultsOpen' = FALSE
    /\ UNCHANGED <<search, next, jobsOpen, worker, results, attempted, devices, dropped>>

\* workers.Wait, then close(results).
CloseResults ==
    /\ Probing /\ resultsOpen /\ \A w \in Workers : worker[w] = Done
    /\ resultsOpen' = FALSE
    /\ UNCHANGED <<search, next, jobsOpen, worker, results, attempted, devices, dropped>>

\* Faulty variant: an address is filed where its job belongs.
CollectAddress(r) ==
    /\ Probing /\ r \in results
    /\ results' = results \ {r}
    /\ attempted' = attempted \cup {plan[r.job]}
    /\ devices' = IF r.outcome = "compatible" THEN devices \cup {plan[r.job]} ELSE devices
    /\ UNCHANGED <<search, next, jobsOpen, worker, resultsOpen, dropped>>

\* The collector's range over results.
Collect(r) ==
    /\ Probing /\ r \in results
    /\ results' = results \ {r}
    /\ attempted' = attempted \cup {r.job}
    /\ devices' = IF r.outcome = "compatible" THEN devices \cup {plan[r.job]} ELSE devices
    /\ UNCHANGED <<search, next, jobsOpen, worker, resultsOpen, dropped>>

Return ==
    /\ Probing /\ ~resultsOpen /\ results = {}
    /\ stage' = "returned"
    /\ UNCHANGED <<expired, found, interfaces, plan, pool, attempted, devices, dropped>>

Pool == \/ StopProducing \/ CloseResults \/ Return
        \/ \E r \in results : Collect(r)
        \/ \E w \in Workers : \/ HandOut(w) \/ Probe(w) \/ Send(w) \/ GiveUp(w)
                              \/ NoMoreJobs(w)

EndMulticast == EndSearch \/ BeginProbing

Next == Expire \/ EndMulticast \/ (\E a \in Devices : Answer(a)) \/ Pool

\* The goroutines run, the multicast search and each probe have deadlines.
Spec == Init /\ [][Next]_vars /\ WF_vars(EndMulticast) /\ WF_vars(Pool)

-----------------------------------------------------------------------------
(* Properties *)

\* The job a worker holds.
HoldsJob(w, job) ==
    \/ worker[w].at = "probing" /\ worker[w].job = job
    \/ worker[w].at = "sending" /\ worker[w].result.job = job

\* Where a job is: with the producer, a worker, the channel, the collector, or
\* given up.
Places(job) ==
    {<<"producer", 0>> : p \in {p \in {next} : p <= job}}
      \cup {<<"worker", w>> : w \in {w \in Workers : HoldsJob(w, job)}}
      \cup {<<"channel", r.outcome>> : r \in {r \in results : r.job = job}}
      \cup {<<"collector", 0>> : j \in {job} \cap attempted}
      \cup {<<"dropped", 0>> : j \in {job} \cap dropped}

\* Every address of the plan is in exactly one place.  So none is probed twice and
\* none disappears, in whatever order goroutines run and the context ends.
EveryAddressIsSomewhere ==
    \A job \in Jobs : \E place \in Places(job) : Places(job) = {place}

\* A search that was not cut short has a result for every address of the plan
\* ("direct discovery completed n/n probe(s)").
CompleteUnlessExpired ==
    stage = "returned" /\ found = {} /\ ~expired => attempted = Jobs

\* results is closed only when nobody can send on it any more (a send on a closed
\* channel would end the program).
ClosedIsQuiet ==
    ~resultsOpen => \A w \in Workers : worker[w].at \notin {"probing", "sending"}

\* What is probed is the hosts of the Mac's networks, of the larger ones the part of the
\* smallest prefix around the Mac, whatever interfaces the Mac has, up to the limit:
\* "probes pairing port only on addresses in its local IPv4 subnet".  A network one bit
\* larger is cut like any other, although the comment at discovery.go:316 says that a
\* /23 keeps its prefix.
ProbesAreLocal == Probing => IsSubnetPlan(plan, interfaces)

\* What the pool has still to do: for its jobs, by where they are, for workers that
\* wait for one, and for the channels and the return.
WorkersAt(place) == Cardinality({w \in Workers : worker[w].at = place})
OneIf(condition) == IF condition THEN 1 ELSE 0

JobsLeft == 4 * (Len(plan) + 1 - next) + 4 * WorkersAt("probing")
              + 3 * WorkersAt("sending") + Cardinality(results)
EndsLeft == OneIf(jobsOpen) + OneIf(resultsOpen) + OneIf(Probing)

StepsLeft == JobsLeft + WorkersAt("taking") + EndsLeft

\* Every step of the pool brings its end nearer: goroutines that hand addresses to each
\* other never go round in circles.
PoolProgresses ==
    [][Probing /\ expired' = expired => StepsLeft' \in 0..(StepsLeft - 1)]_vars

\* The search ends, whenever its context does and however full the channel is.
SearchReturns == <>(stage = "returned")
=============================================================================
