------------------------------ MODULE SubnetPlan ------------------------------
(***************************************************************************)
(* localSubnetPlan: which addresses a Mac probes for Windows hosts         *)
(* (src/internal/pairing/discovery.go).                                    *)
(*                                                                         *)
(* An address is a number of Bits bits.  An interface says whether it is   *)
(* scanned (up, broadcast, neither loopback nor point-to-point) and which  *)
(* networks it is in, each the Mac's own address, a prefix length, and     *)
(* whether isLocalNetworkIP holds of the address.                          *)
(***************************************************************************)
EXTENDS Subsequences, Integers, SequencesExt

CONSTANTS Bits,            \* 32
          SmallestPrefix,  \* 24: a larger network is cut down to this one
          MaxCandidates    \* maxSubnetCandidates

ASSUME SubnetAssumption ==
    /\ Bits \in Nat /\ SmallestPrefix \in 0..Bits
    /\ MaxCandidates \in Nat \ {0}

-----------------------------------------------------------------------------
\* The number of addresses that share all but n bits (1 << n).
TwoTo[n \in 0..Bits] == IF n = 0 THEN 1 ELSE 2 * TwoTo[n - 1]

IPNets == [ip : 0..(TwoTo[Bits] - 1), prefix : 0..Bits, local : BOOLEAN]

Interfaces == Seq([scanned : BOOLEAN, networks : Seq(IPNets)])

\* The networks that are looked at, in the order of the interfaces.
Networks(interfaces) ==
    LET Counts(i, net) == interfaces[i].scanned /\ net.local /\ net.prefix <= Bits - 2
        OfInterface(i) ==
          Keep(interfaces[i].networks, {n \in DOMAIN interfaces[i].networks :
                                          Counts(i, interfaces[i].networks[n])})
    IN FlattenSeq([i \in DOMAIN interfaces |-> OfInterface(i)])

\* Faulty variant: the broadcast address is not left out.
HostsToTheEnd(net) ==
    LET prefix    == IF net.prefix < SmallestPrefix THEN SmallestPrefix ELSE net.prefix
        size      == TwoTo[Bits - prefix]
        first     == net.ip - (net.ip % size)
        addresses == [offset \in 1..(size - 1) |-> first + offset]
    IN Keep(addresses, {offset \in DOMAIN addresses : addresses[offset] # net.ip})

\* Between the network's own address and its broadcast address, but for ours.
Hosts(net) ==
    LET prefix    == IF net.prefix < SmallestPrefix THEN SmallestPrefix ELSE net.prefix
        size      == TwoTo[Bits - prefix]
        first     == net.ip - (net.ip % size)
        addresses == [offset \in 1..(size - 2) |-> first + offset]
    IN Keep(addresses, {offset \in DOMAIN addresses : addresses[offset] # net.ip})

\* Addresses that were seen are not added again, nor any past the limit.
Plan(interfaces) ==
    LET networks   == Networks(interfaces)
        candidates == FlattenSeq([n \in DOMAIN networks |-> Hosts(networks[n])])
        unseen     == Keep(candidates, {i \in DOMAIN candidates :
                                          \A j \in 1..(i - 1) : candidates[j] # candidates[i]})
    IN IF Len(unseen) <= MaxCandidates THEN unseen ELSE SubSeq(unseen, 1, MaxCandidates)

-----------------------------------------------------------------------------
(* What a plan should be *)

SameNetwork(a, b, prefix) == a \div TwoTo[Bits - prefix] = b \div TwoTo[Bits - prefix]

\* The addresses of net, or, as the code cuts larger networks down, of its part of the
\* smallest prefix around our own.
Around(net) ==
    {a \in 0..(TwoTo[Bits] - 1) : /\ SameNetwork(a, net.ip, net.prefix)
                                  /\ SameNetwork(a, net.ip, SmallestPrefix)}

Reachable(net) ==
    {a \in Around(net) : a # net.ip /\ (\E b \in Around(net) : b < a)
                                    /\ (\E b \in Around(net) : b > a)}

Wanted(interfaces) ==
    UNION {Reachable(net) : net \in ToSet(Networks(interfaces))}

Apart(interfaces) ==
    \A m, n \in ToSet(Networks(interfaces)) : m # n => Around(m) \cap Around(n) = {}

\* An address of a network is left out: it is our own, or the first or the last one.
LeftOut(plan, net) == ToSet(plan) \cap Around(net) \subseteq Reachable(net)

\* No address twice, none past the limit, and none that is not, in at least one of the
\* networks, neither our own nor the first or last; all of those unless the limit was
\* reached.  Where networks overlap, what one of them leaves out may be wanted in
\* another; where none do, our own addresses and the first and last of every network
\* are left out.
IsSubnetPlan(plan, interfaces) ==
    /\ IsInjective(plan) /\ Len(plan) <= MaxCandidates
    /\ ToSet(plan) \subseteq Wanted(interfaces)
    /\ Len(plan) < MaxCandidates => ToSet(plan) = Wanted(interfaces)
    /\ Apart(interfaces) => \A net \in ToSet(Networks(interfaces)) : LeftOut(plan, net)
=============================================================================
