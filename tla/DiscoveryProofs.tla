---------------------------- MODULE DiscoveryProofs ----------------------------
(***************************************************************************)
(* Theorems about SubnetPlan and Discovery for every Mac, however many     *)
(* interfaces and networks it has, every set of devices and any number of  *)
(* workers.  The first part is arithmetic and what the plan is; the pool's *)
(* proofs need of it only that it is a sequence of addresses.              *)
(***************************************************************************)
EXTENDS Discovery, SubsequencesProofs, FiniteSetTheorems

-----------------------------------------------------------------------------
(* The plan *)

\* TwoTo is a recursive function: the powers of two, up to that of the number of bits,
\* solve its equation, and nothing else does.
LEMMA TwoToIs ==
    /\ TwoTo \in [0..Bits -> Nat \ {0}] /\ TwoTo[0] = 1
    /\ \A n \in 1..Bits : TwoTo[n] = 2 * TwoTo[n - 1]
<1> DEFINE Step(G, n) == IF n = 0 THEN 1 ELSE 2 * G[n - 1]
           Solves(G) == G = [n \in 0..Bits |-> Step(G, n)]
           T == {m \in 0..Bits : \E G \in [0..m -> Nat \ {0}] : \A n \in 0..m : G[n] = Step(G, n)}
<1>0. Bits \in Nat
  BY SubnetAssumption
<1>1. 0 \in T
  <2> DEFINE G == [n \in 0..0 |-> 1]
  <2>1. G \in [0..0 -> Nat \ {0}] /\ \A n \in 0..0 : G[n] = Step(G, n)
    OBVIOUS
  <2>2. 0 \in 0..Bits
    BY <1>0
  <2> HIDE DEF G, Step
  <2> QED
    BY <2>1, <2>2
<1>2. ASSUME NEW m \in 1..Bits, m - 1 \in T PROVE m \in T
  <2>1. PICK G \in [0..(m - 1) -> Nat \ {0}] : \A n \in 0..(m - 1) : G[n] = Step(G, n)
    BY <1>2
  <2> DEFINE H == [n \in 0..m |-> IF n = m THEN Step(G, m) ELSE G[n]]
  <2>2. Step(G, m) \in Nat \ {0}
    <3>1. m - 1 \in 0..(m - 1) /\ m # 0
      BY <1>0
    <3>2. G[m - 1] \in Nat \ {0}
      BY <2>1, <3>1
    <3> QED
      BY <3>1, <3>2
  <2>3. H \in [0..m -> Nat \ {0}]
    <3> HIDE DEF Step
    <3>1. \A n \in 0..m : n # m => n \in 0..(m - 1)
      BY <1>0
    <3> QED
      BY <2>1, <2>2, <3>1
  <2>4. ASSUME NEW n \in 0..m PROVE H[n] = Step(H, n)
    <3>1. CASE n = m
      <4>1. n # 0 /\ n - 1 \in 0..m /\ n - 1 # m
        BY <1>0, <3>1
      <4>2. H[n - 1] = G[n - 1] /\ H[n] = Step(G, n)
        BY <3>1, <4>1
      <4> QED
        BY <4>1, <4>2
    <3>2. CASE n # m
      <4>1. n \in 0..(m - 1) /\ H[n] = G[n] /\ (n # 0 => n - 1 \in 0..m /\ n - 1 # m)
        BY <1>0, <3>2
      <4>2. n # 0 => H[n - 1] = G[n - 1]
        BY <4>1
      <4> QED
        BY <2>1, <4>1, <4>2
    <3> QED
      BY <3>1, <3>2
  <2>5. m \in 0..Bits
    BY <1>0
  <2>6. \E K \in [0..m -> Nat \ {0}] : \A n \in 0..m : K[n] = Step(K, n)
    <3> HIDE DEF H, Step
    <3> QED
      BY <2>3, <2>4
  <2> HIDE DEF Step
  <2> QED
    BY <2>5, <2>6
<1>3. PICK G \in [0..Bits -> Nat \ {0}] : \A n \in 0..Bits : G[n] = Step(G, n)
  <2> HIDE DEF T
  <2>1. \A n \in 0..Bits : n \in T
    BY <1>0, <1>1, <1>2, UptoInduction
  <2>2. Bits \in T
    BY <1>0, <2>1
  <2> HIDE DEF Step
  <2> QED
    BY <2>2 DEF T
<1>4. Solves(G)
  <2> HIDE DEF Step
  <2> QED
    BY <1>3
<1>5. TwoTo = CHOOSE H : Solves(H)
  BY DEF TwoTo
<1>6. Solves(TwoTo)
  <2> HIDE DEF Solves
  <2> QED
    BY <1>4, <1>5
<1>7. \A n \in 0..Bits : TwoTo[n] = Step(TwoTo, n)
  <2> HIDE DEF Step
  <2> QED
    BY <1>6
<1> DEFINE U == {n \in 0..Bits : TwoTo[n] = G[n]}
<1>8. 0 \in U
  BY <1>0, <1>3, <1>7
<1>9. ASSUME NEW n \in 1..Bits, n - 1 \in U PROVE n \in U
  BY <1>0, <1>3, <1>7, <1>9
<1> HIDE DEF U
<1>10. \A n \in 0..Bits : n \in U
  BY <1>0, <1>8, <1>9, UptoInduction
<1>11. \A n \in 0..Bits : TwoTo[n] \in Nat \ {0}
  BY <1>3, <1>10 DEF U
<1>12. TwoTo \in [0..Bits -> Nat \ {0}]
  <2> HIDE DEF Step
  <2> QED
    BY <1>6, <1>11
<1> QED
  BY <1>0, <1>7, <1>12

\* A larger block of addresses is a whole number of smaller ones.
LEMMA Divides ==
    ASSUME NEW m \in 0..Bits, NEW n \in m..Bits
    PROVE  \E k \in Nat \ {0} : TwoTo[n] = k * TwoTo[m]
<1> DEFINE T == {i \in 0..(Bits - m) : \E k \in Nat \ {0} : TwoTo[m + i] = k * TwoTo[m]}
<1>0. Bits \in Nat /\ Bits - m \in Nat
  BY SubnetAssumption
<1>1. 0 \in T
  <2>1. TwoTo[m] \in Nat
    BY TwoToIs
  <2>2. TwoTo[m + 0] = 1 * TwoTo[m]
    BY <1>0, <2>1
  <2> QED
    BY <1>0, <2>2
<1>2. ASSUME NEW i \in 1..(Bits - m), i - 1 \in T PROVE i \in T
  <2>1. PICK k \in Nat \ {0} : TwoTo[m + (i - 1)] = k * TwoTo[m]
    BY <1>2
  <2>2. m + i \in 1..Bits /\ (m + i) - 1 = m + (i - 1)
    BY <1>0
  <2>3. TwoTo[m + i] = 2 * TwoTo[m + (i - 1)]
    BY <2>2, TwoToIs
  <2>4. TwoTo[m] \in Nat
    BY TwoToIs
  <2>5. TwoTo[m + i] = (2 * k) * TwoTo[m] /\ 2 * k \in Nat \ {0}
    BY <2>1, <2>3, <2>4
  <2>6. i \in 0..(Bits - m)
    BY <1>0
  <2> QED
    BY <2>5, <2>6
<1> HIDE DEF T
<1>3. \A i \in 0..(Bits - m) : i \in T
  BY <1>0, <1>1, <1>2, UptoInduction
<1>4. n - m \in T /\ m + (n - m) = n
  BY <1>0, <1>3
<1> QED
  BY <1>4 DEF T

\* Division with remainder, and that its quotient is the only one.
LEMMA Quotient ==
    ASSUME NEW a \in Nat, NEW s \in Nat \ {0}
    PROVE  /\ a \div s \in Nat /\ a % s \in 0..(s - 1)
           /\ a = s * (a \div s) + (a % s)
           /\ \A q \in Nat : q * s <= a /\ a < q * s + s => a \div s = q
OBVIOUS

\* Dividing by a product is dividing twice.
LEMMA NestedQuotient ==
    ASSUME NEW a \in Nat, NEW s \in Nat \ {0}, NEW k \in Nat \ {0}
    PROVE  a \div (k * s) = (a \div s) \div k
OBVIOUS

\* Addresses that share more bits share fewer.
LEMMA SameInLarger ==
    ASSUME NEW a \in Nat, NEW b \in Nat, NEW p \in 0..Bits, NEW q \in 0..p,
           SameNetwork(a, b, p)
    PROVE  SameNetwork(a, b, q)
<1>1. Bits - p \in 0..Bits /\ Bits - q \in (Bits - p)..Bits
  BY SubnetAssumption
<1>2. PICK k \in Nat \ {0} : TwoTo[Bits - q] = k * TwoTo[Bits - p]
  BY <1>1, Divides
<1>3. TwoTo[Bits - p] \in Nat \ {0}
  BY <1>1, TwoToIs
<1>4. /\ a \div TwoTo[Bits - q] = (a \div TwoTo[Bits - p]) \div k
      /\ b \div TwoTo[Bits - q] = (b \div TwoTo[Bits - p]) \div k
  BY <1>2, <1>3, NestedQuotient
<1> QED
  BY <1>4 DEF SameNetwork

\* The addresses that count around the Mac's own are a block of consecutive ones, as many
\* as the network or the smallest prefix leaves.
LEMMA AroundIs ==
    ASSUME NEW net \in IPNets
    PROVE  LET prefix == IF net.prefix < SmallestPrefix THEN SmallestPrefix ELSE net.prefix
               size   == TwoTo[Bits - prefix]
               first  == net.ip - (net.ip % size)
           IN /\ size \in Nat \ {0} /\ first \in Nat
              /\ Around(net) = first..(first + size - 1)
<1> DEFINE prefix == IF net.prefix < SmallestPrefix THEN SmallestPrefix ELSE net.prefix
           size   == TwoTo[Bits - prefix]
           first  == net.ip - (net.ip % size)
           quotient == net.ip \div size
<1>1. /\ Bits \in Nat /\ TwoTo[Bits] \in Nat \ {0}
      /\ net.ip \in Nat /\ net.ip < TwoTo[Bits] /\ net.prefix \in 0..Bits
  <2>1. Bits \in Nat /\ TwoTo[Bits] \in Nat \ {0}
    BY SubnetAssumption, TwoToIs
  <2> QED
    BY <2>1 DEF IPNets
<1>2. /\ prefix \in 0..Bits /\ net.prefix \in 0..prefix /\ SmallestPrefix \in 0..prefix
      /\ prefix = net.prefix \/ prefix = SmallestPrefix
  BY <1>1, SubnetAssumption
<1> HIDE DEF prefix
<1>3. Bits - prefix \in 0..Bits /\ size \in Nat \ {0}
  BY <1>1, <1>2, TwoToIs
<1>4. PICK k \in Nat \ {0} : TwoTo[Bits] = k * size
  <2>1. Bits \in (Bits - prefix)..Bits
    BY <1>1, <1>3
  <2> QED
    BY <1>3, <2>1, Divides
<1> HIDE DEF size
<1>5. /\ quotient \in Nat /\ first = size * quotient /\ first \in Nat
      /\ quotient * size = first
  <2>1. /\ quotient \in Nat /\ net.ip % size \in 0..(size - 1)
        /\ net.ip = size * quotient + (net.ip % size)
    BY <1>1, <1>3, Quotient
  <2> HIDE DEF quotient
  <2>2. size * quotient \in Nat /\ size * quotient = quotient * size
    BY <1>3, <2>1
  <2> QED
    BY <1>1, <2>1, <2>2
<1>6. first + size <= TwoTo[Bits]
  <2>1. first <= net.ip
    BY <1>1, <1>3, Quotient
  <2> HIDE DEF quotient, first
  <2>2. quotient * size < k * size
    BY <1>1, <1>3, <1>4, <1>5, <2>1
  <2>3. quotient < k
    BY <1>3, <1>4, <1>5, <2>2
  <2>4. quotient * size + size <= k * size
    BY <1>3, <1>4, <1>5, <2>3
  <2> QED
    BY <1>4, <1>5, <2>4
<1>7. ASSUME NEW a \in Nat PROVE a \div size = quotient <=> a \in first..(first + size - 1)
  <2>1. a \div size \in Nat /\ a % size \in 0..(size - 1) /\ a = size * (a \div size) + (a % size)
    BY <1>3, Quotient
  <2>2. a \div size = quotient => a \in first..(first + size - 1)
    <3> HIDE DEF quotient, first
    <3> QED
      BY <1>3, <1>5, <2>1
  <2>3. a \in first..(first + size - 1) => a \div size = quotient
    <3> HIDE DEF quotient, first
    <3>1. a \in first..(first + size - 1) => quotient * size <= a /\ a < quotient * size + size
      BY <1>3, <1>5
    <3> QED
      BY <1>3, <1>5, <3>1, Quotient
  <2> QED
    BY <2>2, <2>3
<1>8. ASSUME NEW a \in Nat
      PROVE  SameNetwork(a, net.ip, net.prefix) /\ SameNetwork(a, net.ip, SmallestPrefix)
               <=> a \div size = quotient
  <2>1. SameNetwork(a, net.ip, prefix) <=> a \div size = quotient
    BY DEF SameNetwork, size
  <2>2. SameNetwork(a, net.ip, prefix)
          => SameNetwork(a, net.ip, net.prefix) /\ SameNetwork(a, net.ip, SmallestPrefix)
    BY <1>1, <1>2, SameInLarger
  <2> QED
    BY <1>2, <2>1, <2>2
<1> HIDE DEF first, quotient
<1>9. Around(net) = first..(first + size - 1)
  <2>1. ASSUME NEW a \in Around(net) PROVE a \in first..(first + size - 1)
    <3>1. a \in Nat /\ SameNetwork(a, net.ip, net.prefix) /\ SameNetwork(a, net.ip, SmallestPrefix)
      BY DEF Around
    <3> QED
      BY <1>7, <1>8, <3>1
  <2>2. ASSUME NEW a \in first..(first + size - 1) PROVE a \in Around(net)
    <3>1. a \in Nat /\ a \in 0..(TwoTo[Bits] - 1)
      BY <1>1, <1>3, <1>5, <1>6
    <3>2. SameNetwork(a, net.ip, net.prefix) /\ SameNetwork(a, net.ip, SmallestPrefix)
      BY <1>7, <1>8, <3>1
    <3> QED
      BY <3>1, <3>2 DEF Around
  <2> QED
    BY <2>1, <2>2
<1> QED
  BY <1>3, <1>5, <1>9 DEF first, size, prefix

\* What is probed of a network are the addresses between its first and its last, but for
\* the Mac's own.
LEMMA HostsAre ==
    ASSUME NEW net \in IPNets
    PROVE  Hosts(net) \in Seq(Int) /\ ToSet(Hosts(net)) = Reachable(net)
<1> DEFINE prefix == IF net.prefix < SmallestPrefix THEN SmallestPrefix ELSE net.prefix
           size   == TwoTo[Bits - prefix]
           first  == net.ip - (net.ip % size)
           addresses == [offset \in 1..(size - 2) |-> first + offset]
           places == {offset \in DOMAIN addresses : addresses[offset] # net.ip}
<1>1. size \in Nat \ {0} /\ first \in Nat /\ Around(net) = first..(first + size - 1)
  BY AroundIs
<1>2. Hosts(net) = Keep(addresses, places)
  BY DEF Hosts
<1> HIDE DEF size, first
<1> DEFINE m == IF size > 2 THEN size - 2 ELSE 0
<1>3. m \in Nat /\ 1..(size - 2) = 1..m
  BY <1>1
<1>4. /\ addresses \in Seq(Int) /\ Len(addresses) = m
      /\ \A offset \in 1..m : addresses[offset] = first + offset
      /\ places = {offset \in 1..m : first + offset # net.ip}
  <2> HIDE DEF m
  <2>1. addresses \in [1..m -> Int]
    BY <1>1, <1>3
  <2>2. \A offset \in 1..m : addresses[offset] = first + offset
    BY <1>3
  <2>3. addresses \in Seq(Int) /\ DOMAIN addresses = 1..m
    <3> HIDE DEF addresses
    <3> QED
      BY <1>3, <2>1
  <2>4. Len(addresses) = m
    <3> HIDE DEF addresses
    <3> QED
      BY <1>3, <2>3
  <2>5. places = {offset \in 1..m : first + offset # net.ip}
    <3> HIDE DEF addresses
    <3> QED
      BY <2>2, <2>3
  <2> HIDE DEF addresses, places
  <2> QED
    BY <2>2, <2>3, <2>4, <2>5
<1> HIDE DEF addresses, places
<1>5. Hosts(net) \in Seq(Int) /\ ToSet(Hosts(net)) = ElementsAt(addresses, places, m)
  BY <1>2, <1>4, KeepType, KeepElements
<1>6. ElementsAt(addresses, places, m) = {first + offset : offset \in {n \in 1..m : first + n # net.ip}}
  BY <1>4 DEF ElementsAt
<1>7. ASSUME NEW a
      PROVE  a \in Reachable(net) <=> a \in {first + offset : offset \in {n \in 1..m : first + n # net.ip}}
  <2>1. ASSUME a \in Reachable(net) PROVE a - first \in 1..m /\ a = first + (a - first) /\ a # net.ip
    BY <1>1, <2>1 DEF Reachable
  <2>2. ASSUME NEW n \in 1..m, a = first + n, a # net.ip PROVE a \in Reachable(net)
    <3>1. a \in Around(net) /\ first \in Around(net) /\ first < a
      BY <1>1, <2>2
    <3>2. first + size - 1 \in Around(net) /\ first + size - 1 > a
      BY <1>1, <2>2
    <3> QED
      BY <2>2, <3>1, <3>2 DEF Reachable
  <2> QED
    BY <2>1, <2>2
<1> QED
  BY <1>5, <1>6, <1>7

\* The networks that count are networks of the Mac.
LEMMA NetworksType ==
    ASSUME NEW mac \in Interfaces
    PROVE  Networks(mac) \in Seq(IPNets)
<1> DEFINE Counting(i) ==
             Keep(mac[i].networks,
                  {n \in DOMAIN mac[i].networks :
                     /\ mac[i].scanned /\ mac[i].networks[n].local
                     /\ mac[i].networks[n].prefix <= Bits - 2})
           seqs == [i \in DOMAIN mac |-> Counting(i)]
<1>1. Networks(mac) = FlattenSeq(seqs)
  BY DEF Networks
<1>2. DOMAIN mac = 1..Len(mac) /\ Len(mac) \in Nat
  BY DEF Interfaces
<1>3. ASSUME NEW i \in 1..Len(mac) PROVE Counting(i) \in Seq(IPNets)
  <2> DEFINE S == [scanned : BOOLEAN, networks : Seq(IPNets)]
  <2>1. \A any \in S : any.networks \in Seq(IPNets)
    OBVIOUS
  <2>2. mac[i] \in S
    <3>1. mac \in Seq(S)
      BY DEF Interfaces
    <3> HIDE DEF S, Counting, seqs
    <3> QED
      BY <1>2, <3>1
  <2>3. mac[i].networks \in Seq(IPNets)
    <3> HIDE DEF S, Counting, seqs
    <3> QED
      BY <2>1, <2>2
  <2> QED
    BY <2>3, KeepType
<1> HIDE DEF Counting
<1>4. seqs \in Seq(Seq(IPNets))
  BY <1>2, <1>3
<1> HIDE DEF seqs
<1> QED
  BY <1>1, <1>4, FlattenElements

\* Where networks do not overlap, what is wanted in one of them is left out by none.
LEMMA ApartLeavesOut ==
    ASSUME NEW probed, NEW mac, ToSet(probed) \subseteq Wanted(mac), Apart(mac),
           NEW net \in ToSet(Networks(mac))
    PROVE  LeftOut(probed, net)
<1> SUFFICES ASSUME NEW a \in ToSet(probed), a \in Around(net)
             PROVE  a \in Reachable(net)
  BY DEF LeftOut
<1>1. PICK n \in ToSet(Networks(mac)) : a \in Reachable(n)
  BY DEF Wanted
<1>2. a \in Around(n)
  BY <1>1 DEF Reachable
<1>3. n = net
  BY <1>2 DEF Apart
<1> QED
  BY <1>1, <1>3

\* The plan of every list of interfaces, of any lengths: the hosts of each network, cut
\* down to the smallest prefix, once and up to the limit, and where no two networks
\* overlap none of the Mac's own addresses and no first or last one.
THEOREM PlanIsSubnetPlan ==
    ASSUME NEW mac \in Interfaces
    PROVE  Plan(mac) \in Seq(Int) /\ IsSubnetPlan(Plan(mac), mac)
<1> DEFINE networks == Networks(mac)
           hosts == [n \in DOMAIN networks |-> Hosts(networks[n])]
           candidates == FlattenSeq(hosts)
           unseen == Keep(candidates, {i \in DOMAIN candidates :
                                         \A j \in 1..(i - 1) : candidates[j] # candidates[i]})
           chosen == IF Len(unseen) <= MaxCandidates THEN unseen ELSE SubSeq(unseen, 1, MaxCandidates)
<1>1. Plan(mac) = chosen
  BY DEF Plan
<1>2. networks \in Seq(IPNets)
  BY NetworksType
<1> HIDE DEF networks
<1>3. /\ DOMAIN networks = 1..Len(networks) /\ Len(networks) \in Nat
      /\ \A n \in 1..Len(networks) : networks[n] \in IPNets
  BY <1>2
<1>4. /\ hosts \in Seq(Seq(Int)) /\ Len(hosts) = Len(networks)
      /\ \A n \in 1..Len(networks) : ToSet(hosts[n]) = Reachable(networks[n])
  <2>1. \A n \in 1..Len(networks) :
          Hosts(networks[n]) \in Seq(Int) /\ ToSet(Hosts(networks[n])) = Reachable(networks[n])
    BY <1>3, HostsAre
  <2>2. hosts \in [1..Len(networks) -> Seq(Int)]
    BY <1>3, <2>1
  <2>3. \A n \in 1..Len(networks) : hosts[n] = Hosts(networks[n])
    BY <1>3
  <2> HIDE DEF hosts
  <2>4. hosts \in Seq(Seq(Int)) /\ Len(hosts) = Len(networks)
    BY <1>3, <2>2
  <2> QED
    BY <2>1, <2>3, <2>4
<1> HIDE DEF hosts
<1>5. /\ candidates \in Seq(Int)
      /\ ToSet(candidates) = UNION {ToSet(hosts[n]) : n \in 1..Len(hosts)}
  BY <1>4, FlattenElements
<1> HIDE DEF candidates
<1>6. ToSet(candidates) = Wanted(mac)
  <2>1. Wanted(mac) = UNION {Reachable(net) : net \in ToSet(networks)}
    BY DEF Wanted, networks
  <2>2. ToSet(networks) = {networks[n] : n \in 1..Len(networks)}
    BY <1>3 DEF ToSet
  <2>3. \A a : a \in ToSet(candidates) <=> \E n \in 1..Len(networks) : a \in Reachable(networks[n])
    BY <1>4, <1>5
  <2> QED
    BY <2>1, <2>2, <2>3
<1>7. unseen \in Seq(Int) /\ IsInjective(unseen) /\ ToSet(unseen) = Wanted(mac)
  BY <1>5, <1>6, KeepUnseen
<1> HIDE DEF unseen
<1>8. MaxCandidates \in Nat \ {0} /\ Len(unseen) \in Nat /\ DOMAIN unseen = 1..Len(unseen)
  BY <1>7, SubnetAssumption
<1>9. CASE Len(unseen) <= MaxCandidates
  BY <1>1, <1>7, <1>8, <1>9, ApartLeavesOut DEF IsSubnetPlan
<1>10. CASE ~(Len(unseen) <= MaxCandidates)
  <2>1. /\ chosen \in Seq(Int) /\ Len(chosen) = MaxCandidates /\ DOMAIN chosen = 1..MaxCandidates
        /\ \A i \in 1..MaxCandidates : chosen[i] = unseen[i]
    BY <1>7, <1>8, <1>10
  <2> HIDE DEF chosen
  <2>2. \A i \in 1..MaxCandidates : i \in 1..Len(unseen)
    BY <1>8, <1>10
  <2>3. IsInjective(chosen)
    BY <1>7, <1>8, <2>1, <2>2 DEF IsInjective
  <2>4. ToSet(chosen) \subseteq Wanted(mac)
    BY <1>7, <1>8, <2>1, <2>2 DEF ToSet
  <2> QED
    BY <1>1, <1>8, <2>1, <2>3, <2>4, ApartLeavesOut DEF IsSubnetPlan
<1> QED
  BY <1>9, <1>10

-----------------------------------------------------------------------------
(* The pool *)

\* Before the probing starts the pool is as it was made.
Fresh ==
    stage = "multicast" =>
        /\ plan = <<>> /\ next = 1 /\ jobsOpen /\ resultsOpen
        /\ results = {} /\ attempted = {} /\ dropped = {} /\ devices = {}
        /\ \A w \in Workers : worker[w] = Done

\* A worker, or the channel, has the job.
Held(job) == \E w \in Workers : HoldsJob(w, job)
Sent(job) == \E r \in results : r.job = job

\* Each job is in one place: said of each place against the others.
OnePlace(job) ==
    /\ next <= job \/ Held(job) \/ Sent(job) \/ job \in attempted \/ job \in dropped
    /\ next <= job => ~Held(job) /\ ~Sent(job)
    /\ job \in attempted \cup dropped => next > job /\ ~Held(job) /\ ~Sent(job)
    /\ Held(job) => ~Sent(job)
    /\ ~(job \in attempted /\ job \in dropped)
    /\ \A v, w \in Workers : HoldsJob(v, job) /\ HoldsJob(w, job) => v = w
    /\ \A r, q \in results : r.job = job /\ q.job = job => r = q

\* Why the channels are closed, and what then is over.
Closings ==
    /\ dropped # {} => expired
    /\ ~jobsOpen => expired \/ next > Len(plan)
    /\ Probing /\ worker[1] = Done => ~jobsOpen \/ expired
    /\ ~resultsOpen => \A w \in Workers : worker[w] = Done
    /\ Probing => plan # <<>>
    /\ stage = "returned" => plan = <<>> \/ (~resultsOpen /\ results = {})
    /\ ~expired /\ ~resultsOpen => ~jobsOpen

\* Every job of the plan has its place.
Placed == \A job \in Jobs : OnePlace(job)

\* The inductive invariant.
DiscoveryInv == TypeOK /\ Fresh /\ Placed /\ Closings

-----------------------------------------------------------------------------
\* What the states of a worker are made of.
LEMMA WorkerFacts ==
    /\ Taking \in WorkerStates /\ Done \in WorkerStates
    /\ \A job \in Jobs : [at |-> "probing", job |-> job] \in WorkerStates
    /\ \A r \in Results : [at |-> "sending", result |-> r] \in WorkerStates
    /\ \A state \in WorkerStates :
         /\ state.at = "probing" => state.job \in Jobs
         /\ state.at = "sending" => state.result \in Results
    /\ \A r \in Results : r.job \in Jobs /\ r.outcome \in Outcomes
    /\ \A job \in Jobs, o \in Outcomes : [job |-> job, outcome |-> o] \in Results
BY DEF WorkerStates, Taking, Done, Results

\* What is probed is a sequence of addresses.
LEMMA PlanType == \A mac \in Macs : Plan(mac) \in Seq(Int)
BY PlanIsSubnetPlan, DiscoveryAssumption

\* A step of the pool, in a plan that stays.
LEMMA PoolTypes ==
    ASSUME TypeOK, UNCHANGED search, next' \in Nat, 1 <= next', next' <= Len(plan) + 1,
           jobsOpen' \in BOOLEAN, resultsOpen' \in BOOLEAN,
           worker' \in [Workers -> WorkerStates], results' \in SUBSET Results,
           attempted' \in SUBSET Jobs, dropped' \in SUBSET Jobs, devices' \in SUBSET Int
    PROVE  TypeOK'
<1>1. WorkerStates' = WorkerStates /\ Results' = Results /\ Jobs' = Jobs /\ Len(plan') \in Nat
  BY DEF search, WorkerStates, Results, Jobs, Taking, Done, Outcomes, TypeOK
<1> QED
  BY <1>1 DEF TypeOK, search

\* Every step keeps the types.
LEMMA TypeStep == TypeOK /\ Fresh /\ [Next]_vars => TypeOK'
<1> SUFFICES ASSUME TypeOK, Fresh, [Next]_vars PROVE TypeOK'
  OBVIOUS
<1> USE PlanType DEF search, pool
<1>1. /\ interfaces \in Macs /\ plan \in Seq(Int) /\ Len(plan) \in Nat
      /\ next \in Nat /\ 1 <= next /\ next <= Len(plan) + 1
      /\ jobsOpen \in BOOLEAN /\ resultsOpen \in BOOLEAN
      /\ worker \in [Workers -> WorkerStates] /\ results \in SUBSET Results
      /\ attempted \in SUBSET Jobs /\ dropped \in SUBSET Jobs /\ devices \in SUBSET Int
      /\ Jobs = 1..Len(plan) /\ \A job \in Jobs : plan[job] \in Int
  BY DEF TypeOK, Jobs
<1>2. ASSUME NEW w \in Workers, NEW state \in WorkerStates, Become(w, state)
      PROVE  worker' \in [Workers -> WorkerStates]
  BY <1>1, <1>2 DEF Become
<1>3. CASE UNCHANGED <<plan, pool, attempted, devices, dropped>> /\ stage' \in {"multicast", "probing", "returned"}
           /\ expired' \in BOOLEAN /\ found' \in SUBSET Devices /\ UNCHANGED interfaces
  <2>1. WorkerStates' = WorkerStates /\ Results' = Results /\ Jobs' = Jobs
    BY <1>3 DEF WorkerStates, Results, Jobs, Taking, Done, Outcomes
  <2> QED
    BY <1>3, <2>1 DEF TypeOK
<1>4. CASE Expire
  BY <1>3, <1>4 DEF Expire, TypeOK
<1>5. ASSUME NEW a \in Devices, Answer(a) PROVE TypeOK'
  BY <1>3, <1>5 DEF Answer, TypeOK
<1>6. CASE EndSearch
  BY <1>3, <1>6 DEF EndSearch, TypeOK
<1>7. CASE Return
  BY <1>3, <1>7 DEF Return, TypeOK
<1>8. CASE BeginProbing
  <2>1. /\ Taking \in WorkerStates' /\ Done \in WorkerStates'
    BY WorkerFacts DEF WorkerStates, Taking, Done
  <2>2. worker' \in [Workers -> WorkerStates']
    BY <1>8, <2>1 DEF BeginProbing
  <2>3. /\ plan' \in Seq(Int) /\ Len(plan') \in Nat
        /\ next' = 1 /\ results' = {} /\ attempted' = {} /\ dropped' = {}
    BY <1>8 DEF BeginProbing, Fresh, TypeOK
  <2> QED
    BY <1>8, <2>2, <2>3 DEF BeginProbing, TypeOK
<1>9. CASE StopProducing \/ CloseResults
  BY <1>1, <1>9, PoolTypes DEF StopProducing, CloseResults
<1>10. ASSUME NEW r \in results, Collect(r) PROVE TypeOK'
  <2>1. r.job \in Jobs
    BY <1>1, WorkerFacts
  <2> QED
    BY <1>1, <1>10, <2>1, PoolTypes DEF Collect
<1>11. ASSUME NEW w \in Workers, HandOut(w) PROVE TypeOK'
  <2>1. next \in Jobs /\ next' = next + 1 /\ next' <= Len(plan) + 1
    BY <1>1, <1>11 DEF HandOut
  <2>2. worker' \in [Workers -> WorkerStates]
    BY <1>2, <1>11, <2>1, WorkerFacts DEF HandOut
  <2> QED
    BY <1>1, <1>11, <2>1, <2>2, PoolTypes DEF HandOut
<1>12. ASSUME NEW w \in Workers, Probe(w) PROVE TypeOK'
  <2>1. worker[w].job \in Jobs
    BY <1>1, <1>12, WorkerFacts DEF Probe
  <2>2. worker' \in [Workers -> WorkerStates]
    BY <1>2, <1>12, <2>1, WorkerFacts DEF Probe
  <2> QED
    BY <1>1, <1>12, <2>2, PoolTypes DEF Probe
<1>13. ASSUME NEW w \in Workers, Send(w) \/ GiveUp(w) \/ NoMoreJobs(w) PROVE TypeOK'
  <2>1. worker[w].at = "sending" => worker[w].result \in Results /\ worker[w].result.job \in Jobs
    BY <1>1, WorkerFacts
  <2>2. worker' \in [Workers -> WorkerStates]
    BY <1>2, <1>13, WorkerFacts DEF Send, GiveUp, NoMoreJobs
  <2> QED
    BY <1>1, <1>13, <2>1, <2>2, PoolTypes DEF Send, GiveUp, NoMoreJobs
<1>14. CASE UNCHANGED vars
  BY <1>3, <1>14 DEF vars, TypeOK
<1> QED
  BY <1>4, <1>5, <1>6, <1>7, <1>8, <1>9, <1>10, <1>11, <1>12, <1>13, <1>14
  DEF Next, EndMulticast, Pool

-----------------------------------------------------------------------------
\* The pool does nothing before its plan is made.
LEMMA FreshStep == Fresh /\ [Next]_vars => Fresh'
<1> SUFFICES ASSUME Fresh, [Next]_vars, stage' = "multicast" PROVE Fresh'
  BY DEF Fresh
<1> USE DEF search, pool, Probing
<1>1. UNCHANGED <<plan, pool, attempted, devices, dropped, stage>>
  <2>1. CASE Expire
    BY <2>1 DEF Expire
  <2>2. CASE \E a \in Devices : Answer(a)
    BY <2>2 DEF Answer
  <2>3. CASE EndMulticast
    BY <2>3 DEF EndMulticast, EndSearch, BeginProbing
  <2>4. CASE Pool
    <3>1. Pool => stage = "probing" /\ (stage' = stage \/ stage' = "returned")
      BY DEF Pool, StopProducing, CloseResults, Return, Collect, HandOut, Probe, Send,
             GiveUp, NoMoreJobs
    <3> QED
      BY <2>4, <3>1
  <2>5. CASE UNCHANGED vars
    BY <2>5 DEF vars
  <2> QED
    BY <2>1, <2>2, <2>3, <2>4, <2>5 DEF Next
<1> QED
  BY <1>1 DEF Fresh

\* Each step of the pool moves at most one job, from one place to the next.
LEMMA PlacedStep == DiscoveryInv /\ [Next]_vars => Placed'
<1> SUFFICES ASSUME DiscoveryInv, [Next]_vars PROVE Placed'
  OBVIOUS
<1> USE DEF DiscoveryInv, search, pool, OnePlace, Held, Sent, HoldsJob, Become
<1>1. /\ Placed /\ worker \in [Workers -> WorkerStates] /\ results \in SUBSET Results
      /\ plan \in Seq(Int) /\ Len(plan) \in Nat /\ Jobs = 1..Len(plan)
      /\ next \in Nat /\ attempted \in SUBSET Jobs /\ dropped \in SUBSET Jobs
  BY DEF TypeOK, Jobs
<1>2. CASE UNCHANGED <<plan, next, worker, results, attempted, dropped>>
  BY <1>1, <1>2 DEF Placed, Jobs
<1>3. CASE Expire \/ EndSearch \/ Return \/ UNCHANGED vars
  BY <1>2, <1>3 DEF Expire, EndSearch, Return, vars
<1>4. ASSUME NEW a \in Devices, Answer(a) PROVE Placed'
  BY <1>2, <1>4 DEF Answer
<1>5. CASE BeginProbing
  <2>1. /\ next' = 1 /\ results' = {} /\ attempted' = {} /\ dropped' = {}
        /\ \A w \in Workers : worker'[w] \in {Taking, Done}
    BY <1>5 DEF BeginProbing, Fresh
  <2>2. plan' \in Seq(Int)
    BY <1>5, PlanType DEF BeginProbing, TypeOK
  <2>3. \A job \in Jobs' : job \in Nat /\ 1 <= job
    BY <2>2 DEF Jobs
  <2>4. \A w \in Workers : worker'[w].at \notin {"probing", "sending"}
    BY <2>1 DEF Taking, Done
  <2> QED
    BY <2>1, <2>3, <2>4 DEF Placed
<1>6. CASE StopProducing \/ CloseResults
  BY <1>2, <1>6 DEF StopProducing, CloseResults
<1>7. ASSUME NEW w \in Workers, HandOut(w) PROVE Placed'
  <2>1. /\ next' = next + 1 /\ next \in Jobs /\ Jobs' = Jobs
        /\ worker' = [worker EXCEPT ![w] = [at |-> "probing", job |-> next]]
        /\ worker[w].at = "taking" /\ UNCHANGED <<results, attempted, dropped>>
    <3>1. 1 <= next /\ next <= Len(plan)
      BY <1>7 DEF HandOut, TypeOK
    <3> QED
      BY <1>1, <1>7, <3>1 DEF HandOut, Taking, Jobs
  <2>2. /\ \A job \in Jobs, v \in Workers :
             HoldsJob(v, job)' <=> HoldsJob(v, job) \/ (v = w /\ job = next)
        /\ \A job \in Jobs : ~HoldsJob(w, job)
    BY <1>1, <2>1
  <2>3. OnePlace(next) /\ ~Held(next)
    BY <1>1, <2>1 DEF Placed
  <2> HIDE DEF HoldsJob
  <2> QED
    BY <1>1, <2>1, <2>2, <2>3 DEF Placed
<1>8. ASSUME NEW w \in Workers, Probe(w) PROVE Placed'
  <2>1. /\ Jobs' = Jobs /\ UNCHANGED <<next, results, attempted, dropped>>
    BY <1>8 DEF Probe, Jobs
  <2>2. \A job \in Jobs, v \in Workers : HoldsJob(v, job)' <=> HoldsJob(v, job)
    BY <1>1, <1>8 DEF Probe
  <2> HIDE DEF HoldsJob
  <2> QED
    BY <1>1, <2>1, <2>2 DEF Placed
<1>9. ASSUME NEW w \in Workers, Send(w) PROVE Placed'
  <2> DEFINE r == worker[w].result
  <2>1. /\ r \in Results /\ r.job \in Jobs /\ HoldsJob(w, r.job)
        /\ results' = results \cup {r} /\ Jobs' = Jobs
        /\ worker' = [worker EXCEPT ![w] = Taking] /\ Taking.at = "taking"
        /\ UNCHANGED <<next, attempted, dropped>>
    BY <1>1, <1>9, WorkerFacts DEF Send, Jobs, Taking
  <2>2. \A job \in Jobs, v \in Workers : HoldsJob(v, job)' <=> HoldsJob(v, job) /\ v # w
    BY <1>1, <2>1
  <2>3. \A job \in Jobs : HoldsJob(w, job) <=> job = r.job
    BY <1>9 DEF Send
  <2> HIDE DEF HoldsJob, r
  <2> QED
    BY <1>1, <2>1, <2>2, <2>3 DEF Placed
<1>10. ASSUME NEW w \in Workers, GiveUp(w) PROVE Placed'
  <2> DEFINE r == worker[w].result
  <2>1. /\ r.job \in Jobs /\ HoldsJob(w, r.job)
        /\ dropped' = dropped \cup {r.job} /\ Jobs' = Jobs
        /\ worker' = [worker EXCEPT ![w] = Done] /\ Done.at = "done"
        /\ UNCHANGED <<next, attempted, results>>
    BY <1>1, <1>10, WorkerFacts DEF GiveUp, Jobs, Done
  <2>2. \A job \in Jobs, v \in Workers : HoldsJob(v, job)' <=> HoldsJob(v, job) /\ v # w
    BY <1>1, <2>1
  <2>3. \A job \in Jobs : HoldsJob(w, job) <=> job = r.job
    BY <1>10 DEF GiveUp
  <2> HIDE DEF HoldsJob, r
  <2> QED
    BY <1>1, <2>1, <2>2, <2>3 DEF Placed
<1>11. ASSUME NEW w \in Workers, NoMoreJobs(w) PROVE Placed'
  <2>1. /\ Jobs' = Jobs /\ UNCHANGED <<next, results, attempted, dropped>>
    BY <1>11 DEF NoMoreJobs, Jobs
  <2>2. \A job \in Jobs, v \in Workers : HoldsJob(v, job)' <=> HoldsJob(v, job)
    BY <1>1, <1>11 DEF NoMoreJobs, Taking, Done
  <2> HIDE DEF HoldsJob
  <2> QED
    BY <1>1, <2>1, <2>2 DEF Placed
<1>12. ASSUME NEW r \in results, Collect(r) PROVE Placed'
  <2>1. /\ r.job \in Jobs /\ Sent(r.job) /\ results' = results \ {r}
        /\ attempted' = attempted \cup {r.job} /\ Jobs' = Jobs
        /\ UNCHANGED <<next, worker, dropped>>
    BY <1>1, <1>12, WorkerFacts DEF Collect, Jobs
  <2>2. \A job \in Jobs, v \in Workers : HoldsJob(v, job)' <=> HoldsJob(v, job)
    BY <2>1
  <2> HIDE DEF HoldsJob
  <2> QED
    BY <1>1, <2>1, <2>2 DEF Placed
<1> QED
  BY <1>3, <1>4, <1>5, <1>6, <1>7, <1>8, <1>9, <1>10, <1>11, <1>12
  DEF Next, EndMulticast, Pool

\* Channels are closed when nobody needs them, and stay closed.
LEMMA ClosingsStep == DiscoveryInv /\ [Next]_vars => Closings'
<1> SUFFICES ASSUME DiscoveryInv, [Next]_vars PROVE Closings'
  OBVIOUS
<1> USE DEF DiscoveryInv, Closings, Probing, search, pool, Become
<1>1. /\ worker \in [Workers -> WorkerStates] /\ 1 \in Workers /\ Taking # Done
      /\ Taking.at = "taking" /\ Done.at = "done"
  BY DiscoveryAssumption DEF TypeOK, Workers, Taking, Done
<1>2. CASE Expire \/ EndSearch
  BY <1>1, <1>2 DEF Expire, EndSearch, Fresh
<1>3. ASSUME NEW a \in Devices, Answer(a) PROVE Closings'
  BY <1>1, <1>3 DEF Answer, Fresh
<1>4. CASE BeginProbing
  <2>1. plan' # <<>> /\ plan' \in Seq(Int)
    BY <1>4, PlanType DEF BeginProbing, TypeOK
  <2>2. 1 <= Len(plan')
    BY <2>1
  <2>3. worker'[1] # Done
    BY <1>1, <1>4, <2>2 DEF BeginProbing
  <2> QED
    BY <1>4, <2>1, <2>3 DEF BeginProbing, Fresh
<1>5. CASE StopProducing
  BY <1>1, <1>5 DEF StopProducing
<1>6. CASE CloseResults \/ Return
  BY <1>1, <1>6 DEF CloseResults, Return
<1>7. ASSUME NEW r \in results, Collect(r) PROVE Closings'
  BY <1>1, <1>7 DEF Collect
<1>8. ASSUME NEW w \in Workers, HandOut(w) PROVE Closings'
  BY <1>1, <1>8 DEF HandOut, Done
<1>9. ASSUME NEW w \in Workers, Probe(w) PROVE Closings'
  BY <1>1, <1>9 DEF Probe, Done
<1>10. ASSUME NEW w \in Workers, Send(w) PROVE Closings'
  BY <1>1, <1>10 DEF Send
<1>11. ASSUME NEW w \in Workers, GiveUp(w) PROVE Closings'
  BY <1>1, <1>11 DEF GiveUp
<1>12. ASSUME NEW w \in Workers, NoMoreJobs(w) PROVE Closings'
  BY <1>1, <1>12 DEF NoMoreJobs
<1>13. CASE UNCHANGED vars
  BY <1>13 DEF vars
<1> QED
  BY <1>2, <1>3, <1>4, <1>5, <1>6, <1>7, <1>8, <1>9, <1>10, <1>11, <1>12, <1>13
  DEF Next, EndMulticast, Pool

-----------------------------------------------------------------------------
\* Jobs, channels and workers agree in every state of every behaviour.
THEOREM Invariance == Spec => []DiscoveryInv
<1>1. Init => DiscoveryInv
  <2> SUFFICES ASSUME Init PROVE DiscoveryInv
    OBVIOUS
  <2>1. plan = <<>> /\ Jobs = {} /\ Len(plan) = 0
    BY DEF Init, Jobs
  <2>2. TypeOK
    <3>1. worker \in [Workers -> WorkerStates]
      BY WorkerFacts DEF Init
    <3>2. plan \in Seq(Int) /\ next \in 1..(Len(plan) + 1)
      BY <2>1 DEF Init
    <3> QED
      BY <3>1, <3>2 DEF Init, TypeOK
  <2>3. Fresh /\ Placed /\ Closings
    BY <2>1 DEF Init, Fresh, Placed, Closings, Probing
  <2> QED
    BY <2>2, <2>3 DEF DiscoveryInv
<1>2. DiscoveryInv /\ [Next]_vars => DiscoveryInv'
  BY TypeStep, FreshStep, PlacedStep, ClosingsStep DEF DiscoveryInv
<1> QED
  BY <1>1, <1>2, PTL DEF Spec

\* Every variable keeps its type.
THEOREM TypeCorrect == Spec => []TypeOK
<1>1. DiscoveryInv => TypeOK
  BY DEF DiscoveryInv
<1> QED
  BY <1>1, Invariance, PTL

\* No address of the plan is probed twice, and none is lost.
THEOREM EveryAddressTheorem == Spec => []EveryAddressIsSomewhere
<1>1. DiscoveryInv => EveryAddressIsSomewhere
  <2> SUFFICES ASSUME DiscoveryInv, NEW job \in Jobs
               PROVE  \E place \in Places(job) : Places(job) = {place}
    BY DEF EveryAddressIsSomewhere
  <2> USE DEF Places
  <2>1. OnePlace(job) /\ job \in Nat /\ next \in Nat
    BY DEF DiscoveryInv, Placed, TypeOK, Jobs
  <2>2. CASE next <= job
    <3>1. /\ job \notin attempted /\ job \notin dropped
          /\ \A w \in Workers : ~HoldsJob(w, job)
          /\ \A r \in results : r.job # job
      BY <2>1, <2>2 DEF OnePlace, Held, Sent
    <3>2. Places(job) = {<<"producer", 0>>}
      BY <2>2, <3>1
    <3> QED
      BY <3>2
  <2>3. CASE Held(job)
    <3>1. PICK w \in Workers : HoldsJob(w, job)
      BY <2>3 DEF Held
    <3>2. Places(job) = {<<"worker", w>>}
      BY <2>1, <3>1 DEF OnePlace, Held, Sent
    <3> QED
      BY <3>2
  <2>4. CASE Sent(job)
    <3>1. PICK r \in results : r.job = job
      BY <2>4 DEF Sent
    <3>2. Places(job) = {<<"channel", r.outcome>>}
      BY <2>1, <3>1 DEF OnePlace, Held, Sent
    <3> QED
      BY <3>2
  <2>5. CASE job \in attempted
    <3>1. /\ ~(next <= job) /\ job \notin dropped
          /\ \A w \in Workers : ~HoldsJob(w, job)
          /\ \A r \in results : r.job # job
      BY <2>1, <2>5 DEF OnePlace, Held, Sent
    <3>2. Places(job) = {<<"collector", 0>>}
      BY <2>5, <3>1
    <3> QED
      BY <3>2
  <2>6. CASE job \in dropped
    <3>1. /\ ~(next <= job) /\ job \notin attempted
          /\ \A w \in Workers : ~HoldsJob(w, job)
          /\ \A r \in results : r.job # job
      BY <2>1, <2>6 DEF OnePlace, Held, Sent
    <3>2. Places(job) = {<<"dropped", 0>>}
      BY <2>6, <3>1
    <3> QED
      BY <3>2
  <2> QED
    BY <2>1, <2>2, <2>3, <2>4, <2>5, <2>6 DEF OnePlace
<1> QED
  BY <1>1, Invariance, PTL

\* A search that was not cut short has a result for every address.
THEOREM CompleteTheorem == Spec => []CompleteUnlessExpired
<1>1. DiscoveryInv => CompleteUnlessExpired
  <2> SUFFICES ASSUME DiscoveryInv, stage = "returned", ~expired
               PROVE  attempted = Jobs
    BY DEF CompleteUnlessExpired
  <2>1. attempted \subseteq Jobs /\ Jobs = 1..Len(plan) /\ Len(plan) \in Nat /\ next \in Nat
    BY DEF DiscoveryInv, TypeOK, Jobs
  <2>2. CASE plan = <<>>
    BY <2>1, <2>2 DEF Jobs
  <2>3. CASE plan # <<>>
    <3>1. /\ results = {} /\ dropped = {} /\ next > Len(plan)
          /\ \A w \in Workers : worker[w] = Done
      BY <2>3 DEF DiscoveryInv, Closings
    <3>2. \A job \in Jobs : ~Held(job) /\ ~Sent(job) /\ ~(next <= job)
      BY <2>1, <3>1 DEF Held, Sent, HoldsJob, Done
    <3> QED
      BY <2>1, <3>1, <3>2 DEF DiscoveryInv, Placed, OnePlace
  <2> QED
    BY <2>2, <2>3
<1> QED
  BY <1>1, Invariance, PTL

\* Nobody sends on a closed channel.
THEOREM ClosedIsQuietTheorem == Spec => []ClosedIsQuiet
<1>1. DiscoveryInv => ClosedIsQuiet
  BY DEF DiscoveryInv, Closings, ClosedIsQuiet, Done
<1> QED
  BY <1>1, Invariance, PTL

\* While the Mac probes, its plan is the one BeginProbing made.
ProbesThePlan == Probing => plan = Plan(interfaces)

\* What is probed is the hosts of the Mac's networks, cut down to the smallest prefix:
\* each once, and nothing else, up to the limit.
THEOREM ProbesAreLocalTheorem == Spec => []ProbesAreLocal
<1>1. Init => ProbesThePlan
  BY DEF Init, ProbesThePlan, Probing
<1>2. ProbesThePlan /\ [Next]_vars => ProbesThePlan'
  <2> SUFFICES ASSUME ProbesThePlan, [Next]_vars, stage' = "probing"
               PROVE  plan' = Plan(interfaces')
    BY DEF ProbesThePlan, Probing
  <2> USE DEF ProbesThePlan, Probing, search
  <2>1. CASE Expire
    BY <2>1 DEF Expire
  <2>2. ASSUME NEW a \in Devices, Answer(a) PROVE plan' = Plan(interfaces')
    BY <2>2 DEF Answer
  <2>3. CASE EndSearch
    BY <2>3 DEF EndSearch
  <2>4. CASE BeginProbing
    BY <2>4 DEF BeginProbing
  <2>5. CASE StopProducing \/ CloseResults \/ Return
    BY <2>5 DEF StopProducing, CloseResults, Return
  <2>6. ASSUME NEW r \in results, Collect(r) PROVE plan' = Plan(interfaces')
    BY <2>6 DEF Collect
  <2>7. ASSUME NEW w \in Workers, HandOut(w) \/ Probe(w) \/ Send(w) \/ GiveUp(w) \/ NoMoreJobs(w)
        PROVE  plan' = Plan(interfaces')
    BY <2>7 DEF HandOut, Probe, Send, GiveUp, NoMoreJobs
  <2>8. CASE UNCHANGED vars
    BY <2>8 DEF vars
  <2> QED
    BY <2>1, <2>2, <2>3, <2>4, <2>5, <2>6, <2>7, <2>8 DEF Next, EndMulticast, Pool
<1>3. TypeOK /\ ProbesThePlan => ProbesAreLocal
  BY PlanIsSubnetPlan, DiscoveryAssumption DEF TypeOK, ProbesThePlan, ProbesAreLocal
<1> QED
  BY <1>1, <1>2, <1>3, TypeCorrect, PTL DEF Spec

-----------------------------------------------------------------------------
(* Why the pool comes to an end *)

At(place) == {w \in Workers : worker[w].at = place}

\* There are finitely many workers, wherever they are.
LEMMA WorkersAtType == \A place : IsFiniteSet(At(place)) /\ WorkersAt(place) \in Nat
<1>1. IsFiniteSet(Workers)
  BY DiscoveryAssumption, FS_Interval DEF Workers
<1>2. ASSUME NEW place PROVE IsFiniteSet(At(place)) /\ WorkersAt(place) \in Nat
  <2>1. At(place) \in SUBSET Workers /\ WorkersAt(place) = Cardinality(At(place))
    BY DEF At, WorkersAt
  <2> QED
    BY <1>1, <2>1, FS_Subset, FS_CardinalityType
<1> QED
  BY <1>2

\* A worker that goes from one place to another is counted there, and no more here.
LEMMA WorkerMoves ==
    ASSUME worker \in [Workers -> WorkerStates], NEW w \in Workers, NEW state,
           Become(w, state),
           NEW from, worker[w].at = from, NEW to, state.at = to, from # to
    PROVE  /\ WorkersAt(from)' = WorkersAt(from) - 1
           /\ WorkersAt(to)' = WorkersAt(to) + 1
           /\ \A place : place # from /\ place # to => WorkersAt(place)' = WorkersAt(place)
<1>1. \A v \in Workers : worker'[v] = IF v = w THEN state ELSE worker[v]
  BY DEF Become
<1>2. /\ {v \in Workers : worker'[v].at = from} = At(from) \ {w} /\ w \in At(from)
      /\ {v \in Workers : worker'[v].at = to} = At(to) \cup {w} /\ w \notin At(to)
      /\ \A place : place # from /\ place # to => {v \in Workers : worker'[v].at = place} = At(place)
  BY <1>1 DEF At
<1>3. /\ Cardinality(At(from) \ {w}) = Cardinality(At(from)) - 1
      /\ Cardinality(At(to) \cup {w}) = Cardinality(At(to)) + 1
  <2>1. IsFiniteSet(At(from)) /\ IsFiniteSet(At(to))
    BY WorkersAtType
  <2>2. Cardinality(At(from) \ {w}) = Cardinality(At(from)) - 1
    BY <1>2, <2>1, FS_RemoveElement
  <2>3. Cardinality(At(to) \cup {w}) = Cardinality(At(to)) + 1
    BY <1>2, <2>1, FS_AddElement
  <2> QED
    BY <2>2, <2>3
<1> QED
  BY <1>2, <1>3 DEF WorkersAt, At

\* The results channel holds finitely many.
FiniteResults == IsFiniteSet(results)

\* Each step adds one result to it at most, or takes one.
LEMMA ResultsAreFinite == Spec => []FiniteResults
<1>1. Init => FiniteResults
  BY FS_EmptySet DEF Init, FiniteResults
<1>2. FiniteResults /\ [Next]_vars => FiniteResults'
  <2> SUFFICES ASSUME FiniteResults, [Next]_vars PROVE FiniteResults'
    OBVIOUS
  <2> USE DEF FiniteResults, search, pool
  <2>1. \A r : IsFiniteSet(results \cup {r}) /\ IsFiniteSet(results \ {r})
    BY FS_AddElement, FS_RemoveElement
  <2>2. CASE Expire \/ (\E a \in Devices : Answer(a)) \/ EndMulticast \/ UNCHANGED vars
    BY <2>2 DEF Expire, Answer, EndMulticast, EndSearch, BeginProbing, vars
  <2>3. CASE Pool
    BY <2>1, <2>3 DEF Pool, StopProducing, CloseResults, Return, Collect, HandOut, Probe,
                      Send, GiveUp, NoMoreJobs
  <2> QED
    BY <2>2, <2>3 DEF Next
<1> QED
  BY <1>1, <1>2, PTL DEF Spec

\* StepsLeft is made of numbers.
Counted ==
    /\ Len(plan) \in Nat /\ next \in Nat /\ Cardinality(results) \in Nat
    /\ \A place : WorkersAt(place) \in Nat
    /\ JobsLeft \in Nat /\ EndsLeft \in Nat /\ StepsLeft \in Nat

\* They are, because the plan and the sets that are counted are finite.
LEMMA CountedType == TypeOK /\ FiniteResults => Counted
<1> SUFFICES ASSUME TypeOK, FiniteResults PROVE Counted
  OBVIOUS
<1>1. Len(plan) \in Nat /\ next \in Nat /\ Len(plan) + 1 - next \in Nat
  <2>1. plan \in Seq(Int) /\ next \in 1..(Len(plan) + 1)
    BY DEF TypeOK
  <2> QED
    BY <2>1
<1>2. Cardinality(results) \in Nat
  BY FS_CardinalityType DEF FiniteResults
<1>3. \A place : WorkersAt(place) \in Nat
  BY WorkersAtType
<1>4. JobsLeft \in Nat
  <2> DEFINE waiting == Len(plan) + 1 - next
             sent == Cardinality(results)
  <2>1. waiting \in Nat /\ sent \in Nat /\ WorkersAt("probing") \in Nat /\ WorkersAt("sending") \in Nat
    BY <1>1, <1>2, <1>3
  <2>2. JobsLeft = 4 * waiting + 4 * WorkersAt("probing") + 3 * WorkersAt("sending") + sent
    BY DEF JobsLeft
  <2> HIDE DEF waiting, sent
  <2> QED
    BY <2>1, <2>2
<1>5. EndsLeft \in Nat
  BY DEF EndsLeft, OneIf
<1>6. StepsLeft \in Nat
  <2>1. WorkersAt("taking") \in Nat
    BY <1>3
  <2> QED
    BY <1>4, <1>5, <2>1 DEF StepsLeft
<1> QED
  BY <1>1, <1>2, <1>3, <1>4, <1>5, <1>6 DEF Counted

\* How JobsLeft changes when jobs move.
LEMMA JobsMove ==
    ASSUME Counted, plan' = plan, NEW handed \in Nat, next' = next + handed,
           NEW p \in Int, WorkersAt("probing")' = WorkersAt("probing") + p,
           NEW s \in Int, WorkersAt("sending")' = WorkersAt("sending") + s,
           NEW r \in Int, Cardinality(results') = Cardinality(results) + r
    PROVE  JobsLeft' = JobsLeft - 4 * handed + 4 * p + 3 * s + r
<1> DEFINE Sum(a, b, c, e) == 4 * a + 4 * b + 3 * c + e
           waiting == Len(plan) + 1 - next
           probing == WorkersAt("probing")
           sending == WorkersAt("sending")
           sent    == Cardinality(results)
<1>1. waiting \in Int /\ probing \in Int /\ sending \in Int /\ sent \in Int
  BY DEF Counted
<1>2. Len(plan') + 1 - next' = waiting - handed
  BY DEF Counted
<1>3. JobsLeft = Sum(waiting, probing, sending, sent)
  BY DEF JobsLeft
<1>4. JobsLeft' = Sum(waiting - handed, probing + p, sending + s, sent + r)
  BY <1>2 DEF JobsLeft
<1> HIDE DEF waiting, probing, sending, sent
<1>5. Sum(waiting - handed, probing + p, sending + s, sent + r)
        = Sum(waiting, probing, sending, sent) - 4 * handed + 4 * p + 3 * s + r
  BY <1>1
<1> HIDE DEF Sum
<1> QED
  BY <1>3, <1>4, <1>5

\* Every step of the pool brings its end nearer.
LEMMA ProgressStep ==
    ASSUME DiscoveryInv, FiniteResults, Counted, Counted', [Next]_vars, Probing,
           expired' = expired, vars' # vars
    PROVE  StepsLeft' < StepsLeft
<1> USE DEF search, pool
<1>1. /\ worker \in [Workers -> WorkerStates] /\ results \in SUBSET Results
      /\ jobsOpen \in BOOLEAN /\ resultsOpen \in BOOLEAN
      /\ Taking.at = "taking" /\ Done.at = "done"
  BY DEF DiscoveryInv, TypeOK, Taking, Done
<1>2. /\ JobsLeft \in Nat /\ EndsLeft \in Nat /\ WorkersAt("taking") \in Nat
      /\ JobsLeft' \in Nat /\ EndsLeft' \in Nat /\ WorkersAt("taking")' \in Nat
      /\ Len(plan) \in Nat /\ next \in Nat /\ Cardinality(results) \in Nat
      /\ WorkersAt("probing") \in Nat /\ WorkersAt("sending") \in Nat
  BY DEF Counted
<1>3. ASSUME NEW r \in results, Collect(r) PROVE StepsLeft' < StepsLeft
  <2>1. UNCHANGED <<plan, next, worker, jobsOpen, resultsOpen, stage>> /\ results' = results \ {r}
    BY <1>3 DEF Collect
  <2>2. Cardinality(results') = Cardinality(results) - 1
    BY <2>1, FS_RemoveElement DEF FiniteResults
  <2>3. JobsLeft' = JobsLeft - 1 /\ EndsLeft' = EndsLeft /\ WorkersAt("taking")' = WorkersAt("taking")
    BY <1>2, <2>1, <2>2 DEF JobsLeft, EndsLeft, WorkersAt, Probing
  <2> QED
    BY <1>2, <2>3 DEF StepsLeft
<1>4. ASSUME NEW w \in Workers, HandOut(w) PROVE StepsLeft' < StepsLeft
  <2>1. /\ UNCHANGED <<plan, results, jobsOpen, resultsOpen, stage>> /\ next' = next + 1
        /\ worker[w].at = "taking" /\ Become(w, [at |-> "probing", job |-> next])
    BY <1>1, <1>4 DEF HandOut
  <2>2. /\ WorkersAt("taking")' = WorkersAt("taking") - 1
        /\ WorkersAt("probing")' = WorkersAt("probing") + 1
        /\ WorkersAt("sending")' = WorkersAt("sending")
    BY <1>1, <2>1, WorkerMoves
  <2>3. JobsLeft' = JobsLeft /\ EndsLeft' = EndsLeft
    <3>1. /\ next' = next + 1 /\ WorkersAt("probing")' = WorkersAt("probing") + 1
          /\ WorkersAt("sending")' = WorkersAt("sending") + 0 /\ Cardinality(results') = Cardinality(results) + 0
      <4>1. next' = next + 1 /\ results' = results
        BY <2>1
      <4> QED
        BY <1>2, <2>2, <4>1
    <3>2. JobsLeft' = JobsLeft - 4 * 1 + 4 * 1 + 3 * 0 + 0
      BY <2>1, <3>1, JobsMove
    <3> QED
      BY <1>2, <2>1, <3>2 DEF EndsLeft, Probing
  <2> QED
    BY <1>2, <2>2, <2>3 DEF StepsLeft
<1>5. ASSUME NEW w \in Workers, Probe(w) PROVE StepsLeft' < StepsLeft
  <2>1. UNCHANGED <<plan, next, results, jobsOpen, resultsOpen, stage>> /\ worker[w].at = "probing"
    BY <1>5 DEF Probe
  <2>2. PICK o \in Outcomes : Become(w, [at |-> "sending",
                                        result |-> [job |-> worker[w].job, outcome |-> o]])
    BY <1>5 DEF Probe
  <2>3. /\ WorkersAt("taking")' = WorkersAt("taking")
        /\ WorkersAt("probing")' = WorkersAt("probing") - 1
        /\ WorkersAt("sending")' = WorkersAt("sending") + 1
    BY <1>1, <2>1, <2>2, WorkerMoves
  <2>4. JobsLeft' = JobsLeft - 1 /\ EndsLeft' = EndsLeft
    <3>1. /\ next' = next + 0 /\ WorkersAt("probing")' = WorkersAt("probing") + (-1)
          /\ WorkersAt("sending")' = WorkersAt("sending") + 1 /\ Cardinality(results') = Cardinality(results) + 0
      BY <1>2, <2>1, <2>3
    <3>2. JobsLeft' = JobsLeft - 4 * 0 + 4 * (-1) + 3 * 1 + 0
      BY <2>1, <3>1, JobsMove
    <3> QED
      BY <1>2, <2>1, <3>2 DEF EndsLeft, Probing
  <2> QED
    BY <1>2, <2>3, <2>4 DEF StepsLeft
<1>6. ASSUME NEW w \in Workers, Send(w) PROVE StepsLeft' < StepsLeft
  <2> DEFINE r == worker[w].result
  <2>1. /\ UNCHANGED <<plan, next, jobsOpen, resultsOpen, stage>> /\ results' = results \cup {r}
        /\ worker[w].at = "sending" /\ Become(w, Taking)
    BY <1>6 DEF Send
  <2>2. r \notin results
    <3>1. r.job \in Jobs
      BY <1>1, <2>1, WorkerFacts
    <3>2. ~Sent(r.job)
      BY <2>1, <3>1 DEF DiscoveryInv, Placed, OnePlace, Held, HoldsJob
    <3> QED
      BY <3>2 DEF Sent
  <2> HIDE DEF r
  <2>3. Cardinality(results') = Cardinality(results) + 1
    BY <2>1, <2>2, FS_AddElement DEF FiniteResults
  <2>4. /\ WorkersAt("taking")' = WorkersAt("taking") + 1
        /\ WorkersAt("probing")' = WorkersAt("probing")
        /\ WorkersAt("sending")' = WorkersAt("sending") - 1
    BY <1>1, <2>1, WorkerMoves
  <2>5. JobsLeft' = JobsLeft - 2 /\ EndsLeft' = EndsLeft
    <3>1. /\ next' = next + 0 /\ WorkersAt("probing")' = WorkersAt("probing") + 0
          /\ WorkersAt("sending")' = WorkersAt("sending") + (-1) /\ Cardinality(results') = Cardinality(results) + 1
      BY <1>2, <2>1, <2>3, <2>4
    <3>2. JobsLeft' = JobsLeft - 4 * 0 + 4 * 0 + 3 * (-1) + 1
      <4>1. plan' = plan
        BY <2>1
      <4>2. 0 \in Nat /\ -1 \in Int /\ 1 \in Int
        OBVIOUS
      <4> QED
        BY <3>1, <4>1, <4>2, JobsMove
    <3> QED
      BY <1>2, <2>1, <3>2 DEF EndsLeft, Probing
  <2> QED
    BY <1>2, <2>4, <2>5 DEF StepsLeft
<1>7. ASSUME NEW w \in Workers, GiveUp(w) PROVE StepsLeft' < StepsLeft
  <2>1. /\ UNCHANGED <<plan, next, results, jobsOpen, resultsOpen, stage>>
        /\ worker[w].at = "sending" /\ Become(w, Done)
    BY <1>7 DEF GiveUp
  <2>2. /\ WorkersAt("taking")' = WorkersAt("taking")
        /\ WorkersAt("probing")' = WorkersAt("probing")
        /\ WorkersAt("sending")' = WorkersAt("sending") - 1
    BY <1>1, <2>1, WorkerMoves
  <2>3. JobsLeft' = JobsLeft - 3 /\ EndsLeft' = EndsLeft
    <3>1. /\ next' = next + 0 /\ WorkersAt("probing")' = WorkersAt("probing") + 0
          /\ WorkersAt("sending")' = WorkersAt("sending") + (-1) /\ Cardinality(results') = Cardinality(results) + 0
      BY <1>2, <2>1, <2>2
    <3>2. JobsLeft' = JobsLeft - 4 * 0 + 4 * 0 + 3 * (-1) + 0
      BY <2>1, <3>1, JobsMove
    <3> QED
      BY <1>2, <2>1, <3>2 DEF EndsLeft, Probing
  <2> QED
    BY <1>2, <2>2, <2>3 DEF StepsLeft
<1>8. ASSUME NEW w \in Workers, NoMoreJobs(w) PROVE StepsLeft' < StepsLeft
  <2>1. /\ UNCHANGED <<plan, next, results, jobsOpen, resultsOpen, stage>>
        /\ worker[w].at = "taking" /\ Become(w, Done)
    BY <1>1, <1>8 DEF NoMoreJobs
  <2>2. /\ WorkersAt("taking")' = WorkersAt("taking") - 1
        /\ WorkersAt("probing")' = WorkersAt("probing")
        /\ WorkersAt("sending")' = WorkersAt("sending")
    BY <1>1, <2>1, WorkerMoves
  <2>3. JobsLeft' = JobsLeft /\ EndsLeft' = EndsLeft
    <3>1. /\ next' = next + 0 /\ WorkersAt("probing")' = WorkersAt("probing") + 0
          /\ WorkersAt("sending")' = WorkersAt("sending") + 0 /\ Cardinality(results') = Cardinality(results) + 0
      BY <1>2, <2>1, <2>2
    <3>2. JobsLeft' = JobsLeft - 4 * 0 + 4 * 0 + 3 * 0 + 0
      BY <2>1, <3>1, JobsMove
    <3> QED
      BY <1>2, <2>1, <3>2 DEF EndsLeft, Probing
  <2> QED
    BY <1>2, <2>2, <2>3 DEF StepsLeft
<1>9. CASE StopProducing \/ CloseResults \/ Return
  <2>1. UNCHANGED <<plan, next, worker, results>>
    BY <1>9 DEF StopProducing, CloseResults, Return
  <2>2. JobsLeft' = JobsLeft /\ WorkersAt("taking")' = WorkersAt("taking")
    BY <2>1 DEF JobsLeft, WorkersAt
  <2>3. EndsLeft' = EndsLeft - 1
    BY <1>1, <1>9 DEF StopProducing, CloseResults, Return, EndsLeft, OneIf, Probing
  <2> QED
    BY <1>2, <2>2, <2>3 DEF StepsLeft
<1>10. Pool
  BY DEF Next, Expire, Answer, EndMulticast, EndSearch, BeginProbing, Probing
<1> QED
  BY <1>3, <1>4, <1>5, <1>6, <1>7, <1>8, <1>9, <1>10 DEF Pool

\* The pool takes no more steps than StepsLeft says.
THEOREM PoolProgressesTheorem == Spec => PoolProgresses
<1>1. DiscoveryInv /\ FiniteResults /\ Counted /\ Counted' /\ [Next]_vars
        => [Probing /\ expired' = expired => StepsLeft' \in 0..(StepsLeft - 1)]_vars
  <2> SUFFICES ASSUME DiscoveryInv, FiniteResults, Counted, Counted', [Next]_vars, Probing,
                      expired' = expired, vars' # vars
               PROVE  StepsLeft' \in 0..(StepsLeft - 1)
    OBVIOUS
  <2>1. StepsLeft' < StepsLeft
    BY ProgressStep
  <2>2. StepsLeft \in Nat /\ StepsLeft' \in Nat
    BY DEF Counted
  <2> QED
    BY <2>1, <2>2
<1>2. DiscoveryInv /\ FiniteResults => Counted
  BY CountedType DEF DiscoveryInv
<1> QED
  BY <1>1, <1>2, Invariance, ResultsAreFinite, PTL DEF Spec, PoolProgresses

\* Some guard of a step of the pool holds.
SomeoneCanGoOn ==
    \/ results # {}                                              \* Collect
    \/ ~resultsOpen /\ results = {}                              \* Return
    \/ jobsOpen /\ (next > Len(plan) \/ expired)                 \* StopProducing
    \/ resultsOpen /\ \A w \in Workers : worker[w] = Done        \* CloseResults
    \/ \E w \in Workers :
         \/ jobsOpen /\ next <= Len(plan) /\ worker[w] = Taking  \* HandOut
         \/ ~jobsOpen /\ worker[w] = Taking                      \* NoMoreJobs
         \/ worker[w].at = "probing"                             \* Probe
         \/ worker[w].at = "sending" /\ Cardinality(results) < Capacity  \* Send

\* The collector, the producer and the workers never all wait for each other.
THEOREM NeverStuckTheorem == Spec => [](Probing => SomeoneCanGoOn)
<1>1. DiscoveryInv => (Probing => SomeoneCanGoOn)
  <2> SUFFICES ASSUME DiscoveryInv, Probing, results = {} PROVE SomeoneCanGoOn
    BY DEF SomeoneCanGoOn
  <2>1. Cardinality(results) = 0
    BY FS_EmptySet
  <2>2. Cardinality(results) < Capacity
    <3>1. plan \in Seq(Int) /\ plan # <<>>
      BY DEF DiscoveryInv, TypeOK, Closings
    <3>2. Len(plan) \in Nat /\ Len(plan) > 0
      BY <3>1
    <3> QED
      BY <2>1, <3>2, DiscoveryAssumption DEF Capacity
  <2>3. /\ jobsOpen \in BOOLEAN /\ resultsOpen \in BOOLEAN
        /\ next <= Len(plan) \/ next > Len(plan)
    <3>1. plan \in Seq(Int) /\ next \in 1..(Len(plan) + 1)
      BY DEF DiscoveryInv, TypeOK
    <3> QED
      BY <3>1 DEF DiscoveryInv, TypeOK
  <2>4. \A w \in Workers : worker[w] = Taking \/ worker[w] = Done
                             \/ worker[w].at = "probing" \/ worker[w].at = "sending"
    BY DEF DiscoveryInv, TypeOK, WorkerStates
  <2> QED
    BY <2>2, <2>3, <2>4 DEF SomeoneCanGoOn
<1> QED
  BY <1>1, Invariance, PTL
=============================================================================
