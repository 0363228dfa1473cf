---------------------------- MODULE MCDiscovery ----------------------------
(* Instances of Discovery for TLC: a Mac with up to three networks, below, at and
   above the smallest prefix, apart or overlapping, some of them to be skipped. *)
EXTENDS Discovery

Nets == [ip : {5, 6, 9}, prefix : {1, 2, 3, 4}, local : {TRUE}]

Skipped == [ip |-> 17, prefix |-> 2, local |-> FALSE]

MCMacs ==
    {<<[scanned |-> TRUE, networks |-> <<n>>]>> : n \in Nets}
      \cup {<<[scanned |-> TRUE, networks |-> <<Skipped, m>>],
              [scanned |-> on, networks |-> <<n>>]>> :
              m \in {k \in Nets : k.prefix = 3}, n \in Nets, on \in BOOLEAN}
=============================================================================
