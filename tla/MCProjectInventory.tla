---------------------------- MODULE MCProjectInventory ----------------------------
(* Instances of ProjectInventory for TLC: a project, and a checkout inside it. *)
EXTENDS ProjectInventory

CONSTANTS outer, inner

MCPaths  == {outer, inner}
MCInside == [p \in MCPaths |-> IF p = outer THEN {inner} ELSE {}]
=============================================================================
