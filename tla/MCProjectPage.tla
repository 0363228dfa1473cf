----------------------------- MODULE MCProjectPage -----------------------------
(* Instances of ProjectPage for TLC: checkouts beside one another. *)
EXTENDS ProjectPage

MCInside == [p \in Paths |-> {}]
=============================================================================
