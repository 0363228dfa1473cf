---------------------------- MODULE MCClientConfig ----------------------------
(* Instances of ClientConfig for TLC. *)
EXTENDS ClientConfig, TLC

ConfigSymmetry == Permutations(Runs)
=============================================================================
