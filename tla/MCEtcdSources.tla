---------------------------- MODULE MCEtcdSources ----------------------------
(* Instances of EtcdSources for TLC. *)
EXTENDS EtcdSources, TLC

CONSTANTS r1, r2, r3

Sym == Permutations(Requests)

AllOps == {"NewSource", "UpdateSource", "RemoveSource", "Timeout"}
==============================================================================
