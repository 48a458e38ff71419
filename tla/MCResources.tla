----------------------------- MODULE MCResources -----------------------------
(* Instances of Resources for TLC. *)
EXTENDS Resources, TLC

CONSTANTS r1, r2, o1, o2

Sym == Permutations(Requests) \cup Permutations(Orgs)

\* Every handler, and the crash of the process.
AllOps == {"NewSource", "UpdateSource", "RemoveSource", "NewServer",
           "UpdateServer", "RemoveServer", "Crash"}

\* Two sources with one server, one source with two servers; not two of both.
Few == sourceSeq + serverSeq <= MaxSources + MaxServers - 1
==============================================================================
