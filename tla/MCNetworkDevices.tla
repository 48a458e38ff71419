--------------------------- MODULE MCNetworkDevices ---------------------------
(* Instances of NetworkDevices for TLC. *)
EXTENDS NetworkDevices, TLC

CONSTANTS r1, r2, o1, o2, a1, a2, c1, c2, k1, k2, t1

Sym == Permutations(Requests) \cup Permutations(Orgs) \cup Permutations(IPs)
         \cup Permutations(Kapas) \cup Permutations(Collectors)

\* One handler at a time: devices that move between organizations, change their
\* address and are removed, and the files that have to follow.
FilesOps == {"NewDevice", "UpdateNetworkDevice", "Collect", "Learn", "Remove",
             "UpdateOrg", "SaltFails", "Crash"}
\* A client's own lists: with a device twice, with one that is not yet made.
FilesLists == {<<1, 1>>, <<2, 2, 1>>}

\* A fault happens, or a client sets a list or a collector (which the cron of the
\* record tells), while there is one device; and the requests that begin while a
\* file is in doubt are Collects, which repair it.  A Learn asks to stop
\* learning: what it appends is for the next instance.
RepairFirst ==
    /\ faults > 0 => deviceSeq = 1
    /\ (\E o \in StoredOrgs : devOrgs[o].cron # Absent) =>
          deviceSeq = 1 /\ faults = 0
    /\ \A r \in Requests :
        /\ req[r].op = "Learn" => req[r].on = {}
        /\ req[r].op = "UpdateOrg" => req[r].rec.learned = <<>>
    /\ fileDoubt # {} => \A r \in Requests :
        /\ req[r].op \in {"none", "Collect", "Learn", "Remove"}
        /\ At(r, "get") => req[r].op = "Collect"

\* Handlers racing over a device and the record of its organization, which has
\* a learning task.
TasksOps == {"NewDevice", "NewDevices", "UpdateNetworkDevice", "Learn", "Remove",
             "AddOrg", "UpdateOrg", "RemoveOrg", "KapacitorFails", "Crash"}

\* The smallest set of operations under which a claim breaks.
MovedOps == {"NewDevice", "UpdateNetworkDevice", "Collect"}
==============================================================================
